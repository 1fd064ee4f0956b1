------------------------------- MODULE MailAuth -------------------------------
(***************************************************************************)
(* Whether the Hermes e-mail gateway accepts a sender                      *)
(* (roles/k8s_infra/files/hermes_email_gateway_patched.py): the headers    *)
(* are judged before the mail is downloaded, the mail before it is given   *)
(* to the agent.  Between the two a pairing may be approved or withdrawn.  *)
(***************************************************************************)
EXTENDS Naturals, Sequences, SequencesExt

CONSTANTS
    Clauses,    \* clauses of an Authentication-Results header that occur
    MaxClauses  \* bound: clauses in one header

\* A clause: its method, whether it passed, and for each property the way the
\* domains it names relate to the From domain.
Domains == SUBSET {"aligned", "foreign"}
Clause == [method : {"dmarc", "spf", "dkim"}, pass : BOOLEAN,
           from : Domains,       \* header.from
           mail : Domains,       \* smtp.mailfrom, smtp.from, envelope-from
           d : Domains]          \* header.d

ASSUME AuthAssumption == Clauses \subseteq Clause /\ MaxClauses \in Nat

\* The topmost header: absent, unreadable, of another server or of the pinned one.
Headers == [stamp : {"missing", "unbalanced", "unpinned", "untrusted"}, clauses : {<<>>}]
           \cup [stamp : {"trusted"}, clauses : SeqOf(Clauses, MaxClauses)]

Senders == {"self", "automated", "unparsable", "listed", "localpart", "stranger"}

\* The settings, and the gateway's own verdict on the sender ("none": it has no
\* check), which pairing changes while the gateway runs.
Policies == [require : BOOLEAN, answers : BOOLEAN, open : BOOLEAN,
             verdict : {"granted", "denied", "none"}]

VARIABLES stageA, header, sender, policy, proven, grantedA, moved

authVars == <<stageA, header, sender, policy, proven, grantedA, moved>>

NoHeader == [stamp |-> "missing", clauses |-> <<>>]

AuthInit ==
    /\ stageA = "new" /\ header = NoHeader /\ sender = "stranger"
    /\ policy = [require |-> TRUE, answers |-> FALSE, open |-> FALSE, verdict |-> "none"]
    /\ proven = FALSE /\ grantedA = FALSE /\ moved = FALSE

----------------------------------------------------------------------------
(* _verify_sender_authentication *)

Of(clauses, method) == {i \in DOMAIN clauses : clauses[i].method = method}
AtMostOne(places) == \A i, j \in places : i = j

Aligned(domains) == domains = {"aligned"}

DmarcPasses(c) == c.pass /\ "foreign" \notin c.from
SpfPasses(c) == c.pass /\ Aligned(c.mail)
DkimPasses(c) == c.pass /\ IF c.d # {} THEN Aligned(c.d) ELSE Aligned(c.from)

Passed(h) ==
    \/ \E i \in Of(h.clauses, "dmarc") : DmarcPasses(h.clauses[i])
    \/ /\ AtMostOne(Of(h.clauses, "spf"))
       /\ \E i \in Of(h.clauses, "spf") : SpfPasses(h.clauses[i])
    \/ \E i \in Of(h.clauses, "dkim") : DkimPasses(h.clauses[i])

Verified_EitherDmarc(h) == h.stamp = "trusted" /\ Passed(h)
Verified(h) == h.stamp = "trusted" /\ AtMostOne(Of(h.clauses, "dmarc")) /\ Passed(h)

----------------------------------------------------------------------------
(* _sender_accepted *)

Granted == \/ sender = "listed"
           \/ sender = "stranger" /\ policy.verdict = "granted"
           \/ sender = "stranger" /\ policy.verdict = "none" /\ policy.open

Accepted == /\ sender \in {"listed", "stranger"}
            /\ Granted \/ policy.answers
            /\ policy.require => proven

----------------------------------------------------------------------------
(* The way of one mail *)

\* A mail and the settings it meets.
Fetch(h, s, p) ==
    /\ stageA = "new"
    /\ stageA' = "fetched"
    /\ header' = h /\ sender' = s /\ policy' = p
    /\ UNCHANGED <<proven, grantedA, moved>>

\* _message_metadata, of the headers alone
Parse ==
    /\ stageA = "fetched"
    /\ IF sender \in {"automated", "unparsable"}
       THEN stageA' = "refused" /\ UNCHANGED proven
       ELSE stageA' = "parsed" /\ proven' = Verified(header)
    /\ UNCHANGED <<header, sender, policy, grantedA, moved>>

Preflight == Accepted

Preauthorize ==
    /\ stageA = "parsed"
    /\ stageA' = IF Preflight THEN "downloaded" ELSE "refused"
    /\ UNCHANGED <<header, sender, policy, proven, grantedA, moved>>

Pair(v) ==
    /\ stageA \in {"parsed", "downloaded"}
    /\ v # policy.verdict /\ "none" \notin {v, policy.verdict}
    /\ policy' = [policy EXCEPT !.verdict = v]
    /\ moved' = (stageA = "downloaded")
    /\ UNCHANGED <<stageA, header, sender, proven, grantedA>>

\* _dispatch_message judges the sender again and notes whether it has a grant.
DispatchA ==
    /\ stageA = "downloaded"
    /\ stageA' = IF Accepted THEN "handed" ELSE "dropped"
    /\ grantedA' = Granted
    /\ UNCHANGED <<header, sender, policy, proven, moved>>

AuthNext ==
    \/ stageA = "new" /\ \E h \in Headers, s \in Senders, p \in Policies : Fetch(h, s, p)
    \/ Parse \/ Preauthorize \/ DispatchA
    \/ \E v \in {"granted", "denied"} : Pair(v)

AuthSpec == AuthInit /\ [][AuthNext]_authVars

----------------------------------------------------------------------------
(* Properties *)

\* One clause that passed and names nobody but the From domain; a DMARC verdict
\* may come without a domain.
Vouches(c) ==
    /\ c.pass
    /\ CASE c.method = "dmarc" -> "foreign" \notin c.from
         [] c.method = "spf" -> "foreign" \notin c.mail /\ c.mail # {}
         [] c.method = "dkim" -> \/ "foreign" \notin c.d /\ c.d # {}
                                 \/ c.d = {} /\ c.from = {"aligned"}

\* With sender authentication on, what reaches the agent was vouched for by a
\* clause of the pinned server's topmost header, and no two such clauses of one
\* transaction contradict each other: a second dmarc result spoils the header.
HandedIsVouched ==
    stageA = "handed" /\ policy.require =>
        /\ header.stamp = "trusted"
        /\ \E c \in ToSet(header.clauses) : Vouches(c)
        /\ \A i, j \in DOMAIN header.clauses :
               header.clauses[i].method = "dmarc" /\ header.clauses[j].method = "dmarc" => i = j

\* A mail is downloaded and then dropped only when a pairing changed meanwhile:
\* the preflight on the headers and the check at dispatch agree.
DroppedMeansMoved == stageA = "dropped" => moved

\* The check before the download and the one at dispatch agree, and what passes
\* both was vouched for.
AuthAgrees == HandedIsVouched /\ DroppedMeansMoved
=============================================================================
