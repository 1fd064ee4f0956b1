------------------------------ MODULE MailReply ------------------------------
(***************************************************************************)
(* Answering mail in the Hermes e-mail gateway                             *)
(* (roles/k8s_infra/files/hermes_email_gateway_patched.py), quoting on.    *)
(*                                                                         *)
(* The event loop dispatches a mail, noting it as the one its sender's     *)
(* thread is at and as one a reply may quote.  Replies are built and sent  *)
(* by executor threads, several at a time: a thread claims the quote,      *)
(* builds the mail, talks SMTP, copies the mail to Sent, settles the claim.*)
(***************************************************************************)
EXTENDS Naturals, Sequences, SequencesExt, FiniteSets

CONSTANTS
    Letters,    \* the mails received
    Author,     \* Author[m]: their senders
    MsgId,      \* MsgId[m]: their Message-IDs; two mails may share one
    NoId, NoLetter,
    Threads,    \* executor threads
    LookupMax,  \* _QUOTE_LOOKUP_MAX
    MaxSends    \* bound: replies, retries included

ASSUME ReplyAssumption ==
    /\ NoLetter \notin Letters
    /\ LookupMax \in Nat \ {0}
    /\ MaxSends \in Nat

Authors == {Author[m] : m \in Letters}

\* A record of the adapter is named by its mail.  byId and lastOf are the two
\* OrderedDicts, oldest entry first; pages and confirmed note the quotes
\* that left by SMTP, and how often a send that quoted a mail succeeded (history).
VARIABLES arrivedL, byId, lastOf, quoteState, threadAt, sends, sendCount, pages, confirmed

replyVars == <<arrivedL, byId, lastOf, quoteState, threadAt, sends, sendCount, pages, confirmed>>

Send == [pc : {"free", "claim", "build", "smtp", "archive", "settle"},
         turn : Letters \cup {NoLetter}, explicit : BOOLEAN,
         want : {NoId} \cup {MsgId[m] : m \in Letters},
         quote : Letters \cup {NoLetter}, re : {NoId} \cup {MsgId[m] : m \in Letters},
         sent : BOOLEAN]

Free == [pc |-> "free", turn |-> NoLetter, explicit |-> FALSE, want |-> NoId,
         quote |-> NoLetter, re |-> NoId, sent |-> FALSE]

ReplyInit ==
    /\ arrivedL = {}
    /\ byId = <<>> /\ lastOf = <<>>
    /\ quoteState = [m \in Letters |-> ""]
    /\ threadAt = [a \in Authors |-> NoId]
    /\ sends = [s \in Threads |-> Free]
    /\ sendCount = 0
    /\ pages = {}
    /\ confirmed = [m \in Letters |-> 0]

----------------------------------------------------------------------------
(* The event loop *)

\* Mutant: the oldest entry is kept.
Bounded_All(seq) == seq
Bounded(seq) == IF Len(seq) > LookupMax THEN Tail(seq) ELSE seq

\* An OrderedDict without the entry of m's key, if it has one.
Popped(seq, m, key) ==
    LET same == {i \in DOMAIN seq : key[seq[i]] = key[m]}
    IN  IF same = {} THEN seq ELSE RemoveAt(seq, CHOOSE i \in same : TRUE)

\* Moves m to the end of an OrderedDict, in place of the entry with its key.
Renew(seq, m, key) == Bounded(Append(Popped(seq, m, key), m))

\* _remember_original and, for a sender who is answered without a grant,
\* _forget_sender_original
Remember(m) ==
    /\ byId' = IF MsgId[m] = NoId THEN byId ELSE Renew(byId, m, MsgId)
    /\ lastOf' = Renew(lastOf, m, Author)

Forget(m) ==
    /\ byId' = byId
    /\ lastOf' = Popped(lastOf, m, Author)

\* _dispatch_message, for a mail whose sender is accepted.
Received(m, granted) ==
    /\ m \notin arrivedL
    /\ arrivedL' = arrivedL \cup {m}
    /\ threadAt' = [threadAt EXCEPT ![Author[m]] = MsgId[m]]
    /\ IF granted THEN Remember(m) ELSE Forget(m)
    /\ UNCHANGED <<quoteState, sends, sendCount, pages, confirmed>>

----------------------------------------------------------------------------
(* A sending thread *)

\* send, send_document: a reply of the turn that m started, naming m or not;
\* retries of a failed send are further calls.
StartSend(s, m, explicit) ==
    /\ sends[s].pc = "free"
    /\ sendCount < MaxSends
    /\ m \in arrivedL
    /\ explicit => MsgId[m] # NoId
    /\ sends' = [sends EXCEPT ![s] = [Free EXCEPT !.pc = "claim", !.turn = m,
                     !.explicit = explicit,
                     !.want = IF explicit THEN MsgId[m] ELSE threadAt[Author[m]]]]
    /\ sendCount' = sendCount + 1
    /\ UNCHANGED <<arrivedL, byId, lastOf, quoteState, threadAt, pages, confirmed>>

\* The records a reply to a may quote: by Message-ID, else the sender's last
\* mail when it is the same mail or nothing names one.
Lookup(want, a) ==
    LET named == {m \in Letters : m \in ToSet(byId) /\ want # NoId /\ MsgId[m] = want}
        latest == {m \in Letters : m \in ToSet(lastOf) /\ Author[m] = a}
    IN  IF named # {} THEN named ELSE {m \in latest : want = NoId \/ MsgId[m] = want}

\* _claim_quote, under the lock.  Only the final reply of a turn quotes, and only
\* when _build_quote leaves something within quote_max_chars and the length
\* limit of a mail: any send may go without.
Claimable_Again(s) == {m \in Lookup(sends[s].want, Author[sends[s].turn]) :
                          Author[m] = Author[sends[s].turn] /\ quoteState[m] # "done"}
Claimable(s) == {m \in Lookup(sends[s].want, Author[sends[s].turn]) :
                    Author[m] = Author[sends[s].turn] /\ quoteState[m] = ""}

Claim(s) ==
    /\ sends[s].pc = "claim"
    /\ \/ \E m \in Claimable(s) :
              /\ sends' = [sends EXCEPT ![s].pc = "build", ![s].quote = m]
              /\ quoteState' = [quoteState EXCEPT ![m] = "pending"]
       \/ sends' = [sends EXCEPT ![s].pc = "build"] /\ UNCHANGED quoteState
    /\ UNCHANGED <<arrivedL, byId, lastOf, threadAt, sendCount, pages, confirmed>>

Ended(s, sent) == sends' = [sends EXCEPT ![s].pc = "settle", ![s].sent = sent]

\* _new_reply, which reads the thread again, and the attachments; one that
\* cannot be read fails the send.
Build(s) ==
    /\ sends[s].pc = "build"
    /\ \/ sends' = [sends EXCEPT ![s].pc = "smtp", ![s].re =
              IF sends[s].explicit THEN sends[s].want ELSE threadAt[Author[sends[s].turn]]]
       \/ Ended(s, FALSE)
    /\ UNCHANGED <<arrivedL, byId, lastOf, quoteState, threadAt, sendCount, pages, confirmed>>

Page(s) == IF sends[s].quote = NoLetter THEN {}
           ELSE {[turn |-> sends[s].turn, quote |-> sends[s].quote, re |-> sends[s].re,
                  explicit |-> sends[s].explicit]}

\* _smtp_send: the connection (IPv4 alone when the first attempt fails), login
\* and delivery; a failure may hide that the server took the mail.
Smtp(s) ==
    /\ sends[s].pc = "smtp"
    /\ \/ /\ pages' = pages \cup Page(s)
          /\ confirmed' = [m \in Letters |-> confirmed[m] + IF m = sends[s].quote THEN 1 ELSE 0]
          /\ sends' = [sends EXCEPT ![s].pc = "archive"]
       \/ pages' \in {pages, pages \cup Page(s)} /\ Ended(s, FALSE) /\ UNCHANGED confirmed
    /\ UNCHANGED <<arrivedL, byId, lastOf, quoteState, threadAt, sendCount>>

\* _append_to_sent, the claim still open; its failures are logged only, and the
\* folder is not in the state.
Archive(s) ==
    /\ sends[s].pc = "archive"
    /\ Ended(s, TRUE)
    /\ UNCHANGED <<arrivedL, byId, lastOf, quoteState, threadAt, sendCount, pages, confirmed>>

\* _settle_quote: done, or open again for a retry.
Settled(sent) == IF sent THEN "done" ELSE ""

Settle(s) ==
    /\ sends[s].pc = "settle"
    /\ quoteState' = [m \in Letters |-> IF m = sends[s].quote THEN Settled(sends[s].sent)
                                        ELSE quoteState[m]]
    /\ sends' = [sends EXCEPT ![s] = Free]
    /\ UNCHANGED <<arrivedL, byId, lastOf, threadAt, sendCount, pages, confirmed>>

----------------------------------------------------------------------------
SendStep(s) == Claim(s) \/ Build(s) \/ Smtp(s) \/ Archive(s) \/ Settle(s)

ReplyNext ==
    \/ \E m \in Letters, granted \in BOOLEAN : Received(m, granted)
    \/ \E s \in Threads, m \in Letters, explicit \in BOOLEAN : StartSend(s, m, explicit)
    \/ \E s \in Threads : SendStep(s)

ReplySpec == ReplyInit /\ [][ReplyNext]_replyVars

----------------------------------------------------------------------------
(* Properties *)

\* A bounded dictionary of mails that arrived: an entry for a key.
Table(seq, key) ==
    /\ seq \in Seq(arrivedL) /\ Len(seq) <= LookupMax
    /\ \A i, j \in DOMAIN seq : key[seq[i]] = key[seq[j]] => i = j

ReplyTypeOK ==
    /\ arrivedL \subseteq Letters
    /\ Table(byId, MsgId) /\ Table(lastOf, Author)
    /\ quoteState \in [Letters -> {"", "pending", "done"}]
    /\ sends \in [Threads -> Send]
    /\ sendCount \in 0 .. MaxSends

\* A mail is quoted by one reply: never in two replies that are under way at the
\* same time, and never again after a reply that went out, however sends fail,
\* are repeated and overtake each other.
QuotedOnce ==
    /\ \A s, t \in Threads : sends[s].quote = sends[t].quote /\ sends[s].quote # NoLetter => s = t
    /\ \A m \in Letters : confirmed[m] <= 1

\* A reply that names the mail it answers quotes that mail or none, also when
\* mails share a Message-ID, have none, or have been evicted.
QuotesNamedMail ==
    \A p \in pages : p.explicit => /\ MsgId[p.quote] = MsgId[p.turn]
                                   /\ Author[p.quote] = Author[p.turn]

\* Only a send that is under way keeps a mail pending; when it is over the mail
\* was quoted, or a retry can quote it again (_settle_quote).
PendingIsOwned ==
    \A m \in Letters :
        /\ quoteState[m] = "pending" => \E s \in Threads : sends[s].quote = m
        /\ quoteState[m] = "done" <=> confirmed[m] = 1 /\ ~\E s \in Threads : sends[s].quote = m

\* A quote stands in a mail that is threaded to the quoted mail (the comment
\* in _claim_quote: never a different mail than the one being replied to).
QuoteThreaded ==
    \A p \in pages : p.re = MsgId[p.quote]

\* A reply quotes the mail it answers, once, and a failed one gives it back.
QuotesHold == QuotedOnce /\ QuotesNamedMail /\ PendingIsOwned
=============================================================================
