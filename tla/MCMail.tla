------------------------------- MODULE MCMail -------------------------------
(* Instances for TLC of the three modules of the Hermes mail gateway:       *)
(* receiving, the check of the sender, and replying.  What they share (a    *)
(* mail is handed over once it is accepted, and then answered) is an input  *)
(* of each; a behaviour is one of any of them.                              *)
EXTENDS MCMailGateway, MailReply, MailAuth

\* Two mails of one sender with different ids, one of another sender who
\* repeats the first id.
MCAuthor == (1 :> "a") @@ (2 :> "a") @@ (3 :> "b")
MCMsgId == (1 :> "x") @@ (2 :> "none") @@ (3 :> "x")

\* Results as the pinned server writes them, good and bad, and ones that name
\* a second domain or none.
Plain(m, p) == [method |-> m, pass |-> p, from |-> {}, mail |-> {}, d |-> {}]
MCClauses ==
    {[Plain("dmarc", p) EXCEPT !.from = f] : p \in BOOLEAN, f \in Domains}
    \cup {[Plain("spf", TRUE) EXCEPT !.mail = e] : e \in Domains}
    \cup {[Plain("dkim", TRUE) EXCEPT !.from = f, !.d = d] :
              f \in {{}, {"aligned"}}, d \in Domains}

CONSTANTS t1, t2

\* Adapters and threads are told apart by nothing but their state.
MailSymmetry == Symmetry \cup Permutations({t1, t2})

VARIABLE program

mailAll == <<program, vars, replyVars, authVars>>

MailInit ==
    /\ program \in {"receive", "reply", "auth"}
    /\ Init /\ ReplyInit /\ AuthInit

MailNext ==
    /\ UNCHANGED program
    /\ \/ program = "receive" /\ Next /\ UNCHANGED <<replyVars, authVars>>
       \/ program = "reply" /\ ReplyNext /\ UNCHANGED <<vars, authVars>>
       \/ program = "auth" /\ AuthNext /\ UNCHANGED <<vars, replyVars>>

MailSpec == MailInit /\ [][MailNext]_mailAll

\* Receiving and replying keep their types.
MailTypeOK == TypeOK /\ ReplyTypeOK
=============================================================================
