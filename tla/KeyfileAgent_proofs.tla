------------------------- MODULE KeyfileAgent_proofs -------------------------
(***************************************************************************)
(* What the dracut keyfile agent guarantees for every set of volumes,      *)
(* prompts, keys and media.                                                *)
(***************************************************************************)
EXTENDS KeyfileAgent, TLAPS

\* While the agent is inside handle_ask for cur, cur is a LUKS prompt that
\* was raised and that it has not answered; the key it is about to send
\* passed the test for that prompt's volume.
HandlingInv ==
    /\ pc \in {"key", "reply"} =>
          /\ cur \in Asks
          /\ Cryptsetup(cur)
          /\ ask[cur] # "new"
          /\ sent[cur] = 0
          /\ seen
    /\ pc = "reply" => i \in 1 .. Len(cands) /\ Fits(cands[i], cur)

\* A prompt that is still shown and was answered has its done file.
DoneInv ==
    \A a \in Asks : sent[a] # 0 =>
        ask[a] # "new" /\ (ask[a] = "open" => a \in done)

\* A key that failed a test for a prompt is in its tried file for as long as
\* the agent can come back to that prompt.
WastedInv ==
    \A a \in Asks, k \in Keys :
        /\ wasted[a][k] <= 1
        /\ wasted[a][k] = 1 =>
              /\ ask[a] # "new"
              /\ \/ k \in tried[a]
                 \/ ask[a] = "closed" /\ ~(pc \in {"key", "reply"} /\ cur = a)

\* A prompt shown since the start of a round is met before the round ends,
\* so the idle count never runs ahead of the rounds nobody asked in.
IdleInv ==
    /\ idle <= quiet
    /\ (pc \notin {"scan", "exit", "killed"} /\ ~seen) =>
          \A a \in atStart :
              ask[a] = "open" => pc \in {"boot", "usb"} \/ a \in left
    /\ \A a \in atStart : a \in Asks /\ Cryptsetup(a) /\ ask[a] # "new"

AgentInv == TypeOK /\ NoTryBurned /\ HandlingInv /\ DoneInv /\ WastedInv /\ IdleInv

-----------------------------------------------------------------------------
(* Types. *)

LEMMA CandTyped ==
    ASSUME TypeOK, NEW s \in Sources
    PROVE  KeysAt(s) \in Seq(Keys)
BY DEF TypeOK, KeysAt

LEMMA NoCands == <<>> \in Seq(Keys)
OBVIOUS

LEMMA TypeInit == Init => TypeOK
<1> SUFFICES ASSUME Init PROVE TypeOK
    OBVIOUS
<1>1. AskTypeOK
    BY DEF Init, AskInit, AskTypeOK
<1>2. media \in [Sources -> {Absent} \cup Seq(Keys)]
    <2>1. PICK b \in Media["boot"], u \in Media["usb"] :
              media = [s \in Sources |-> IF s = "boot" THEN b ELSE u]
        BY DEF Init
    <2>2. b \in {Absent} \cup Seq(Keys) /\ u \in {Absent} \cup Seq(Keys)
        BY AgentAssumption DEF Sources
    <2> QED
        BY <2>1, <2>2
<1>3. /\ swaps \in 0 .. MaxSwaps /\ idle \in 0 .. IdleRounds
      /\ quiet \in 0 .. IdleRounds /\ i \in Nat \ {0}
    BY AgentAssumption DEF Init
<1>4. /\ pc \in {"scan", "boot", "usb", "next", "key", "reply", "exit", "killed"}
      /\ seen \in BOOLEAN /\ seenEver \in BOOLEAN /\ late \in BOOLEAN
      /\ cands \in Seq(Keys)
    BY NoCands DEF Init
<1>5. /\ usable \subseteq Devs /\ left \subseteq Asks /\ done \subseteq Asks
      /\ atStart \subseteq Asks /\ cur \in Asks \cup {NoAnswer}
    BY DEF Init
<1>6. /\ tried \in [Asks -> SUBSET Keys]
      /\ wasted \in [Asks -> [Keys -> Nat]]
    BY DEF Init
<1> QED
    BY <1>1, <1>2, <1>3, <1>4, <1>5, <1>6 DEF TypeOK

\* The prompts and the other answerers keep the types of their variables.
LEMMA PromptTypes ==
    ASSUME AskTypeOK, PromptNext
    PROVE  AskTypeOK'
<1>1. PICK a \in Asks : \/ PromptOpen(a) \/ PromptTake(a) \/ PromptExpire(a)
                        \/ PromptTimeout(a)
                        \/ \E k \in Keys : OtherAnswer(a, k)
    BY DEF PromptNext
<1>2. CASE PromptOpen(a)
    BY <1>2 DEF PromptOpen, AskTypeOK
<1>3. CASE PromptTake(a)
    BY <1>3 DEF PromptTake, AskTypeOK, Cryptsetup
<1>4. CASE PromptExpire(a)
    BY <1>4 DEF PromptExpire, AskTypeOK
<1>5. CASE PromptTimeout(a)
    BY <1>5 DEF PromptTimeout, AskTypeOK, Cryptsetup
<1>6. CASE \E k \in Keys : OtherAnswer(a, k)
    BY <1>6 DEF OtherAnswer, AskTypeOK, Answer
<1> QED
    BY <1>1, <1>2, <1>3, <1>4, <1>5, <1>6

LEMMA DeliverTypes ==
    ASSUME AskTypeOK, NEW a \in Asks, NEW k \in Keys, Deliver(a, k),
           UNCHANGED <<ask, expired, vol>>
    PROVE  AskTypeOK'
BY DEF AskTypeOK, Deliver, Answer

LEMMA TypeStep == TypeOK /\ HandlingInv /\ [Next]_vars => TypeOK'
<1> SUFFICES ASSUME TypeOK, HandlingInv, [Next]_vars PROVE TypeOK'
    OBVIOUS
<1> USE DEF TypeOK
<1>1. CASE Scan
    BY <1>1, NoCands DEF Scan, askVars, AskTypeOK, mediaVars, stateVars, idleVars, CryptPrompts, Waiting
<1>2. CASE GatherBoot
    BY <1>2, CandTyped DEF GatherBoot, Fetch, Sources, askVars, AskTypeOK, mediaVars, stateVars, idleVars, history
<1>3. CASE GatherUsb
    BY <1>3, CandTyped DEF GatherUsb, Fetch, Sources, Waiting, askVars, AskTypeOK, mediaVars, stateVars, idleVars, history
<1>4. ASSUME NEW a \in Asks, HandleAsk(a) PROVE TypeOK'
    <2>1. AskTypeOK'
        BY <1>4 DEF HandleAsk, askVars, AskTypeOK
    <2>2. /\ left' \subseteq Asks
          /\ cur' \in Asks \cup {NoAnswer}
          /\ i' \in Nat \ {0}
        BY <1>4 DEF HandleAsk, FirstKey
    <2>3. /\ seen' \in BOOLEAN
          /\ pc' \in {"scan", "boot", "usb", "next", "key", "reply", "exit", "killed"}
        BY <1>4 DEF HandleAsk
    <2> QED
        BY <1>4, <2>1, <2>2, <2>3
        DEF HandleAsk, mediaVars, stateVars, idleVars, history
<1>5. CASE TestKey
    <2>1. AskTypeOK'
        BY <1>5 DEF TestKey, askVars, AskTypeOK
    <2>2. cur \in Asks /\ cands[i] \in Keys
        BY <1>5 DEF TestKey, HandlingInv
    <2>3. tried' \in [Asks -> SUBSET Keys]
        <3>1. CASE tried' = tried
            BY <3>1
        <3>2. CASE tried' = [tried EXCEPT ![cur] = @ \cup {cands[i]}]
            BY <2>2, <3>2
        <3> QED
            BY <1>5, <3>1, <3>2 DEF TestKey
    <2>4. wasted' \in [Asks -> [Keys -> Nat]]
        <3>1. CASE wasted' = wasted
            BY <3>1
        <3>2. CASE wasted' = [wasted EXCEPT ![cur][cands[i]] = @ + 1]
            <4>1. wasted[cur] \in [Keys -> Nat]
                BY <2>2
            <4>2. [wasted[cur] EXCEPT ![cands[i]] = @ + 1] \in [Keys -> Nat]
                BY <2>2, <4>1
            <4> QED
                BY <2>2, <3>2, <4>2
        <3> QED
            BY <1>5, <3>1, <3>2 DEF TestKey
    <2>5. /\ i' \in Nat \ {0}
          /\ pc' \in {"scan", "boot", "usb", "next", "key", "reply", "exit", "killed"}
        BY <1>5 DEF TestKey
    <2> QED
        BY <1>5, <2>1, <2>3, <2>4, <2>5 DEF TestKey, mediaVars, idleVars
<1>6. CASE KeysExhausted
    BY <1>6 DEF KeysExhausted, askVars, AskTypeOK, mediaVars, stateVars, idleVars, history
<1>7. CASE Reply
    <2>1. AskTypeOK'
        <3>1. CASE ask[cur] = "open"
            <4>1. cur \in Asks /\ cands[i] \in Keys
                BY <1>7 DEF Reply, HandlingInv
            <4> QED
                BY <1>7, <3>1, <4>1, DeliverTypes DEF Reply
        <3>2. CASE ask[cur] # "open"
            BY <1>7, <3>2 DEF Reply, AskTypeOK
        <3> QED
            BY <3>1, <3>2
    <2> QED
        BY <1>7, <2>1 DEF Reply, HandlingInv, mediaVars, idleVars, history
<1>8. CASE EndRound
    <2>1. AskTypeOK'
        BY <1>8 DEF EndRound, askVars, AskTypeOK
    <2>2. done' \subseteq Asks /\ tried' \in [Asks -> SUBSET Keys]
        BY <1>8 DEF EndRound
    <2>3. seenEver' \in BOOLEAN /\ idle' \in 0 .. IdleRounds
        <3>1. CASE seen
            BY <1>8, <3>1, AgentAssumption DEF EndRound, CountIdle
        <3>2. CASE ~seen
            BY <1>8, <3>2, AgentAssumption DEF EndRound, CountIdle
        <3> QED
            BY <3>1, <3>2
    <2>4. quiet' \in 0 .. IdleRounds
        BY <1>8, AgentAssumption DEF EndRound
    <2>5. /\ pc' \in {"scan", "boot", "usb", "next", "key", "reply", "exit", "killed"}
          /\ cands' \in Seq(Keys)
        BY <1>8, NoCands DEF EndRound
    <2> QED
        BY <1>8, <2>1, <2>2, <2>3, <2>4, <2>5 DEF EndRound, mediaVars
<1>9. CASE Killed
    BY <1>9 DEF Killed, askVars, AskTypeOK, mediaVars, roundVars, stateVars, idleVars, history
<1>10. CASE Prompts
    <2>1. AskTypeOK'
        BY <1>10, PromptTypes DEF Prompts
    <2> QED
        BY <1>10, <2>1 DEF Prompts, mediaVars, agentVars, roundVars, stateVars, idleVars, history
<1>11. ASSUME NEW s \in Sources, Swap(s) PROVE TypeOK'
    <2>1. media' \in [Sources -> {Absent} \cup Seq(Keys)]
        BY <1>11, AgentAssumption DEF Swap
    <2> QED
        BY <1>11, <2>1, AgentAssumption DEF Swap, askVars, AskTypeOK, agentVars, roundVars, stateVars, idleVars, history
<1>12. ASSUME NEW d \in Devs, BecomeUsable(d) PROVE TypeOK'
    BY <1>12 DEF BecomeUsable, askVars, AskTypeOK, agentVars, roundVars, stateVars, idleVars, history
<1>13. CASE TimeUp
    BY <1>13 DEF TimeUp, askVars, AskTypeOK, agentVars, roundVars, stateVars, idleVars, history
<1>14. CASE UNCHANGED vars
    BY <1>14 DEF vars, askVars, AskTypeOK, mediaVars, agentVars, roundVars, stateVars, idleVars, history
<1> QED
    BY <1>1, <1>2, <1>3, <1>4, <1>5, <1>6, <1>7, <1>8, <1>9, <1>10, <1>11,
       <1>12, <1>13, <1>14 DEF Next, AgentStep

-----------------------------------------------------------------------------
(* The parts of the inductive invariant, each shown to survive a step. *)

LEMMA InvInit == Init => AgentInv
<1> SUFFICES ASSUME Init PROVE AgentInv
    OBVIOUS
<1>1. TypeOK
    BY TypeInit
<1>2. NoTryBurned /\ HandlingInv /\ DoneInv
    BY DEF Init, AskInit, NoTryBurned, HandlingInv, DoneInv
<1>3. WastedInv
    BY DEF Init, WastedInv
<1>4. IdleInv
    BY DEF Init, IdleInv
<1> QED
    BY <1>1, <1>2, <1>3, <1>4 DEF AgentInv

\* No prompt comes back once it is gone, and none is raised twice.
LEMMA PromptMonotone ==
    ASSUME AskTypeOK, PromptNext, NEW a \in Asks
    PROVE  /\ ask[a] # "new" => ask'[a] # "new"
           /\ ask[a] = "closed" => ask'[a] = "closed"
           /\ ask'[a] = "open" => ask[a] \in {"new", "open"}
           /\ sent' = sent
BY DEF PromptNext, PromptOpen, PromptTake, PromptExpire, PromptTimeout,
       OtherAnswer, AskTypeOK

LEMMA NoTryBurnedStep == AgentInv /\ [Next]_vars => NoTryBurned'
<1> SUFFICES ASSUME AgentInv, [Next]_vars PROVE NoTryBurned'
    OBVIOUS
<1> USE DEF AgentInv
<1>1. CASE UNCHANGED box
    BY <1>1 DEF NoTryBurned, Cryptsetup, Fits
<1>2. CASE Reply
    <2>1. CASE ask[cur] = "open"
        <3>1. /\ cur \in Asks /\ Cryptsetup(cur) /\ Fits(cands[i], cur)
              /\ box' = [box EXCEPT ![cur] =
                           IF @ = NoAnswer
                           THEN [by |-> "agent", key |-> cands[i]] ELSE @]
            BY <1>2, <2>1 DEF Reply, Deliver, HandlingInv
        <3>2. ASSUME NEW a \in Asks, box'[a] # NoAnswer, box'[a].by = "agent"
              PROVE  Cryptsetup(a) /\ Fits(box'[a].key, a)
            <4>1. CASE box'[a] = box[a]
                BY <3>2, <4>1 DEF NoTryBurned
            <4>2. CASE box'[a] # box[a]
                <5>1. a = cur /\ box'[a] = [by |-> "agent", key |-> cands[i]]
                    BY <3>1, <4>2 DEF TypeOK, AskTypeOK
                <5> QED
                    BY <3>1, <5>1
            <4> QED
                BY <4>1, <4>2
        <3> QED
            BY <3>2 DEF NoTryBurned, Cryptsetup, Fits
    <2>2. CASE ask[cur] # "open"
        BY <1>1, <1>2, <2>2 DEF Reply
    <2> QED
        BY <2>1, <2>2
<1>3. CASE Prompts
    <2>1. ASSUME NEW a \in Asks, NEW k \in Keys, OtherAnswer(a, k)
          PROVE  NoTryBurned'
        BY <2>1 DEF OtherAnswer, NoTryBurned, Cryptsetup, Fits, TypeOK, AskTypeOK
    <2> QED
        BY <1>1, <1>3, <2>1
        DEF Prompts, PromptNext, PromptOpen, PromptTake, PromptExpire, PromptTimeout
<1> QED
    BY <1>1, <1>2, <1>3 DEF Next, AgentStep, vars, askVars, Scan, GatherBoot,
       GatherUsb, HandleAsk, TestKey, KeysExhausted, EndRound, Killed, Swap,
       BecomeUsable, TimeUp

LEMMA HandlingStep == AgentInv /\ [Next]_vars => HandlingInv'
<1> SUFFICES ASSUME AgentInv, [Next]_vars PROVE HandlingInv'
    OBVIOUS
<1> USE DEF AgentInv
<1>1. CASE UNCHANGED <<askVars, pc, cur, i, cands, seen>>
    BY <1>1 DEF HandlingInv, askVars, Cryptsetup, Fits
<1>2. ASSUME NEW a \in Asks, HandleAsk(a) PROVE HandlingInv'
    <2>1. CASE a \in CryptPrompts /\ ~Skip(a)
        BY <1>2, <2>1 DEF HandleAsk, HandlingInv, CryptPrompts, Waiting,
           Skip, DoneInv, askVars, Cryptsetup, TypeOK
    <2>2. CASE ~(a \in CryptPrompts /\ ~Skip(a))
        BY <1>2, <2>2 DEF HandleAsk, HandlingInv
    <2> QED
        BY <2>1, <2>2
<1>3. CASE TestKey
    <2>1. pc = "key" /\ i \in 1 .. Len(cands)
        BY <1>3 DEF TestKey, TypeOK
    <2> QED
        BY <1>3, <2>1 DEF TestKey, HandlingInv, Accepted, askVars, Cryptsetup, Fits
<1>4. CASE Reply
    BY <1>4 DEF Reply, HandlingInv, Cryptsetup
<1>5. CASE Prompts
    BY <1>5, PromptMonotone DEF Prompts, HandlingInv, TypeOK, agentVars,
       roundVars, Cryptsetup, Fits
<1>6. CASE pc' \notin {"key", "reply"}
    BY <1>6 DEF HandlingInv
<1>7. CASE UNCHANGED <<askVars, agentVars>>
    BY <1>1, <1>7 DEF agentVars, roundVars
<1> QED
    BY <1>2, <1>3, <1>4, <1>5, <1>6, <1>7 DEF Next, AgentStep, vars, Scan,
       GatherBoot, GatherUsb, KeysExhausted, EndRound, Killed, Swap, BecomeUsable, TimeUp

LEMMA DoneStep == AgentInv /\ [Next]_vars => DoneInv'
<1> SUFFICES ASSUME AgentInv, [Next]_vars PROVE DoneInv'
    OBVIOUS
<1> USE DEF AgentInv
<1>1. CASE UNCHANGED <<askVars, done>>
    BY <1>1 DEF DoneInv, askVars
<1>2. CASE Reply
    <2>1. CASE ask[cur] = "open"
        <3>1. /\ cur \in Asks /\ ask' = ask /\ done' = done \cup {cur}
              /\ \A a \in Asks : a # cur => sent'[a] = sent[a]
            BY <1>2, <2>1 DEF Reply, Deliver, HandlingInv, TypeOK, AskTypeOK
        <3> QED
            BY <2>1, <3>1 DEF DoneInv
    <2>2. CASE ask[cur] # "open"
        BY <1>1, <1>2, <2>2 DEF Reply, DoneInv
    <2> QED
        BY <2>1, <2>2
<1>3. CASE EndRound
    BY <1>3 DEF EndRound, Remembered, Waiting, DoneInv, askVars
<1>4. CASE Prompts
    BY <1>4, PromptMonotone DEF Prompts, DoneInv, TypeOK, agentVars, stateVars
<1> QED
    BY <1>1, <1>2, <1>3, <1>4 DEF Next, AgentStep, vars, agentVars, stateVars,
       Scan, GatherBoot, GatherUsb, HandleAsk, TestKey, KeysExhausted, Killed,
       Swap, BecomeUsable, TimeUp

LEMMA WastedStep == AgentInv /\ [Next]_vars => WastedInv'
<1> SUFFICES ASSUME AgentInv, [Next]_vars PROVE WastedInv'
    OBVIOUS
<1> USE DEF AgentInv
<1>1. CASE UNCHANGED <<ask, tried, wasted, pc, cur>>
    BY <1>1 DEF WastedInv
<1>2. CASE /\ UNCHANGED <<ask, tried, wasted>>
           /\ pc' \in {"key", "reply"} => pc \in {"key", "reply"} /\ cur' = cur
    BY <1>2 DEF WastedInv
<1>3. ASSUME NEW a \in Asks, HandleAsk(a) PROVE WastedInv'
    BY <1>3, <1>2 DEF HandleAsk, CryptPrompts, Waiting, askVars, stateVars,
       history, WastedInv
<1>4. CASE TestKey
    <2>1. /\ cur \in Asks /\ cands[i] \in Keys /\ ask[cur] # "new"
          /\ pc = "key" /\ ask' = ask
        BY <1>4 DEF TestKey, HandlingInv, TypeOK, askVars
    <2>2. CASE UNCHANGED <<tried, wasted>>
        BY <1>2, <1>4, <2>2, <2>1 DEF TestKey
    <2>3. CASE /\ cands[i] \notin tried[cur]
               /\ tried' = [tried EXCEPT ![cur] = @ \cup {cands[i]}]
               /\ wasted' = [wasted EXCEPT ![cur][cands[i]] = @ + 1]
               /\ pc' = "key"
        <3>1. cur' = cur
            BY <1>4 DEF TestKey
        <3>2. ASSUME NEW a \in Asks, NEW k \in Keys
              PROVE  /\ wasted'[a][k] <= 1
                     /\ wasted'[a][k] = 1 =>
                           /\ ask'[a] # "new"
                           /\ \/ k \in tried'[a]
                              \/ ask'[a] = "closed" /\ ~(pc' \in {"key", "reply"} /\ cur' = a)
            <4>1. CASE a = cur /\ k = cands[i]
                <5>1. wasted[a][k] \in Nat /\ wasted[a][k] <= 1 /\ wasted[a][k] # 1
                    BY <2>1, <2>3, <4>1 DEF WastedInv, TypeOK
                <5>2. wasted'[a][k] = wasted[a][k] + 1 /\ k \in tried'[a]
                    BY <2>1, <2>3, <4>1 DEF TypeOK
                <5> QED
                    BY <2>1, <4>1, <5>1, <5>2
            <4>2. CASE ~(a = cur /\ k = cands[i])
                <5>1. wasted'[a][k] = wasted[a][k] /\ tried[a] \subseteq tried'[a]
                    BY <2>1, <2>3, <4>2 DEF TypeOK
                <5> QED
                    BY <2>1, <2>3, <3>1, <5>1 DEF WastedInv
            <4> QED
                BY <4>1, <4>2
        <3> QED
            BY <3>2 DEF WastedInv
    <2> QED
        BY <1>4, <2>1, <2>2, <2>3 DEF TestKey
<1>5. CASE Reply
    BY <1>2, <1>5 DEF Reply, history
<1>6. CASE EndRound
    <2>1. /\ pc = "next" /\ pc' \in {"scan", "exit"} /\ ask' = ask /\ wasted' = wasted
          /\ \A a \in Asks : ask[a] = "open" => tried'[a] = tried[a]
        BY <1>6 DEF EndRound, Remembered, Waiting, askVars
    <2> QED
        BY <2>1 DEF WastedInv, TypeOK, AskTypeOK
<1>7. CASE Prompts
    <2>1. UNCHANGED <<tried, wasted, pc, cur>>
        BY <1>7 DEF Prompts, agentVars, roundVars, stateVars, history
    <2>2. ASSUME NEW a \in Asks
          PROVE  /\ ask[a] # "new" => ask'[a] # "new"
                 /\ ask[a] = "closed" => ask'[a] = "closed"
        BY <1>7, PromptMonotone DEF Prompts, TypeOK
    <2> QED
        BY <2>1, <2>2 DEF WastedInv
<1> QED
    BY <1>1, <1>2, <1>3, <1>4, <1>5, <1>6, <1>7 DEF Next, AgentStep, vars,
       askVars, agentVars, roundVars, stateVars, history, Scan, GatherBoot,
       GatherUsb, KeysExhausted, Killed, Swap, BecomeUsable, TimeUp

LEMMA IdleStep == AgentInv /\ [Next]_vars => IdleInv'
<1> SUFFICES ASSUME AgentInv, [Next]_vars PROVE IdleInv'
    OBVIOUS
<1> USE DEF AgentInv
<1>1. CASE UNCHANGED <<ask, idle, quiet, atStart, seen, left, pc>>
    BY <1>1 DEF IdleInv, Cryptsetup
<1>2. CASE Scan
    BY <1>2 DEF Scan, IdleInv, CryptPrompts, Waiting, idleVars, askVars, Cryptsetup
<1>3. CASE GatherBoot
    BY <1>3 DEF GatherBoot, IdleInv, idleVars, history, askVars, Cryptsetup
<1>4. CASE GatherUsb
    BY <1>4 DEF GatherUsb, IdleInv, idleVars, history, askVars, Waiting, Cryptsetup
<1>5. ASSUME NEW a \in Asks, HandleAsk(a) PROVE IdleInv'
    <2>1. CASE a \in CryptPrompts
        BY <1>5, <2>1 DEF HandleAsk, IdleInv, idleVars, history, askVars, Cryptsetup
    <2>2. CASE a \notin CryptPrompts
        BY <1>5, <2>2 DEF HandleAsk, IdleInv, idleVars, history, askVars,
           CryptPrompts, Waiting, Cryptsetup
    <2> QED
        BY <2>1, <2>2
<1>6. CASE TestKey \/ KeysExhausted \/ Reply
    <2>1. /\ seen /\ seen' = seen
          /\ UNCHANGED <<ask, idle, quiet, atStart>>
        BY <1>6 DEF TestKey, KeysExhausted, Reply, HandlingInv, askVars, idleVars, history
    <2> QED
        BY <2>1 DEF IdleInv, Cryptsetup
<1>7. CASE EndRound
    <2>1. ask' = ask /\ atStart' = atStart /\ pc' \in {"scan", "exit"}
        BY <1>7 DEF EndRound, askVars
    <2>2. idle' <= quiet'
        <3>1. CASE seen
            BY <1>7, <3>1, AgentAssumption DEF EndRound, CountIdle, TypeOK
        <3>2. CASE ~seen
            <4>1. atStart \cap CryptPrompts = {}
                BY <1>7, <3>2 DEF EndRound, IdleInv, CryptPrompts, Waiting
            <4>2. quiet' = IF quiet < IdleRounds THEN quiet + 1 ELSE quiet
                BY <1>7, <4>1 DEF EndRound
            <4>3. idle' = IF seenEver /\ idle < IdleRounds THEN idle + 1 ELSE idle
                BY <1>7, <3>2 DEF EndRound, CountIdle
            <4> QED
                BY <4>2, <4>3, AgentAssumption DEF IdleInv, TypeOK
        <3> QED
            BY <3>1, <3>2
    <2> QED
        BY <2>1, <2>2 DEF IdleInv, Cryptsetup
<1>8. CASE Killed
    BY <1>8 DEF Killed, IdleInv, askVars, idleVars, history, Cryptsetup
<1>9. CASE Prompts
    <2>1. UNCHANGED <<idle, quiet, atStart, seen, left, pc>>
        BY <1>9 DEF Prompts, agentVars, roundVars, idleVars, history
    <2>2. ASSUME NEW a \in atStart
          PROVE  ask'[a] # "new" /\ (ask'[a] = "open" => ask[a] = "open")
        BY <1>9, PromptMonotone DEF Prompts, IdleInv, TypeOK
    <2> QED
        BY <2>1, <2>2 DEF IdleInv, Cryptsetup
<1> QED
    BY <1>1, <1>2, <1>3, <1>4, <1>5, <1>6, <1>7, <1>8, <1>9 DEF Next, AgentStep,
       vars, askVars, agentVars, roundVars, idleVars, history, Swap, BecomeUsable, TimeUp

LEMMA InvStep == AgentInv /\ [Next]_vars => AgentInv'
BY TypeStep, NoTryBurnedStep, HandlingStep, DoneStep, WastedStep, IdleStep
DEF AgentInv

\* The invariant that the other theorems follow from: which prompt is handled with
\* which key, what the done and tried files stand for, and what the idle count says.
THEOREM AgentInvariant == Spec => []AgentInv
BY InvInit, InvStep, PTL DEF Spec

\* The agent's own counters, its keyfiles and the prompts keep their types.
THEOREM AgentTyped == Spec => []TypeOK
<1>1. AgentInv => TypeOK
    BY DEF AgentInv
<1> QED BY <1>1, AgentInvariant, PTL

-----------------------------------------------------------------------------
(* The results. *)

\* A key the agent sends opens the volume whose prompt it answers, whatever
\* happened to sticks and prompts since the key was tested.
THEOREM NoTryIsBurned == Spec => []NoTryBurned
<1>1. AgentInv => NoTryBurned
    BY DEF AgentInv
<1> QED
    BY <1>1, AgentInvariant, PTL

\* A rejected key costs one memory-hard test per prompt.
THEOREM RejectedOnce == Spec => []RejectedKeyTestedOnce
<1>1. AgentInv => RejectedKeyTestedOnce
    BY DEF AgentInv, WastedInv, RejectedKeyTestedOnce
<1> QED
    BY <1>1, AgentInvariant, PTL

\* The agent implements the contract of AskPassword: every step of it is a
\* single correct answer to a waiting prompt, or invisible to the prompts.
THEOREM AgentRefinesContract == Spec => Contract
<1>1. Init => AskInit
    BY DEF Init
<1>2. AgentInv /\ [Next]_vars => [AskNext]_askVars
    <2> SUFFICES ASSUME AgentInv, [Next]_vars PROVE [AskNext]_askVars
        OBVIOUS
    <2>1. CASE Reply
        <3>1. CASE ask[cur] = "open"
            <4>1. cur \in Asks /\ cands[i] \in Keys
                BY <2>1 DEF Reply, AgentInv, HandlingInv, TypeOK
            <4>2. AgentAnswer(cur, cands[i])
                BY <2>1, <3>1 DEF Reply, AgentInv, HandlingInv, AgentAnswer
            <4> QED
                BY <4>1, <4>2 DEF AskNext
        <3>2. CASE ask[cur] # "open"
            BY <2>1, <3>2 DEF Reply, askVars
        <3> QED
            BY <3>1, <3>2
    <2>2. CASE Prompts
        BY <2>2 DEF Prompts, AskNext
    <2>3. CASE UNCHANGED askVars
        BY <2>3
    <2> QED
        BY <2>1, <2>2, <2>3 DEF Next, AgentStep, vars, Scan, GatherBoot,
           GatherUsb, HandleAsk, TestKey, KeysExhausted, EndRound, Killed,
           Swap, BecomeUsable, TimeUp
<1> QED
    BY <1>1, <1>2, AgentInvariant, PTL DEF Spec, Contract

\* The agent does not leave as idle while a LUKS prompt lived through one of
\* the rounds it counted.
THEOREM NoEarlyExit == Spec => NoEarlyIdleExit
<1>1. AgentInv /\ AgentInv' /\ [Next]_vars =>
        [pc # "exit" /\ pc' = "exit" /\ ~late
          => IdleRounds > 0 /\ quiet' >= IdleRounds]_vars
    <2> SUFFICES ASSUME AgentInv, AgentInv', [Next]_vars,
                        pc # "exit", pc' = "exit", ~late
                 PROVE  IdleRounds > 0 /\ quiet' >= IdleRounds
        BY DEF vars
    <2>1. CASE EndRound
        BY <2>1, AgentAssumption DEF EndRound, AgentInv, IdleInv, TypeOK
    <2>2. ~Killed
        BY DEF Killed
    <2> QED
        BY <2>1, <2>2 DEF Next, AgentStep, vars, agentVars, Prompts, Scan,
           GatherBoot, GatherUsb, HandleAsk, TestKey, KeysExhausted, Reply,
           Swap, BecomeUsable, TimeUp
<1> QED
    BY <1>1, AgentInvariant, PTL DEF Spec, NoEarlyIdleExit
=============================================================================
