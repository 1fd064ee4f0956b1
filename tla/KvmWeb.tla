------------------------------- MODULE KvmWeb -------------------------------
(***************************************************************************)
(* The web front ends of the KVM switch (dgxarley/tools/kceve_kvm_web.py   *)
(* and kceve_kvm_web_plain.py) with the serial helpers they share          *)
(* (dgxarley/tools/kceve_kvm.py): one serial line under a lock, a monitor  *)
(* thread that learns the active port from the heartbeat of the device,    *)
(* and request handlers that switch it.                                    *)
(***************************************************************************)
EXTENDS Naturals, Sequences

CONSTANTS
    Ports, NoPort,
    Foreign,    \* an IR code that stands for no port
    Handlers,   \* handler threads; the plain server has one
    WireMax,    \* bound: codes waiting on the line
    BufMax,     \* codes in the monitor's buffer beyond which it is cut (4096 bytes)
    BufKeep,    \* codes that remain then (1024 bytes)
    MaxEvents   \* bound: switches, buttons pressed on the device, foreign codes

ASSUME KvmAssumption ==
    /\ NoPort \notin Ports \cup Handlers /\ Foreign \notin Ports \cup {NoPort} /\ 1 \in Ports
    /\ WireMax \in Nat \ {0}
    /\ BufKeep \in Nat \ {0} /\ BufMax \in Nat /\ BufKeep <= BufMax

VARIABLES
    mode,       \* the server: "detect", "probe", "serving", "aborted"
    routed,     \* the device: the port it shows
    beating,    \* the device: its heartbeat names the port
    wire,       \* codes the line holds, oldest first
    active,     \* _active_port
    buf, chunk, \* the monitor's buffer, and what it has read from the line
    mon,        \* the monitor: "check", "read", "parse"
    reset,      \* _monitor_reset
    holder,     \* the handler that holds the lock
    hand,       \* the handlers
    events

deviceVars == <<routed, beating, wire>>
monVars == <<buf, chunk, mon>>
kvmVars == <<mode, deviceVars, active, monVars, reset, holder, hand, events>>

Idle == [pc |-> "idle", port |-> NoPort, new |-> NoPort]

KvmInit ==
    /\ mode = "detect"
    /\ routed \in Ports /\ beating \in BOOLEAN
    /\ wire = <<>> /\ buf = <<>> /\ chunk = <<>>
    /\ active = NoPort /\ mon = "check" /\ reset = FALSE
    /\ holder = NoPort /\ hand = [h \in Handlers |-> Idle]
    /\ events = 0

Event == events < MaxEvents /\ events' = events + 1

\* parse_ir_port: the first code that is not one of the constant ones decides,
\* also when it stands for no port.
Parsed(codes) == IF codes = <<>> \/ codes[1] = Foreign THEN NoPort ELSE codes[1]

----------------------------------------------------------------------------
(* The device *)

Beat == /\ beating /\ Len(wire) < WireMax
        /\ wire' = Append(wire, routed)
        /\ UNCHANGED <<mode, routed, beating, active, monVars, reset, holder, hand, events>>

Remote == /\ Event /\ mode = "serving" /\ Len(wire) < WireMax
          /\ wire' = Append(wire, Foreign)
          /\ UNCHANGED <<mode, routed, beating, active, monVars, reset, holder, hand>>

Press(p) == /\ Event /\ mode = "serving"
            /\ routed' = p
            /\ UNCHANGED <<mode, beating, wire, active, monVars, reset, holder, hand>>

\* send_and_read of X<p>,1$: the line is flushed, the device switches and
\* answers with the port it leaves and the new one, or not at all.
SwitchTo(p) == routed' = p /\ beating' = TRUE
Answers(p) == {<<routed, p>>, <<NoPort, NoPort>>, <<routed, NoPort>>}

----------------------------------------------------------------------------
(* Starting up: detect_port *)

\* listen_heartbeat_port
Listen == /\ mode = "detect"
          /\ Parsed(wire) # NoPort
          /\ active' = Parsed(wire) /\ mode' = "serving" /\ wire' = <<>>
          /\ UNCHANGED <<routed, beating, monVars, reset, holder, hand, events>>

\* probe_switch_port: to port 1, to learn the port it was on, and back.
Probe == /\ mode = "detect" /\ ~beating
         /\ wire' = <<>>
         /\ SwitchTo(1)
         /\ \E a \in Answers(1) :
                \/ a[1] = NoPort /\ mode' = "aborted" /\ UNCHANGED active
                \/ a[1] = 1 /\ mode' = "serving" /\ active' = 1
                \/ a[1] \notin {1, NoPort} /\ mode' = "probe" /\ active' = a[1]
         /\ UNCHANGED <<monVars, reset, holder, hand, events>>

ProbeBack == /\ mode = "probe"
             /\ SwitchTo(active) /\ wire' = <<>>
             /\ mode' = "serving"
             /\ UNCHANGED <<active, monVars, reset, holder, hand, events>>

----------------------------------------------------------------------------
(* The monitor thread: _heartbeat_monitor *)

MonitorCheck == /\ mode = "serving" /\ mon = "check"
                /\ mon' = "read"
                /\ reset' = FALSE
                /\ buf' = IF reset THEN <<>> ELSE buf
                /\ UNCHANGED <<mode, deviceVars, active, chunk, holder, hand, events>>

\* Under the lock; without data it sleeps and starts over.
MonitorRead == /\ mon = "read" /\ holder = NoPort
               /\ chunk' = wire /\ wire' = <<>>
               /\ mon' = IF wire = <<>> THEN "check" ELSE "parse"
               /\ UNCHANGED <<mode, routed, beating, active, buf, reset, holder, hand, events>>

\* Mutants: the buffer grows; the wrong end of it is kept.
Cut_Never(codes) == codes
Cut_Oldest(codes) == IF Len(codes) > BufMax THEN SubSeq(codes, 1, BufKeep) ELSE codes
Cut(codes) == IF Len(codes) > BufMax THEN SubSeq(codes, Len(codes) - BufKeep + 1, Len(codes)) ELSE codes

MonitorParse == LET all == buf \o chunk IN
    /\ mon = "parse"
    /\ mon' = "check" /\ chunk' = <<>>
    /\ IF Parsed(all) # NoPort THEN active' = Parsed(all) /\ buf' = <<>>
                               ELSE UNCHANGED active /\ buf' = Cut(all)
    /\ UNCHANGED <<mode, deviceVars, reset, holder, hand, events>>

----------------------------------------------------------------------------
(* A request handler: api_switch, do_POST *)

SwitchRequest(h, p) == /\ Event /\ mode = "serving" /\ hand[h].pc = "idle"
                       /\ hand' = [hand EXCEPT ![h] = [pc |-> "lock", port |-> p, new |-> NoPort]]
                       /\ UNCHANGED <<mode, deviceVars, active, monVars, reset, holder>>

TakeLine(h) == /\ hand[h].pc = "lock" /\ holder = NoPort
               /\ holder' = h
               /\ wire' = <<>>
               /\ hand' = [hand EXCEPT ![h].pc = "command"]
               /\ UNCHANGED <<mode, routed, beating, active, monVars, reset, events>>

\* The command, the answer, the flush of late heartbeats, the release.
Command(h) == /\ hand[h].pc = "command"
              /\ SwitchTo(hand[h].port) /\ wire' = <<>>
              /\ holder' = NoPort
              /\ \E a \in Answers(hand[h].port) :
                     hand' = [hand EXCEPT ![h].pc = "signal", ![h].new = a[2]]
              /\ UNCHANGED <<mode, active, monVars, reset, events>>

Signal(h) == /\ hand[h].pc = "signal"
             /\ reset' = TRUE
             /\ hand' = [hand EXCEPT ![h].pc = "publish"]
             /\ UNCHANGED <<mode, deviceVars, active, monVars, holder, events>>

PublishPort(h) == /\ hand[h].pc = "publish"
                  /\ active' = IF hand[h].new # NoPort THEN hand[h].new ELSE hand[h].port
                  /\ hand' = [hand EXCEPT ![h] = Idle]
                  /\ UNCHANGED <<mode, deviceVars, monVars, reset, holder, events>>

HandlerStep(h) == TakeLine(h) \/ Command(h) \/ Signal(h) \/ PublishPort(h)
MonitorStep == MonitorCheck \/ MonitorRead \/ MonitorParse
StartStep == Listen \/ Probe \/ ProbeBack

KvmNext == \/ Beat \/ Remote \/ StartStep \/ MonitorStep
           \/ \E p \in Ports : Press(p)
           \/ \E h \in Handlers : HandlerStep(h) \/ \E p \in Ports : SwitchRequest(h, p)

\* The threads run, a lock somebody waits for is granted in the end although
\* the monitor takes it again and again, and the device keeps beating.
KvmFairness == /\ WF_kvmVars(MonitorStep) /\ WF_kvmVars(Beat) /\ WF_kvmVars(StartStep)
               /\ \A h \in Handlers : SF_kvmVars(TakeLine(h)) /\ WF_kvmVars(HandlerStep(h))

KvmSpec == KvmInit /\ [][KvmNext]_kvmVars /\ KvmFairness

----------------------------------------------------------------------------
(* Properties *)

KvmTypeOK == /\ mode \in {"detect", "probe", "serving", "aborted"}
             /\ routed \in Ports /\ active \in Ports \cup {NoPort}
             /\ Len(wire) <= WireMax /\ Len(buf) <= BufMax
             /\ mon \in {"check", "read", "parse"} /\ reset \in BOOLEAN
             /\ holder # NoPort <=> \E h \in Handlers : hand[h].pc = "command"

\* The server starts with the port the device really shows, found out by
\* listening or by the probe, which leaves the device on the port it was on.
StartsOnPort == mode = "serving" /\ events = 0 => active = routed

\* Once nobody switches any more, the port that is shown becomes and stays the
\* real one: a heartbeat read before a switch, a handler that publishes late, an
\* unanswered command and codes of a remote control are all got over.
KvmConverges == <>[](mode = "serving" => active = routed)

\* Every switch request is answered.
KvmAnswers == \A h \in Handlers : hand[h].pc = "lock" ~> hand[h].pc = "idle"

\* What the server shows is where the device is, from its start and in the end,
\* and nobody who asks for a switch is left without an answer.
PortIsTrue == []StartsOnPort /\ KvmConverges /\ KvmAnswers
=============================================================================
