------------------------------ MODULE AppChannel ------------------------------
(***************************************************************************)
(* The USB channel between a native app and a program on the computer: the *)
(* session the calculator keeps (app_channel.h) and the client the program *)
(* uses (channel_device.py), over control transfers that can fail.         *)
(*                                                                         *)
(* The client reads the status before it sends anything, so between the    *)
(* check and the transfer the app, the user, the clock or a bus reset can  *)
(* change the session.  A transfer the computer saw fail may have reached  *)
(* the calculator all the same; the calculator handles it, if at all,      *)
(* before the next transfer it is given.  The clocks are left out: a       *)
(* pairing deadline or a lease can run out at any moment.                  *)
(***************************************************************************)
EXTENDS Naturals, Sequences, SequencesExt

CONSTANTS
    Data,           \* what a message can say
    Queue,          \* message slots in each direction
    LastSeq,        \* the sequence number that is never used
    MaxSession,     \* the session number after which none is given out
    MaxNonce,       \* how many times a computer attaches (a bound)
    Apps, Wanted,   \* the installed apps, and the one the program is for
    None

ASSUME ChannelConstants ==
    /\ Queue \in Nat \ {0} /\ LastSeq \in Nat \ {0, 1}
    /\ MaxSession \in Nat /\ MaxNonce \in Nat
    /\ Wanted \in Apps /\ None \notin Data

VARIABLES
    dev,        \* the session on the calculator
    host,       \* the client on the computer
    late        \* a transfer that failed and that the calculator may still see

vars == <<dev, host, late>>

Frames == [seq : 1 .. LastSeq, data : Data]

NoFrame == [seq |-> 0, data |-> None]

Messages ==
    [cmd : {"attach", "frame", "ack", "close"}, session : 1 .. MaxSession,
     nonce : 1 .. MaxNonce, frame : Frames \union {NoFrame}]

-----------------------------------------------------------------------------
(* The calculator.                                                         *)

Active == dev.state \in {"WAIT_HOST", "WAIT_USER", "CONNECTED"}

\* clear() as it would be if it cleared the session counter too.
NewOwnerRestarts(app) ==
    [dev EXCEPT !.state = "CLOSED", !.owner = app, !.session = 0, !.nonce = 0,
                !.counter = 0, !.sendSeq = 0, !.recvSeq = 0, !.tx = <<>>,
                !.rx = <<>>, !.last = NoFrame, !.ack = 0]

NewOwner(app) ==
    [dev EXCEPT !.state = "CLOSED", !.owner = app, !.session = 0, !.nonce = 0,
                !.sendSeq = 0, !.recvSeq = 0, !.tx = <<>>, !.rx = <<>>,
                !.last = NoFrame, !.ack = 0]

Finished ==
    IF Active
    THEN [dev EXCEPT !.state = "ENDED", !.tx = <<>>, !.rx = <<>>, !.last = NoFrame]
    ELSE dev

Matches(m) ==
    dev.state = "CONNECTED" /\ m.session = dev.session /\ m.nonce = dev.nonce

Attached(m) ==
    IF dev.state = "WAIT_HOST" /\ m.session = dev.session
    THEN [dev EXCEPT !.nonce = m.nonce, !.state = "WAIT_USER"]
    ELSE dev

Repeated(f) == f.seq = dev.recvSeq - 1 /\ f = dev.last

Expected(f) == f.seq = dev.recvSeq /\ Len(dev.rx) < Queue

Received(m) ==
    IF ~Matches(m) \/ Repeated(m.frame) \/ ~Expected(m.frame) THEN dev
    ELSE IF dev.recvSeq = LastSeq THEN Finished
    ELSE [dev EXCEPT !.rx = Append(@, m.frame), !.last = m.frame, !.recvSeq = @ + 1]

AtFront(f) == dev.tx # <<>> /\ f.seq = Head(dev.tx).seq

Acknowledged(m) ==
    IF Matches(m) /\ m.frame.seq # dev.ack /\ AtFront(m.frame)
    THEN [dev EXCEPT !.tx = Tail(@), !.ack = m.frame.seq]
    ELSE dev

Closes(m) ==
    /\ dev.state \in {"WAIT_USER", "CONNECTED"}
    /\ m.session = dev.session /\ m.nonce = dev.nonce

\* The calculator's answer to a transfer, a stall when FALSE ...
Accepts(m) ==
    CASE m.cmd = "attach" ->
             /\ m.session = dev.session
             /\ \/ dev.state = "WAIT_HOST"
                \/ dev.state \in {"WAIT_USER", "CONNECTED"} /\ m.nonce = dev.nonce
      [] m.cmd = "frame" ->
             /\ Matches(m)
             /\ \/ Repeated(m.frame)
                \/ Expected(m.frame) /\ dev.recvSeq # LastSeq
      [] m.cmd = "ack" ->
             Matches(m) /\ (m.frame.seq = dev.ack \/ AtFront(m.frame))
      [] m.cmd = "close" -> Closes(m)

\* ... and the session after it.
Handled(m) ==
    CASE m.cmd = "attach" -> Attached(m)
      [] m.cmd = "frame" -> Received(m)
      [] m.cmd = "ack" -> Acknowledged(m)
      [] m.cmd = "close" -> IF Closes(m) THEN Finished ELSE dev

\* The app's requests.  One that has to wait, or names an old session, changes
\* nothing.
AppOpen ==
    /\ ~Active /\ dev.owner # None /\ dev.counter < MaxSession
    /\ dev' = [dev EXCEPT !.state = "WAIT_HOST", !.counter = @ + 1,
                          !.session = dev.counter + 1, !.nonce = 0,
                          !.sendSeq = 1, !.recvSeq = 1, !.tx = <<>>,
                          !.rx = <<>>, !.last = NoFrame, !.ack = 0]
    /\ UNCHANGED <<host, late>>

\* The same without the end of the sequence.
AppSendWraps(d) ==
    /\ dev.state = "CONNECTED" /\ Len(dev.tx) < Queue
    /\ dev' = [dev EXCEPT !.tx = Append(@, [seq |-> dev.sendSeq, data |-> d]),
                          !.sendSeq = @ + 1]
    /\ UNCHANGED <<host, late>>

AppSend(d) ==
    /\ dev.state = "CONNECTED" /\ Len(dev.tx) < Queue
    /\ dev' = IF dev.sendSeq = LastSeq THEN Finished
              ELSE [dev EXCEPT !.tx = Append(@, [seq |-> dev.sendSeq, data |-> d]),
                               !.sendSeq = @ + 1]
    /\ UNCHANGED <<host, late>>

AppReceive ==
    /\ dev.state = "CONNECTED" /\ dev.rx # <<>>
    /\ dev' = [dev EXCEPT !.rx = Tail(@)]
    /\ UNCHANGED <<host, late>>

\* The app closes it, loses the foreground or exits, the user refuses, or a
\* deadline passes.
Finish == Active /\ dev' = Finished /\ UNCHANGED <<host, late>>

\* The bus is reset or USB is shut down: what the endpoint still held goes too.
BusReset == dev' = Finished /\ late' = None /\ UNCHANGED host

Allow ==
    /\ dev.state = "WAIT_USER"
    /\ dev' = [dev EXCEPT !.state = "CONNECTED"]
    /\ UNCHANGED <<host, late>>

\* The app is unloaded, and another may take its place.
Load(app) == app # dev.owner /\ dev' = NewOwner(app) /\ UNCHANGED <<host, late>>

\* A transfer the computer gave up on reaches the calculator, or never does.
LateArrives ==
    late # None /\ dev' = Handled(late) /\ late' = None /\ UNCHANGED host

LateLost == late # None /\ late' = None /\ UNCHANGED <<dev, host>>

-----------------------------------------------------------------------------
(* The client.  host.call is what remains of the call in progress once its *)
(* status check has passed.                                                *)

NewClient ==
    [session |-> 0, nonce |-> 0, pending |-> NoFrame, received |-> NoFrame,
     sendSeq |-> 1, recvSeq |-> 1, call |-> "none", drawn |-> host.drawn]

Same == host.session = dev.session /\ host.nonce = dev.nonce /\ dev.owner = Wanted

Bound(states) == host.nonce # 0 /\ Same /\ dev.state \in states

\* Between two calls.  The calculator deals with what it was given before it
\* answers a new request.
Ready == host.call = "none" /\ late = None

Idle == [host EXCEPT !.call = "none"]

Packet(cmd, f) ==
    [cmd |-> cmd, session |-> host.session, nonce |-> host.nonce, frame |-> f]

\* A transfer of the call in progress: it is answered, or fails, and then the
\* calculator may still see it.
Transfer(call, m, done) ==
    /\ host.call = call
    /\ \/ Accepts(m) /\ dev' = Handled(m) /\ host' = done /\ UNCHANGED late
       \/ ~Accepts(m) /\ dev' = Handled(m) /\ host' = Idle /\ UNCHANGED late
       \/ late' = m /\ host' = Idle /\ UNCHANGED dev

Attach ==
    /\ Ready /\ host.nonce = 0 /\ host.drawn < MaxNonce
    /\ dev.state = "WAIT_HOST" /\ dev.owner = Wanted
    /\ host' = [NewClient EXCEPT !.session = dev.session, !.nonce = host.drawn + 1,
                                 !.drawn = @ + 1, !.call = "attach"]
    /\ UNCHANGED <<dev, late>>

RetryAttach ==
    /\ Ready /\ host.nonce # 0
    /\ host.session = dev.session /\ dev.owner = Wanted
    /\ host' = [host EXCEPT !.call = "attach"]
    /\ UNCHANGED <<dev, late>>

WriteAttach == Transfer("attach", Packet("attach", NoFrame), Idle)

Send(d) ==
    /\ Ready /\ host.pending = NoFrame /\ Bound({"CONNECTED"})
    /\ dev.recvSeq = host.sendSeq /\ Len(dev.rx) < Queue /\ host.sendSeq # LastSeq
    /\ host' = [host EXCEPT !.pending = [seq |-> host.sendSeq, data |-> d],
                            !.call = "flush"]
    /\ UNCHANGED <<dev, late>>

Sent == [host EXCEPT !.pending = NoFrame, !.sendSeq = @ + 1, !.call = "none"]

\* flush() as it would be without the test for a committed frame.
FlushRefuses ==
    /\ host.call \in {"none", "flush"} /\ late = None
    /\ host.pending # NoFrame /\ Bound({"CONNECTED"})
    /\ host' = IF dev.recvSeq = host.sendSeq /\ Len(dev.rx) < Queue
               THEN [host EXCEPT !.call = "write"] ELSE Idle
    /\ UNCHANGED <<dev, late>>

\* The status read of flush(): the frame is found committed, or is sent
\* again, or has to wait.
Flush ==
    /\ host.call \in {"none", "flush"} /\ late = None
    /\ host.pending # NoFrame /\ Bound({"CONNECTED"})
    /\ host' = IF dev.recvSeq = host.sendSeq + 1 THEN Sent
               ELSE IF dev.recvSeq = host.sendSeq /\ Len(dev.rx) < Queue
               THEN [host EXCEPT !.call = "write"]
               ELSE Idle
    /\ UNCHANGED <<dev, late>>

\* That read fails, or finds the session over or another in its place.
FlushFails == host.call = "flush" /\ host' = Idle /\ UNCHANGED <<dev, late>>

\* A failed transfer forgets the frame, as a client without pending would.
WriteFrameForgets ==
    \/ Transfer("write", Packet("frame", host.pending), Sent)
    \/ /\ host.call = "write" /\ late' = Packet("frame", host.pending)
       /\ host' = Sent /\ UNCHANGED dev

WriteFrame == Transfer("write", Packet("frame", host.pending), Sent)

Receive ==
    /\ Ready /\ host.received = NoFrame
    /\ Bound({"CONNECTED"}) /\ dev.tx # <<>>
    /\ host' = [host EXCEPT !.call = "read"]
    /\ UNCHANGED <<dev, late>>

\* What is read is kept only if it is the next message of this session.
ReadFrame ==
    /\ host.call = "read"
    /\ \/ /\ dev.state = "CONNECTED" /\ host.session = dev.session /\ dev.tx # <<>>
          /\ host.nonce = dev.nonce /\ Head(dev.tx).seq = host.recvSeq
          /\ host' = [Idle EXCEPT !.received = Head(dev.tx)]
       \/ host' = Idle
    /\ UNCHANGED <<dev, late>>

Acknowledge ==
    /\ Ready /\ host.received # NoFrame /\ Bound({"CONNECTED"})
    /\ host' = [host EXCEPT !.call = "ack"]
    /\ UNCHANGED <<dev, late>>

Acked == [host EXCEPT !.recvSeq = @ + 1, !.received = NoFrame, !.call = "none"]

\* The count advanced whether the acknowledgement arrived or not.
WriteAckEager ==
    \/ Transfer("ack", Packet("ack", host.received), Acked)
    \/ host.call = "ack" /\ host' = Acked /\ UNCHANGED <<dev, late>>

WriteAck == Transfer("ack", Packet("ack", host.received), Acked)

Close ==
    /\ Ready /\ Bound({"WAIT_USER", "CONNECTED"})
    /\ host' = [host EXCEPT !.call = "close"]
    /\ UNCHANGED <<dev, late>>

Closed ==
    [host EXCEPT !.session = 0, !.nonce = 0, !.pending = NoFrame,
                 !.received = NoFrame, !.call = "none"]

WriteClose == Transfer("close", Packet("close", NoFrame), Closed)

\* The program on the computer stops, wherever it is.
HostExits == host.nonce # 0 /\ host' = NewClient /\ UNCHANGED <<dev, late>>

-----------------------------------------------------------------------------

Init ==
    /\ dev = [state |-> "CLOSED", owner |-> None, counter |-> 0, session |-> 0,
              nonce |-> 0, sendSeq |-> 0, recvSeq |-> 0, tx |-> <<>>, rx |-> <<>>,
              last |-> NoFrame, ack |-> 0]
    /\ host = [session |-> 0, nonce |-> 0, pending |-> NoFrame, received |-> NoFrame,
               sendSeq |-> 1, recvSeq |-> 1, call |-> "none", drawn |-> 0]
    /\ late = None

Calculator ==
    \/ AppOpen \/ AppReceive \/ Allow \/ Finish \/ BusReset
    \/ \E d \in Data : AppSend(d)
    \/ \E app \in Apps \union {None} : Load(app)
    \/ LateArrives \/ LateLost

Computer ==
    \/ Attach \/ RetryAttach \/ WriteAttach
    \/ \E d \in Data : Send(d)
    \/ Flush \/ FlushFails \/ WriteFrame
    \/ Receive \/ ReadFrame \/ Acknowledge \/ WriteAck
    \/ Close \/ WriteClose \/ HostExits

Next == Calculator \/ Computer

\* A caller that goes on with what it began, a link that does not fail for
\* ever, an app that reads what it is sent, and a calculator that polls.
Fairness ==
    /\ WF_vars(LateArrives \/ LateLost) /\ WF_vars(AppReceive)
    /\ SF_vars(Flush) /\ SF_vars(WriteFrame /\ host' = Sent)
    /\ SF_vars(Acknowledge) /\ SF_vars(WriteAck /\ host' = Acked)
    /\ WF_vars(WriteAttach) /\ WF_vars(ReadFrame) /\ WF_vars(WriteClose)

Spec == Init /\ [][Next]_vars /\ Fairness

-----------------------------------------------------------------------------
(* The refinement mapping.                                                 *)

Here == Bound({"CONNECTED"})

\* The frame that is not known to have arrived: the client's, or the one it
\* left behind.
Outstanding ==
    IF Here THEN host.pending
    ELSE IF late # None /\ late.cmd = "frame" /\ Matches(late) THEN late.frame
    ELSE NoFrame

Unsettled == Outstanding # NoFrame /\ Outstanding.seq = dev.recvSeq

Said(frames) == [i \in DOMAIN frames |-> frames[i].data]

Up == Said(dev.rx) \o (IF Unsettled THEN <<Outstanding.data>> ELSE <<>>)

\* The computer has what it holds, acknowledged or not.
Down ==
    IF ~Here THEN <<>>
    ELSE IF host.received # NoFrame /\ AtFront(host.received) THEN Said(Tail(dev.tx))
    ELSE Said(dev.tx)

Promise == INSTANCE ChannelPromise WITH
    bound <- Here, doubt <- ~Here /\ Unsettled, up <- Up, down <- Down

-----------------------------------------------------------------------------
(* Properties.                                                             *)

\* The session, the client and the failed transfer have their shapes: no
\* queue holds more than its slots and no sequence number passes the last.
TypeOK ==
    /\ dev.state \in {"CLOSED", "WAIT_HOST", "WAIT_USER", "CONNECTED", "ENDED"}
    /\ dev.owner \in Apps \union {None}
    /\ dev.counter \in 0 .. MaxSession /\ dev.session \in {0, dev.counter}
    /\ dev.nonce \in 0 .. host.drawn
    /\ {dev.sendSeq, dev.recvSeq, dev.ack} \subseteq 0 .. LastSeq
    /\ \A q \in {dev.tx, dev.rx} : q \in Seq(Frames) /\ Len(q) <= Queue
    /\ dev.last \in Frames \union {NoFrame}
    /\ host.session \in 0 .. dev.counter /\ host.nonce \in 0 .. host.drawn
    /\ host.drawn \in 0 .. MaxNonce
    /\ {host.pending, host.received} \subseteq Frames \union {NoFrame}
    /\ {host.sendSeq, host.recvSeq} \subseteq 1 .. LastSeq
    /\ host.call \in {"none", "attach", "flush", "write", "read", "ack", "close"}
    /\ late \in Messages \union {None}

\* The identity is read before the attach is sent, and the app can be
\* replaced in between: a client that shares session and nonce with the
\* calculator is still paired with the app it was started for.
PeerWanted ==
    host.nonce # 0 /\ host.session = dev.session /\ host.nonce = dev.nonce =>
        dev.owner = Wanted

\* Whatever transfers failed, the client is at most the one frame it holds
\* as pending, and the one message it holds as received, away from the
\* calculator's counters: "sequence changed" and "replayed message" are
\* never raised against the paired app.
InSync ==
    Here =>
        /\ \/ dev.recvSeq = host.sendSeq
           \/ host.pending # NoFrame /\ dev.recvSeq = host.sendSeq + 1
        /\ \/ host.recvSeq + Len(dev.tx) = dev.sendSeq
           \/ host.received # NoFrame /\ host.recvSeq + 1 + Len(dev.tx) = dev.sendSeq

\* What the client believes of the other end is so: it is the app it wants,
\* and the two count the same messages.
PeerAgrees == PeerWanted /\ InSync

\* Between the paired ends nothing is lost, repeated or reordered, through
\* failed and late transfers, and no message outlives its session.
ImplementsPromise == Promise!PromiseSpec

\* A send whose transfer failed, and a message whose acknowledgement failed,
\* do not stay unresolved for a caller who goes on: each is settled, or the
\* session ends.
CallsResolve ==
    /\ host.pending # NoFrame ~> (host.pending = NoFrame \/ ~Here)
    /\ host.received # NoFrame ~> (host.received = NoFrame \/ ~Here)
===============================================================================
