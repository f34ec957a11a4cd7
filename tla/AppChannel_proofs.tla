-------------------------- MODULE AppChannel_proofs --------------------------
(***************************************************************************)
(* Theorems about AppChannel, for every set of messages and of apps, any   *)
(* queue length, last sequence number and number of sessions and of        *)
(* attachments: type correctness, that the client's picture of its peer is *)
(* right, and that the channel implements ChannelPromise.                  *)
(*                                                                         *)
(* The invariant follows one session.  A client that is paired with it     *)
(* began with counters that were as fresh as the calculator's, so the two  *)
(* can only be apart by the frame the client holds as pending and by the   *)
(* message it holds as received.  A transfer that failed is the client's   *)
(* last: it says what the client still holds, or the client has gone and   *)
(* nothing follows it before it arrives or is lost.                        *)
(***************************************************************************)
EXTENDS AppChannel, SequenceTheorems, TLAPS

(***************************************************************************)
(* The inductive invariant                                                 *)
(***************************************************************************)
States == {"CLOSED", "WAIT_HOST", "WAIT_USER", "CONNECTED", "ENDED"}
Calls == {"none", "attach", "flush", "write", "read", "ack", "close"}

Devices ==
  [state : States, owner : Apps \cup {None}, counter : 0..MaxSession,
   session : 0..MaxSession, nonce : 0..MaxNonce, sendSeq : 0..LastSeq,
   recvSeq : 0..LastSeq, tx : Seq(Frames), rx : Seq(Frames),
   last : Frames \cup {NoFrame}, ack : 0..LastSeq]

Clients ==
  [session : 0..MaxSession, nonce : 0..MaxNonce, pending : Frames \cup {NoFrame},
   received : Frames \cup {NoFrame}, sendSeq : 1..LastSeq, recvSeq : 1..LastSeq,
   call : Calls, drawn : 0..MaxNonce]

\* The session: what was not acknowledged yet is in the queue, in order.
DeviceOk ==
  /\ dev \in Devices
  /\ dev.session \in {0, dev.counter}
  /\ Active => dev.session = dev.counter /\ dev.counter # 0
  /\ ~Active => dev.tx = <<>> /\ dev.rx = <<>> /\ dev.last = NoFrame
  /\ dev.state = "WAIT_HOST" => dev.nonce = 0
  /\ dev.state \in {"WAIT_USER", "CONNECTED"} => dev.nonce # 0
  /\ dev.state \in {"WAIT_HOST", "WAIT_USER"} =>
       /\ dev.sendSeq = 1 /\ dev.recvSeq = 1 /\ dev.ack = 0
       /\ dev.tx = <<>> /\ dev.rx = <<>>
  /\ dev.state = "CONNECTED" =>
       /\ dev.sendSeq >= 1 /\ dev.recvSeq >= 1
       /\ Len(dev.tx) <= Queue /\ Len(dev.rx) <= Queue
       /\ dev.ack + Len(dev.tx) + 1 = dev.sendSeq
       /\ \A i \in 1..Len(dev.tx) : dev.tx[i].seq = dev.ack + i

\* The client: what it holds carries its own counters.
ClientOk ==
  /\ host \in Clients
  /\ host.nonce \in {0, host.drawn}
  /\ host.nonce = 0 <=> host.session = 0
  /\ host.nonce = 0 => /\ host.pending = NoFrame /\ host.received = NoFrame
                       /\ host.call = "none"
  /\ host.pending # NoFrame => host.pending.seq = host.sendSeq /\ host.sendSeq # LastSeq
  /\ host.received # NoFrame => host.received.seq = host.recvSeq
  /\ host.call \in {"flush", "write"} => host.pending # NoFrame
  /\ host.call = "ack" => host.received # NoFrame

Waiting == dev.state \in {"WAIT_HOST", "WAIT_USER"}

\* A transfer says what its client holds, or its client has gone; one that
\* carries a message never names a session that is still to be let in.
Speaks(m) ==
  /\ m \in Messages /\ m.session <= dev.counter /\ m.nonce <= host.drawn
  /\ m.cmd \in {"frame", "ack"} => m.frame \in Frames
  /\ m.cmd = "frame" /\ m.session = dev.session => ~Waiting
  /\ host.nonce # 0 =>
       /\ m.nonce = host.nonce /\ m.session = host.session
       /\ m.cmd = "frame" => m.frame = host.pending
       /\ m.cmd = "ack" => m.frame = host.received

\* A failed transfer is the last thing its client did.
LateOk == late # None => Speaks(late) /\ host.call = "none"

\* A client that attached to this session.
Paired == host.nonce # 0 /\ host.session = dev.session

PairedOk ==
  /\ dev.nonce <= host.drawn /\ host.session <= dev.counter
  /\ Paired => dev.owner = Wanted
  /\ Paired /\ Waiting =>
       /\ host.sendSeq = 1 /\ host.recvSeq = 1
       /\ host.pending = NoFrame /\ host.received = NoFrame

\* How far the two ends of a session can be apart.
SyncOk ==
  Here =>
    /\ \/ dev.recvSeq = host.sendSeq
       \/ host.pending # NoFrame /\ dev.recvSeq = host.sendSeq + 1
    /\ \/ /\ host.recvSeq + Len(dev.tx) = dev.sendSeq
          /\ host.received # NoFrame => dev.tx # <<>> /\ Head(dev.tx) = host.received
       \/ host.received # NoFrame /\ host.recvSeq + 1 + Len(dev.tx) = dev.sendSeq

ChannelInv == DeviceOk /\ ClientOk /\ LateOk /\ PairedOk /\ SyncOk

(***************************************************************************)
(* Lemmas about the session                                                *)
(***************************************************************************)
LEMMA Numbers ==
  /\ Queue \in Nat /\ Queue >= 1 /\ LastSeq \in Nat /\ LastSeq >= 2
  /\ MaxSession \in Nat /\ MaxNonce \in Nat /\ Wanted \in Apps
BY ChannelConstants DEF ChannelConstants

LEMMA FrameFacts ==
  /\ NoFrame \notin Frames
  /\ \A f \in Frames : f.seq \in 1..LastSeq /\ f.data \in Data
  /\ \A s \in 1..LastSeq, d \in Data : [seq |-> s, data |-> d] \in Frames
BY Numbers DEF Frames, NoFrame

LEMMA DeviceFields ==
  ASSUME DeviceOk
  PROVE  /\ dev.state \in States /\ dev.owner \in Apps \cup {None}
         /\ dev.counter \in 0..MaxSession /\ dev.session \in 0..MaxSession
         /\ dev.nonce \in 0..MaxNonce
         /\ dev.sendSeq \in 0..LastSeq /\ dev.recvSeq \in 0..LastSeq
         /\ dev.tx \in Seq(Frames) /\ dev.rx \in Seq(Frames)
         /\ dev.last \in Frames \cup {NoFrame} /\ dev.ack \in 0..LastSeq
BY DEF DeviceOk, Devices

\* Every state that is not active is empty, and every session may end.
LEMMA FinishedFields ==
  ASSUME DeviceOk
  PROVE  /\ Finished \in Devices /\ Finished.state \in {"CLOSED", "ENDED"}
         /\ Finished.tx = <<>> /\ Finished.rx = <<>> /\ Finished.last = NoFrame
         /\ Finished.owner = dev.owner /\ Finished.counter = dev.counter
         /\ Finished.session = dev.session /\ Finished.nonce = dev.nonce
<1>1. dev \in Devices /\ <<>> \in Seq(Frames)
  BY DEF DeviceOk
<1>2. CASE Active
  BY <1>1, <1>2 DEF Finished, Devices, States
<1>3. CASE ~Active
  BY <1>1, <1>3, DeviceFields DEF Finished, DeviceOk, Active, States
<1> QED BY <1>2, <1>3

LEMMA FinishOk ==
  ASSUME DeviceOk, dev' = Finished PROVE DeviceOk' /\ ~Active'
BY FinishedFields DEF DeviceOk, Active

LEMMA NewOwnerFields ==
  ASSUME DeviceOk, NEW app \in Apps \cup {None}
  PROVE  /\ NewOwner(app) \in Devices /\ NewOwner(app).state = "CLOSED"
         /\ NewOwner(app).tx = <<>> /\ NewOwner(app).rx = <<>>
         /\ NewOwner(app).last = NoFrame
         /\ NewOwner(app).counter = dev.counter
         /\ NewOwner(app).session = 0 /\ NewOwner(app).nonce = 0
<1>1. dev \in Devices /\ <<>> \in Seq(Frames) /\ 0 \in 0..LastSeq /\ 0 \in 0..MaxNonce
      /\ 0 \in 0..MaxSession
  BY Numbers DEF DeviceOk
<1> QED BY <1>1 DEF Devices, NewOwner, States

LEMMA AttachedOk ==
  ASSUME DeviceOk, NEW m, m.nonce \in 1..MaxNonce, dev' = Attached(m)
  PROVE  /\ DeviceOk'
         /\ dev'.owner = dev.owner /\ dev'.counter = dev.counter
         /\ dev'.session = dev.session
         /\ dev' = dev \/ /\ dev.state = "WAIT_HOST" /\ dev'.state = "WAIT_USER"
                          /\ m.session = dev.session /\ dev'.nonce = m.nonce
<1>1. CASE dev' = dev
  BY <1>1 DEF DeviceOk, Active
<1>2. CASE /\ dev.state = "WAIT_HOST" /\ m.session = dev.session
           /\ dev' = [dev EXCEPT !.nonce = m.nonce, !.state = "WAIT_USER"]
  <2>1. /\ dev' \in Devices /\ dev'.state = "WAIT_USER" /\ dev'.nonce = m.nonce
        /\ dev'.owner = dev.owner /\ dev'.counter = dev.counter
        /\ dev'.session = dev.session /\ dev'.sendSeq = dev.sendSeq
        /\ dev'.recvSeq = dev.recvSeq /\ dev'.ack = dev.ack
        /\ dev'.tx = dev.tx /\ dev'.rx = dev.rx /\ dev'.last = dev.last
    <3>1. dev \in Devices /\ m.nonce \in 0..MaxNonce
      BY Numbers DEF DeviceOk
    <3> QED BY <1>2, <3>1 DEF Devices, States
  <2> QED BY <1>2, <2>1 DEF DeviceOk, Active
<1> QED BY <1>1, <1>2 DEF Attached

\* A frame is appended, or the session ends at the last number.
LEMMA ReceivedOk ==
  ASSUME DeviceOk, NEW m, m.frame \in Frames, dev' = Received(m)
  PROVE  /\ DeviceOk'
         /\ \/ dev' = dev
            \/ dev' = Finished
            \/ /\ Matches(m) /\ Expected(m.frame) /\ dev.recvSeq < LastSeq
               /\ dev'.state = "CONNECTED" /\ dev'.rx = Append(dev.rx, m.frame)
               /\ dev'.recvSeq = dev.recvSeq + 1
               /\ dev'.owner = dev.owner /\ dev'.counter = dev.counter
               /\ dev'.session = dev.session /\ dev'.nonce = dev.nonce
               /\ dev'.sendSeq = dev.sendSeq /\ dev'.tx = dev.tx /\ dev'.ack = dev.ack
<1>1. CASE dev' = dev
  BY <1>1 DEF DeviceOk, Active
<1>2. CASE dev' = Finished
  BY <1>2, FinishOk
<1>3. CASE /\ Matches(m) /\ Expected(m.frame) /\ dev.recvSeq # LastSeq
           /\ dev' = [dev EXCEPT !.rx = Append(@, m.frame), !.last = m.frame,
                                 !.recvSeq = @ + 1]
  <2>1. /\ dev.state = "CONNECTED" /\ dev.recvSeq \in 1..LastSeq /\ dev.recvSeq < LastSeq
        /\ Len(dev.rx) < Queue
    BY <1>3, DeviceFields, Numbers DEF Matches, Expected, DeviceOk
  <2>2. /\ Append(dev.rx, m.frame) \in Seq(Frames)
        /\ Len(Append(dev.rx, m.frame)) = Len(dev.rx) + 1
        /\ Len(dev.rx) \in Nat
    BY DeviceFields
  <2>3. /\ dev' \in Devices /\ dev'.state = dev.state /\ dev'.nonce = dev.nonce
        /\ dev'.owner = dev.owner /\ dev'.counter = dev.counter
        /\ dev'.session = dev.session /\ dev'.sendSeq = dev.sendSeq
        /\ dev'.recvSeq = dev.recvSeq + 1 /\ dev'.ack = dev.ack
        /\ dev'.tx = dev.tx /\ dev'.rx = Append(dev.rx, m.frame)
    <3>1. dev \in Devices /\ dev.recvSeq + 1 \in 0..LastSeq
      BY <2>1, Numbers DEF DeviceOk
    <3> QED BY <1>3, <2>2, <3>1 DEF Devices
  <2>4. DeviceOk'
    BY <2>1, <2>2, <2>3, Numbers DEF DeviceOk, Active
  <2> QED BY <1>3, <2>1, <2>3, <2>4
<1> QED BY <1>1, <1>2, <1>3 DEF Received

\* The front of the queue is taken off.
LEMMA TailFrames ==
  ASSUME NEW q \in Seq(Frames), q # <<>>
  PROVE  /\ Tail(q) \in Seq(Frames) /\ Len(Tail(q)) + 1 = Len(q) /\ Len(q) \in Nat \ {0}
         /\ \A i \in 1..Len(Tail(q)) : Tail(q)[i] = q[i + 1]
         /\ Head(q) = q[1] /\ Head(q) \in Frames
BY EmptySeq, HeadTailProperties

LEMMA AcknowledgedOk ==
  ASSUME DeviceOk, NEW m, m.frame \in Frames, dev' = Acknowledged(m)
  PROVE  /\ DeviceOk'
         /\ \/ dev' = dev
            \/ /\ Matches(m) /\ AtFront(m.frame) /\ m.frame.seq # dev.ack
               /\ dev'.state = "CONNECTED" /\ dev'.tx = Tail(dev.tx)
               /\ dev'.ack = m.frame.seq /\ dev'.ack = dev.ack + 1
               /\ dev'.owner = dev.owner /\ dev'.counter = dev.counter
               /\ dev'.session = dev.session /\ dev'.nonce = dev.nonce
               /\ dev'.sendSeq = dev.sendSeq /\ dev'.rx = dev.rx
               /\ dev'.recvSeq = dev.recvSeq
<1>1. CASE dev' = dev
  BY <1>1 DEF DeviceOk, Active
<1>2. CASE /\ Matches(m) /\ AtFront(m.frame) /\ m.frame.seq # dev.ack
           /\ dev' = [dev EXCEPT !.tx = Tail(@), !.ack = m.frame.seq]
  <2>1. /\ dev.state = "CONNECTED" /\ dev.tx # <<>> /\ dev.tx \in Seq(Frames)
        /\ m.frame.seq = Head(dev.tx).seq
    BY <1>2, DeviceFields DEF Matches, AtFront
  <2>2. /\ Tail(dev.tx) \in Seq(Frames) /\ Len(Tail(dev.tx)) + 1 = Len(dev.tx)
        /\ \A i \in 1..Len(Tail(dev.tx)) : Tail(dev.tx)[i] = dev.tx[i + 1]
        /\ Len(dev.tx) \in Nat \ {0} /\ Len(Tail(dev.tx)) \in Nat
        /\ Head(dev.tx) = dev.tx[1]
    BY <2>1, TailFrames
  <2>3. m.frame.seq = dev.ack + 1 /\ m.frame.seq \in 1..LastSeq /\ dev.ack \in Nat
    BY <2>1, <2>2, FrameFacts, DeviceFields DEF DeviceOk
  <2>4. /\ dev' \in Devices /\ dev'.state = dev.state /\ dev'.nonce = dev.nonce
        /\ dev'.owner = dev.owner /\ dev'.counter = dev.counter
        /\ dev'.session = dev.session /\ dev'.sendSeq = dev.sendSeq
        /\ dev'.recvSeq = dev.recvSeq /\ dev'.ack = m.frame.seq
        /\ dev'.tx = Tail(dev.tx) /\ dev'.rx = dev.rx
    <3>1. dev \in Devices /\ m.frame.seq \in 0..LastSeq
      BY <2>3, Numbers DEF DeviceOk
    <3> QED BY <1>2, <2>2, <3>1 DEF Devices
  <2>5. /\ Len(dev'.tx) <= Queue /\ dev'.ack + Len(dev'.tx) + 1 = dev'.sendSeq
    <3>1. dev.ack + Len(dev.tx) + 1 = dev.sendSeq /\ Len(dev.tx) <= Queue
      BY <2>1 DEF DeviceOk
    <3>2. dev.sendSeq \in Nat /\ Queue \in Nat
      BY Numbers, DeviceFields
    <3> QED BY <2>2, <2>3, <2>4, <3>1, <3>2
  <2>6. \A i \in 1..Len(dev'.tx) : dev'.tx[i].seq = dev'.ack + i
    <3> SUFFICES ASSUME NEW i \in 1..Len(Tail(dev.tx))
                 PROVE  dev.tx[i + 1].seq = (dev.ack + 1) + i
      BY <2>2, <2>3, <2>4
    <3>1. i + 1 \in 1..Len(dev.tx)
      BY <2>2
    <3>2. dev.tx[i + 1].seq = dev.ack + (i + 1)
      BY <2>1, <3>1 DEF DeviceOk
    <3> QED BY <2>3, <3>2
  <2>7. DeviceOk'
    BY <2>1, <2>4, <2>5, <2>6 DEF DeviceOk, Active
  <2> QED BY <1>2, <2>1, <2>3, <2>4, <2>7
<1> QED BY <1>1, <1>2 DEF Acknowledged

LEMMA AppOpenOk ==
  ASSUME DeviceOk, AppOpen
  PROVE  /\ DeviceOk' /\ dev'.state = "WAIT_HOST" /\ dev'.session = dev.counter + 1
         /\ dev'.counter = dev.counter + 1 /\ dev'.nonce = 0
         /\ dev'.tx = <<>> /\ dev'.rx = <<>>
<1>1. /\ dev \in Devices /\ <<>> \in Seq(Frames) /\ 0 \in 0..LastSeq /\ 0 \in 0..MaxNonce
      /\ 1 \in 0..LastSeq /\ dev.counter + 1 \in 0..MaxSession /\ dev.counter \in Nat
  BY Numbers, DeviceFields DEF AppOpen, DeviceOk
<1>2. dev' = [dev EXCEPT !.state = "WAIT_HOST", !.counter = @ + 1,
                         !.session = dev.counter + 1, !.nonce = 0,
                         !.sendSeq = 1, !.recvSeq = 1, !.tx = <<>>,
                         !.rx = <<>>, !.last = NoFrame, !.ack = 0]
  BY DEF AppOpen
<1>3. /\ dev' \in Devices /\ dev'.state = "WAIT_HOST" /\ dev'.session = dev.counter + 1
      /\ dev'.counter = dev.counter + 1 /\ dev'.nonce = 0
      /\ dev'.sendSeq = 1 /\ dev'.recvSeq = 1 /\ dev'.ack = 0
      /\ dev'.tx = <<>> /\ dev'.rx = <<>>
  BY <1>1, <1>2 DEF Devices, States
<1> QED BY <1>1, <1>3 DEF DeviceOk, Active

LEMMA AppendFrames ==
  ASSUME NEW q \in Seq(Frames), NEW f \in Frames
  PROVE  /\ Append(q, f) \in Seq(Frames) /\ Append(q, f) # <<>>
         /\ Len(Append(q, f)) = Len(q) + 1 /\ Len(q) \in Nat
         /\ \A i \in 1..Len(q) : Append(q, f)[i] = q[i]
         /\ Append(q, f)[Len(q) + 1] = f
BY AppendProperties

LEMMA AppSendOk ==
  ASSUME DeviceOk, NEW d \in Data, AppSend(d)
  PROVE  /\ DeviceOk' /\ dev.state = "CONNECTED"
         /\ \/ dev' = Finished
            \/ /\ dev'.state = "CONNECTED" /\ dev.sendSeq < LastSeq
               /\ dev'.tx = Append(dev.tx, [seq |-> dev.sendSeq, data |-> d])
               /\ [seq |-> dev.sendSeq, data |-> d] \in Frames
               /\ dev'.sendSeq = dev.sendSeq + 1
               /\ dev'.owner = dev.owner /\ dev'.counter = dev.counter
               /\ dev'.session = dev.session /\ dev'.nonce = dev.nonce
               /\ dev'.rx = dev.rx /\ dev'.recvSeq = dev.recvSeq
<1>1. dev.state = "CONNECTED" /\ Len(dev.tx) < Queue
  BY DEF AppSend
<1>2. CASE dev' = Finished
  BY <1>1, <1>2, FinishOk
<1>3. CASE /\ dev.sendSeq # LastSeq
           /\ dev' = [dev EXCEPT !.tx = Append(@, [seq |-> dev.sendSeq, data |-> d]),
                                 !.sendSeq = @ + 1]
  <2> DEFINE f == [seq |-> dev.sendSeq, data |-> d]
  <2>1. dev.sendSeq \in 1..LastSeq /\ dev.sendSeq < LastSeq /\ dev \in Devices
        /\ dev.sendSeq + 1 \in 0..LastSeq
    <3>1. dev \in Devices /\ dev.sendSeq >= 1 /\ dev.sendSeq # LastSeq
      BY <1>1, <1>3 DEF DeviceOk
    <3>2. dev.sendSeq \in 0..LastSeq /\ LastSeq \in Nat
      BY DeviceFields, Numbers
    <3> QED BY <3>1, <3>2
  <2>2. f \in Frames /\ f.seq = dev.sendSeq
    BY <2>1, FrameFacts
  <2>3. dev' = [dev EXCEPT !.tx = Append(@, f), !.sendSeq = @ + 1]
    BY <1>3
  <2> HIDE DEF f
  <2>4. /\ Append(dev.tx, f) \in Seq(Frames) /\ Len(dev.tx) \in Nat
        /\ Len(Append(dev.tx, f)) = Len(dev.tx) + 1
        /\ \A i \in 1..Len(dev.tx) : Append(dev.tx, f)[i] = dev.tx[i]
        /\ Append(dev.tx, f)[Len(dev.tx) + 1] = f
    BY <2>2, AppendFrames, DeviceFields
  <2>5. /\ dev' \in Devices /\ dev'.state = dev.state /\ dev'.nonce = dev.nonce
        /\ dev'.owner = dev.owner /\ dev'.counter = dev.counter
        /\ dev'.session = dev.session /\ dev'.sendSeq = dev.sendSeq + 1
        /\ dev'.recvSeq = dev.recvSeq /\ dev'.ack = dev.ack
        /\ dev'.tx = Append(dev.tx, f) /\ dev'.rx = dev.rx
    BY <2>1, <2>3, <2>4 DEF Devices
  <2>6. dev.ack + Len(dev.tx) + 1 = dev.sendSeq /\ dev.ack \in Nat /\ Queue \in Nat
    BY <1>1, DeviceFields, Numbers DEF DeviceOk
  <2>7. \A i \in 1..Len(dev'.tx) : dev'.tx[i].seq = dev'.ack + i
    <3> SUFFICES ASSUME NEW i \in 1..(Len(dev.tx) + 1)
                 PROVE  Append(dev.tx, f)[i].seq = dev.ack + i
      BY <2>4, <2>5
    <3>1. CASE i \in 1..Len(dev.tx)
      BY <1>1, <2>4, <3>1 DEF DeviceOk
    <3>2. CASE i = Len(dev.tx) + 1
      BY <2>2, <2>4, <2>6, <3>2
    <3> QED BY <2>4, <3>1, <3>2
  <2>8. /\ Len(dev'.tx) <= Queue /\ dev'.ack + Len(dev'.tx) + 1 = dev'.sendSeq
        /\ dev'.sendSeq >= 1
    <3> PICK n \in Nat : n = Len(dev.tx)
      BY <2>4
    <3>1. Len(dev'.tx) = n + 1 /\ n < Queue /\ dev.ack + n + 1 = dev.sendSeq
      BY <1>1, <2>4, <2>5, <2>6
    <3>2. dev'.ack = dev.ack /\ dev'.sendSeq = dev.sendSeq + 1 /\ dev.sendSeq \in Nat
      BY <2>1, <2>5
    <3> QED BY <2>6, <3>1, <3>2
  <2>9. DeviceOk'
    BY <1>1, <2>5, <2>7, <2>8 DEF DeviceOk, Active
  <2> QED BY <1>1, <2>1, <2>2, <2>5, <2>9 DEF f
<1> QED BY <1>1, <1>2, <1>3 DEF AppSend

LEMMA AppReceiveOk ==
  ASSUME DeviceOk, AppReceive
  PROVE  /\ DeviceOk' /\ dev.state = "CONNECTED" /\ dev'.state = "CONNECTED"
         /\ dev.rx # <<>> /\ dev'.rx = Tail(dev.rx)
         /\ dev'.owner = dev.owner /\ dev'.counter = dev.counter
         /\ dev'.session = dev.session /\ dev'.nonce = dev.nonce
         /\ dev'.sendSeq = dev.sendSeq /\ dev'.recvSeq = dev.recvSeq
         /\ dev'.tx = dev.tx /\ dev'.ack = dev.ack
<1>1. /\ dev.state = "CONNECTED" /\ dev.rx # <<>> /\ dev.rx \in Seq(Frames)
      /\ dev' = [dev EXCEPT !.rx = Tail(@)] /\ dev \in Devices
  BY DeviceFields DEF AppReceive, DeviceOk
<1>2. Tail(dev.rx) \in Seq(Frames) /\ Len(Tail(dev.rx)) + 1 = Len(dev.rx)
      /\ Len(Tail(dev.rx)) \in Nat
  BY <1>1, TailFrames
<1>3. /\ dev' \in Devices /\ dev'.state = dev.state /\ dev'.nonce = dev.nonce
      /\ dev'.owner = dev.owner /\ dev'.counter = dev.counter
      /\ dev'.session = dev.session /\ dev'.sendSeq = dev.sendSeq
      /\ dev'.recvSeq = dev.recvSeq /\ dev'.ack = dev.ack
      /\ dev'.tx = dev.tx /\ dev'.rx = Tail(dev.rx)
  BY <1>1, <1>2 DEF Devices
<1>4. Len(dev'.rx) <= Queue
  BY <1>1, <1>2, <1>3, Numbers DEF DeviceOk
<1> QED BY <1>1, <1>3, <1>4 DEF DeviceOk, Active

LEMMA AllowOk ==
  ASSUME DeviceOk, Allow
  PROVE  /\ DeviceOk' /\ dev.state = "WAIT_USER" /\ dev'.state = "CONNECTED"
         /\ dev'.owner = dev.owner /\ dev'.counter = dev.counter
         /\ dev'.session = dev.session /\ dev'.nonce = dev.nonce
         /\ dev'.sendSeq = 1 /\ dev'.recvSeq = 1
         /\ dev'.tx = <<>> /\ dev'.rx = <<>>
<1>1. /\ dev.state = "WAIT_USER" /\ dev' = [dev EXCEPT !.state = "CONNECTED"]
      /\ dev \in Devices
  BY DEF Allow, DeviceOk
<1>2. /\ dev' \in Devices /\ dev'.state = "CONNECTED" /\ dev'.nonce = dev.nonce
      /\ dev'.owner = dev.owner /\ dev'.counter = dev.counter
      /\ dev'.session = dev.session /\ dev'.sendSeq = dev.sendSeq
      /\ dev'.recvSeq = dev.recvSeq /\ dev'.ack = dev.ack
      /\ dev'.tx = dev.tx /\ dev'.rx = dev.rx
  BY <1>1 DEF Devices, States
<1>3. dev.sendSeq = 1 /\ dev.recvSeq = 1 /\ dev.ack = 0 /\ dev.tx = <<>> /\ dev.rx = <<>>
      /\ dev.nonce # 0 /\ Active
  BY <1>1 DEF DeviceOk, Active
<1>4. Len(<<>>) = 0
  OBVIOUS
<1> QED BY <1>1, <1>2, <1>3, <1>4, Numbers DEF DeviceOk, Active

\* What one of the client's requests, or a late one, does to the session.
LEMMA MessageFields ==
  ASSUME NEW m \in Messages
  PROVE  /\ m.cmd \in {"attach", "frame", "ack", "close"}
         /\ m.session \in 1..MaxSession /\ m.nonce \in 1..MaxNonce
         /\ m.frame \in Frames \cup {NoFrame}
BY DEF Messages

LEMMA HandledIs ==
  ASSUME NEW m \in Messages
  PROVE  /\ m.cmd = "attach" => Handled(m) = Attached(m)
         /\ m.cmd = "frame" => Handled(m) = Received(m)
         /\ m.cmd = "ack" => Handled(m) = Acknowledged(m)
         /\ m.cmd = "close" => Handled(m) = IF Closes(m) THEN Finished ELSE dev
BY MessageFields DEF Handled

(***************************************************************************)
(* The session and its client                                              *)
(***************************************************************************)
LEMMA AcceptsIs ==
  ASSUME NEW m \in Messages, Accepts(m)
  PROVE  /\ m.cmd = "frame" =>
              /\ Matches(m)
              /\ \/ Repeated(m.frame)
                 \/ Expected(m.frame) /\ dev.recvSeq # LastSeq
         /\ m.cmd = "ack" => Matches(m) /\ (m.frame.seq = dev.ack \/ AtFront(m.frame))
         /\ m.cmd = "close" => Closes(m)
BY MessageFields DEF Accepts

LEMMA ClientFields ==
  ASSUME ClientOk
  PROVE  /\ host.session \in 0..MaxSession /\ host.nonce \in 0..MaxNonce
         /\ host.pending \in Frames \cup {NoFrame} /\ host.received \in Frames \cup {NoFrame}
         /\ host.sendSeq \in 1..LastSeq /\ host.recvSeq \in 1..LastSeq
         /\ host.call \in Calls /\ host.drawn \in 0..MaxNonce
BY DEF ClientOk, Clients

\* The client holds what it held.
SameHolds ==
  /\ host'.session = host.session /\ host'.nonce = host.nonce
  /\ host'.pending = host.pending /\ host'.received = host.received
  /\ host'.sendSeq = host.sendSeq /\ host'.recvSeq = host.recvSeq

\* What a transfer the client made leaves of their agreement.
LEMMA HandledStep ==
  ASSUME DeviceOk, ClientOk, PairedOk, SyncOk, NEW m, Speaks(m), dev' = Handled(m)
  PROVE  /\ DeviceOk'
         /\ dev'.owner = dev.owner /\ dev'.counter = dev.counter
         /\ dev'.session = dev.session /\ dev'.nonce <= host.drawn
         /\ Waiting' => Waiting
         /\ SameHolds => SyncOk'
<1>1. /\ m \in Messages /\ m.cmd \in {"attach", "frame", "ack", "close"}
      /\ m.nonce \in 1..MaxNonce /\ dev.nonce <= host.drawn /\ m.nonce <= host.drawn
  BY MessageFields DEF Speaks, PairedOk
<1>2. CASE dev' = dev
  <2>1. DeviceOk'
    BY <1>2 DEF DeviceOk, Active
  <2>2. SameHolds => SyncOk'
    BY <1>2 DEF SameHolds, SyncOk, Here, Bound, Same
  <2> QED BY <1>1, <1>2, <2>1, <2>2 DEF Waiting
<1>3. CASE dev' = Finished
  <2>1. DeviceOk' /\ dev'.state \in {"CLOSED", "ENDED"} /\ dev'.nonce = dev.nonce
        /\ dev'.owner = dev.owner /\ dev'.counter = dev.counter
        /\ dev'.session = dev.session
    BY <1>3, FinishOk, FinishedFields
  <2> QED BY <1>1, <2>1 DEF Waiting, SyncOk, Here, Bound
<1>4. CASE m.cmd = "attach"
  <2>1. dev' = Attached(m)
    BY <1>1, <1>4, HandledIs
  <2>2. /\ DeviceOk' /\ dev'.owner = dev.owner /\ dev'.counter = dev.counter
        /\ dev'.session = dev.session
        /\ dev' = dev \/ /\ dev.state = "WAIT_HOST" /\ dev'.state = "WAIT_USER"
                         /\ m.session = dev.session /\ dev'.nonce = m.nonce
    BY <1>1, <2>1, AttachedOk
  <2> QED BY <1>1, <1>2, <2>2 DEF Waiting, SyncOk, Here, Bound
<1>5. CASE m.cmd = "frame"
  <2>1. dev' = Received(m) /\ m.frame \in Frames
    BY <1>1, <1>5, HandledIs DEF Speaks
  <2>2. CASE /\ Matches(m) /\ Expected(m.frame) /\ DeviceOk'
             /\ dev'.state = "CONNECTED" /\ dev'.recvSeq = dev.recvSeq + 1
             /\ dev'.owner = dev.owner /\ dev'.counter = dev.counter
             /\ dev'.session = dev.session /\ dev'.nonce = dev.nonce
             /\ dev'.sendSeq = dev.sendSeq /\ dev'.tx = dev.tx
    <3>1. ASSUME SameHolds, Here' PROVE SyncOk'
      <4>1. Here /\ host.nonce # 0
        BY <2>2, <3>1 DEF SameHolds, Matches, Here, Bound, Same
      <4>2. host.pending = m.frame /\ host.pending # NoFrame
        BY <1>5, <2>1, <4>1, FrameFacts DEF Speaks
      <4>3. dev.recvSeq = host.sendSeq
        BY <2>2, <4>2 DEF ClientOk, Expected
      <4> QED BY <2>2, <3>1, <4>1, <4>2, <4>3 DEF SameHolds, SyncOk
    <3> QED BY <1>1, <2>2, <3>1 DEF Waiting, SyncOk
  <2> QED BY <1>2, <1>3, <2>1, <2>2, ReceivedOk
<1>6. CASE m.cmd = "ack"
  <2>1. dev' = Acknowledged(m) /\ m.frame \in Frames
    BY <1>1, <1>6, HandledIs DEF Speaks
  <2>2. CASE /\ Matches(m) /\ AtFront(m.frame) /\ DeviceOk'
             /\ dev'.state = "CONNECTED" /\ dev'.tx = Tail(dev.tx)
             /\ dev'.ack = m.frame.seq /\ dev'.ack = dev.ack + 1
             /\ dev'.owner = dev.owner /\ dev'.counter = dev.counter
             /\ dev'.session = dev.session /\ dev'.nonce = dev.nonce
             /\ dev'.sendSeq = dev.sendSeq /\ dev'.recvSeq = dev.recvSeq
    <3>1. ASSUME SameHolds, Here' PROVE SyncOk'
      <4>1. Here /\ host.nonce # 0
        BY <2>2, <3>1 DEF SameHolds, Matches, Here, Bound, Same
      <4>2. host.received = m.frame /\ host.received # NoFrame
        BY <1>6, <2>1, <4>1, FrameFacts DEF Speaks
      <4>3. host.recvSeq = dev'.ack
        BY <2>2, <4>2 DEF ClientOk
      <4>4. dev'.ack + Len(dev'.tx) + 1 = dev'.sendSeq
        BY <2>2 DEF DeviceOk
      <4>5. dev'.ack \in Nat /\ Len(dev'.tx) \in Nat
        BY <2>2, DeviceFields DEF DeviceOk, Devices
      <4>6. host.recvSeq + 1 + Len(dev'.tx) = dev'.sendSeq
        BY <4>3, <4>4, <4>5
      <4> QED BY <2>2, <3>1, <4>1, <4>2, <4>6 DEF SameHolds, SyncOk
    <3> QED BY <1>1, <2>2, <3>1 DEF Waiting, SyncOk
  <2> QED BY <1>2, <2>1, <2>2, AcknowledgedOk
<1>7. CASE m.cmd = "close"
  BY <1>1, <1>2, <1>3, <1>7, HandledIs
<1> QED BY <1>1, <1>4, <1>5, <1>6, <1>7

(* A step of the calculator: the session goes on, ends, or another begins.   *)
LEMMA DeviceStep ==
  ASSUME ChannelInv, UNCHANGED host, late' \in {late, None}, DeviceOk', SyncOk',
         dev.counter <= dev'.counter, dev'.nonce <= host.drawn,
         \/ /\ dev'.session = dev.session /\ dev'.owner = dev.owner
            /\ Waiting' => Waiting
         \/ dev'.session = 0
         \/ dev'.session > dev.counter
  PROVE  ChannelInv'
<1>1. /\ DeviceOk /\ ClientOk /\ LateOk /\ PairedOk /\ DeviceOk'
      /\ dev.counter \in Nat /\ dev'.counter \in Nat
      /\ host.session \in Nat /\ host.session <= dev.counter
  <2>1. DeviceOk /\ ClientOk /\ LateOk /\ PairedOk
    BY DEF ChannelInv
  <2>2. dev'.counter \in 0..MaxSession
    BY DEF DeviceOk, Devices
  <2> QED BY <2>1, <2>2, DeviceFields, ClientFields DEF PairedOk
<1>2. ClientOk'
  BY <1>1 DEF ClientOk
<1>3. LateOk'
  <2> SUFFICES ASSUME late' # None PROVE Speaks(late)' /\ host'.call = "none"
    BY DEF LateOk
  <2>1. late' = late /\ Speaks(late) /\ host.call = "none" /\ late \in Messages
    BY <1>1 DEF LateOk, Speaks
  <2>2. late.session \in 1..MaxSession /\ late.session <= dev.counter
    BY <2>1, MessageFields DEF Speaks
  <2>3. late.session <= dev'.counter
    BY <1>1, <2>2
  <2>4. late.cmd = "frame" /\ late.session = dev'.session => ~Waiting'
    BY <1>1, <2>1, <2>2 DEF Speaks
  <2> QED BY <2>1, <2>3, <2>4 DEF Speaks
<1>4. PairedOk'
  <2>1. Paired' => Paired /\ dev'.owner = dev.owner /\ (Waiting' => Waiting)
    BY <1>1 DEF Paired, ClientOk
  <2> QED BY <1>1, <2>1 DEF PairedOk
<1> QED BY <1>1, <1>2, <1>3, <1>4 DEF ChannelInv

LEMMA OneMore ==
  ASSUME NEW n \in Nat, NEW r \in Nat, NEW q \in Nat, r + n = q
  PROVE  r + (n + 1) = q + 1
OBVIOUS

LEMMA CalculatorInv == ASSUME ChannelInv, Calculator PROVE ChannelInv'
<1> USE DEF ChannelInv
<1>1. /\ DeviceOk /\ ClientOk /\ PairedOk /\ LateOk /\ SyncOk
      /\ dev.counter \in Nat /\ dev.nonce \in Nat /\ dev.nonce <= host.drawn
      /\ 0 <= host.drawn
  BY DeviceFields, ClientFields DEF PairedOk
<1>2. ASSUME dev' = Finished, UNCHANGED host, late' \in {late, None} PROVE ChannelInv'
  <2>1. DeviceOk' /\ dev'.state \in {"CLOSED", "ENDED"} /\ dev'.nonce = dev.nonce
        /\ dev'.owner = dev.owner /\ dev'.counter = dev.counter
        /\ dev'.session = dev.session
    BY <1>1, <1>2, FinishOk, FinishedFields
  <2>2. ~Waiting' /\ SyncOk'
    BY <2>1 DEF Waiting, SyncOk, Here, Bound
  <2> QED BY <1>1, <1>2, <2>1, <2>2, DeviceStep
<1>3. CASE AppOpen
  <2>1. DeviceOk' /\ dev'.state = "WAIT_HOST" /\ dev'.session = dev.counter + 1
        /\ dev'.counter = dev.counter + 1 /\ dev'.nonce = 0
    BY <1>1, <1>3, AppOpenOk
  <2>2. SyncOk' /\ UNCHANGED <<host, late>>
    BY <1>3, <2>1 DEF AppOpen, SyncOk, Here, Bound
  <2> QED BY <1>1, <2>1, <2>2, DeviceStep
<1>4. CASE AppReceive
  <2>1. /\ DeviceOk' /\ dev.state = "CONNECTED" /\ dev'.state = "CONNECTED"
        /\ dev'.owner = dev.owner /\ dev'.counter = dev.counter
        /\ dev'.session = dev.session /\ dev'.nonce = dev.nonce
        /\ dev'.sendSeq = dev.sendSeq /\ dev'.recvSeq = dev.recvSeq
        /\ dev'.tx = dev.tx /\ UNCHANGED <<host, late>>
    BY <1>1, <1>4, AppReceiveOk DEF AppReceive
  <2>2. SyncOk'
    BY <1>1, <2>1 DEF SyncOk, Here, Bound, Same
  <2> QED BY <1>1, <2>1, <2>2, DeviceStep DEF Waiting
<1>5. CASE Allow
  <2>1. /\ DeviceOk' /\ dev.state = "WAIT_USER" /\ dev'.state = "CONNECTED"
        /\ dev'.owner = dev.owner /\ dev'.counter = dev.counter
        /\ dev'.session = dev.session /\ dev'.nonce = dev.nonce
        /\ dev'.sendSeq = 1 /\ dev'.recvSeq = 1 /\ dev'.tx = <<>>
        /\ UNCHANGED <<host, late>>
    BY <1>1, <1>5, AllowOk DEF Allow
  <2>2. SyncOk'
    <3> SUFFICES ASSUME Here' PROVE SyncOk'
      BY DEF SyncOk
    <3>1. Paired /\ Waiting
      BY <2>1 DEF Here, Bound, Same, Paired, Waiting
    <3>2. host.sendSeq = 1 /\ host.recvSeq = 1 /\ host.received = NoFrame
      BY <1>1, <3>1 DEF PairedOk
    <3>3. Len(<<>>) = 0
      OBVIOUS
    <3> QED BY <2>1, <3>2, <3>3 DEF SyncOk
  <2> QED BY <1>1, <2>1, <2>2, DeviceStep DEF Waiting
<1>6. CASE Finish \/ BusReset
  BY <1>2, <1>6 DEF Finish, BusReset
<1>7. ASSUME NEW d \in Data, AppSend(d) PROVE ChannelInv'
  <2>1. DeviceOk' /\ dev.state = "CONNECTED" /\ UNCHANGED <<host, late>>
    BY <1>1, <1>7, AppSendOk DEF AppSend
  <2>2. CASE dev' = Finished
    BY <1>2, <2>1, <2>2
  <2>3. CASE dev' # Finished
    <3> DEFINE f == [seq |-> dev.sendSeq, data |-> d]
    <3>1. /\ dev'.state = "CONNECTED" /\ dev'.tx = Append(dev.tx, f) /\ f \in Frames
          /\ dev'.sendSeq = dev.sendSeq + 1
          /\ dev'.owner = dev.owner /\ dev'.counter = dev.counter
          /\ dev'.session = dev.session /\ dev'.nonce = dev.nonce
          /\ dev'.recvSeq = dev.recvSeq
      BY <1>1, <1>7, <2>3, AppSendOk
    <3> HIDE DEF f
    <3>2. ASSUME Here' PROVE SyncOk'
      <4>1. Here /\ dev.sendSeq \in Nat /\ host.recvSeq \in Nat /\ dev.tx \in Seq(Frames)
        BY <1>1, <2>1, <3>1, <3>2, DeviceFields, ClientFields DEF Here, Bound, Same
      <4>2. Len(dev'.tx) = Len(dev.tx) + 1 /\ Len(dev.tx) \in Nat /\ dev'.tx # <<>>
            /\ (dev.tx # <<>> => Head(dev'.tx) = Head(dev.tx))
        BY <3>1, <4>1, AppendFrames, EmptySeq
      <4>3. \/ host.recvSeq + Len(dev'.tx) = dev'.sendSeq
               /\ (host.received # NoFrame => Head(dev'.tx) = host.received)
            \/ host.received # NoFrame /\ host.recvSeq + 1 + Len(dev'.tx) = dev'.sendSeq
        <5>1. CASE /\ host.recvSeq + Len(dev.tx) = dev.sendSeq
                   /\ host.received # NoFrame => dev.tx # <<>> /\ Head(dev.tx) = host.received
          BY <3>1, <4>1, <4>2, <5>1
        <5>2. CASE host.received # NoFrame /\ host.recvSeq + 1 + Len(dev.tx) = dev.sendSeq
          <6> PICK n \in Nat : n = Len(dev.tx)
            BY <4>2
          <6> PICK r \in Nat : r = host.recvSeq + 1
            BY <4>1
          <6> PICK q \in Nat : q = dev.sendSeq
            BY <4>1
          <6>1. r + n = q
            BY <5>2
          <6>2. Len(dev'.tx) = n + 1 /\ dev'.sendSeq = q + 1
            BY <3>1, <4>2
          <6>3. r + (n + 1) = q + 1
            BY <6>1, OneMore
          <6> QED BY <5>2, <6>2, <6>3
        <5> QED BY <1>1, <4>1, <5>1, <5>2 DEF SyncOk
      <4>4. \/ dev'.recvSeq = host.sendSeq
            \/ host.pending # NoFrame /\ dev'.recvSeq = host.sendSeq + 1
        BY <1>1, <3>1, <4>1 DEF SyncOk
      <4> QED BY <2>1, <4>2, <4>3, <4>4 DEF SyncOk
    <3>3. SyncOk'
      BY <3>2 DEF SyncOk
    <3> QED BY <1>1, <2>1, <3>1, <3>3, DeviceStep DEF Waiting
  <2> QED BY <2>2, <2>3
<1>8. ASSUME NEW app \in Apps \cup {None}, Load(app) PROVE ChannelInv'
  <2>1. /\ dev' \in Devices /\ dev'.state = "CLOSED" /\ dev'.tx = <<>> /\ dev'.rx = <<>>
        /\ dev'.last = NoFrame /\ dev'.counter = dev.counter
        /\ dev'.session = 0 /\ dev'.nonce = 0 /\ UNCHANGED <<host, late>>
    BY <1>1, <1>8, NewOwnerFields DEF Load
  <2>2. DeviceOk' /\ SyncOk'
    BY <2>1 DEF DeviceOk, Active, SyncOk, Here, Bound
  <2> QED BY <1>1, <2>1, <2>2, DeviceStep
<1>9. CASE LateArrives
  <2>1. Speaks(late) /\ dev' = Handled(late) /\ late' = None /\ UNCHANGED host
    BY <1>1, <1>9 DEF LateArrives, LateOk
  <2>2. /\ DeviceOk' /\ dev'.owner = dev.owner /\ dev'.counter = dev.counter
        /\ dev'.session = dev.session /\ dev'.nonce <= host.drawn
        /\ (Waiting' => Waiting) /\ SyncOk'
    BY <1>1, <2>1, HandledStep DEF SameHolds
  <2> QED BY <1>1, <2>1, <2>2, DeviceStep
<1>10. CASE LateLost
  <2>1. late' = None /\ UNCHANGED <<dev, host>>
    BY <1>10 DEF LateLost
  <2>2. DeviceOk' /\ SyncOk'
    BY <1>1, <2>1 DEF DeviceOk, Active, SyncOk, Here, Bound, Same
  <2> QED BY <1>1, <2>1, <2>2, DeviceStep DEF Waiting
<1> QED BY <1>3, <1>4, <1>5, <1>6, <1>7, <1>8, <1>9, <1>10 DEF Calculator

(***************************************************************************)
(* The client's calls                                                      *)
(***************************************************************************)
\* A call that is in progress is that of an attached client, and nothing of it
\* is on its way yet.
LEMMA InCall ==
  ASSUME ChannelInv, host.call # "none" PROVE host.nonce # 0 /\ late = None
BY DEF ChannelInv, ClientOk, LateOk

\* A call begins or ends.
LEMMA CallStep ==
  ASSUME ChannelInv, NEW c \in Calls, host' = [host EXCEPT !.call = c],
         DeviceOk', SameHolds => SyncOk', host.nonce # 0,
         dev'.owner = dev.owner, dev'.counter = dev.counter, dev'.session = dev.session,
         dev'.nonce <= host.drawn, Waiting' => Waiting,
         c \in {"flush", "write"} => host.pending # NoFrame,
         c = "ack" => host.received # NoFrame,
         \/ late' = None
         \/ /\ late' # None /\ Speaks(late') /\ c = "none"
  PROVE  ChannelInv'
<1>1. /\ host' \in Clients /\ SameHolds /\ host'.call = c /\ host'.drawn = host.drawn
  BY DEF ChannelInv, ClientOk, Clients, SameHolds
<1>2. ClientOk'
  BY <1>1 DEF ChannelInv, ClientOk, SameHolds
<1>3. LateOk'
  <2> SUFFICES ASSUME late' # None, Speaks(late'), c = "none" PROVE LateOk'
    BY DEF LateOk
  <2>1. Speaks(late)'
    BY <1>1 DEF Speaks, SameHolds
  <2> QED BY <1>1, <2>1 DEF LateOk
<1>4. PairedOk'
  BY <1>1 DEF ChannelInv, PairedOk, Paired, SameHolds
<1> QED BY <1>1, <1>2, <1>3, <1>4 DEF ChannelInv

\* The same when the calculator has no part in it.
LEMMA AloneStep ==
  ASSUME ChannelInv, NEW c \in Calls, host' = [host EXCEPT !.call = c],
         UNCHANGED <<dev, late>>, host.nonce # 0, late = None,
         c \in {"flush", "write"} => host.pending # NoFrame,
         c = "ack" => host.received # NoFrame
  PROVE  ChannelInv'
<1>1. DeviceOk' /\ (SameHolds => SyncOk')
  BY DEF ChannelInv, DeviceOk, Active, SyncOk, SameHolds, Here, Bound, Same
<1>2. dev'.nonce <= host.drawn /\ (Waiting' => Waiting)
  BY DEF ChannelInv, PairedOk, Waiting
<1> QED BY <1>1, <1>2, CallStep

LEMMA PacketFields ==
  ASSUME NEW cmd, NEW f
  PROVE  /\ Packet(cmd, f).cmd = cmd /\ Packet(cmd, f).session = host.session
         /\ Packet(cmd, f).nonce = host.nonce /\ Packet(cmd, f).frame = f
BY DEF Packet

LEMMA PacketSpeaks ==
  ASSUME ChannelInv, host.call # "none", NEW cmd, NEW f,
         \/ cmd \in {"attach", "close"} /\ f = NoFrame
         \/ cmd = "frame" /\ f = host.pending /\ f # NoFrame
         \/ cmd = "ack" /\ f = host.received /\ f # NoFrame
  PROVE  Speaks(Packet(cmd, f))
<1>1. /\ host.nonce # 0 /\ host.session # 0 /\ DeviceOk /\ ClientOk /\ PairedOk
  BY InCall DEF ChannelInv, ClientOk
<1>2. /\ host.nonce \in 1..MaxNonce /\ host.session \in 1..MaxSession
      /\ f \in Frames \cup {NoFrame}
      /\ cmd \in {"frame", "ack"} => f \in Frames
  BY <1>1, ClientFields, Numbers
<1>3. Packet(cmd, f) \in Messages
  BY <1>2 DEF Packet, Messages
<1>4. host.session <= dev.counter /\ host.nonce <= host.drawn
  BY <1>1, ClientFields DEF PairedOk, ClientOk
<1>5. cmd = "frame" /\ host.session = dev.session => ~Waiting
  BY <1>1 DEF PairedOk, Paired
<1> QED BY <1>2, <1>3, <1>4, <1>5, PacketFields DEF Speaks

\* A transfer that fails, or that the calculator refuses.
LEMMA TransferFails ==
  ASSUME ChannelInv, host.call # "none", NEW m, Speaks(m), host' = Idle,
         \/ dev' = Handled(m) /\ UNCHANGED late
         \/ late' = m /\ UNCHANGED dev
  PROVE  ChannelInv'
<1>1. host.nonce # 0 /\ late = None /\ "none" \in Calls /\ host' = [host EXCEPT !.call = "none"]
  BY InCall DEF Calls, Idle
<1>2. CASE dev' = Handled(m) /\ UNCHANGED late
  <2>1. /\ DeviceOk' /\ dev'.owner = dev.owner /\ dev'.counter = dev.counter
        /\ dev'.session = dev.session /\ dev'.nonce <= host.drawn
        /\ Waiting' => Waiting
        /\ SameHolds => SyncOk'
    BY <1>2, HandledStep DEF ChannelInv
  <2> QED BY <1>1, <1>2, <2>1, CallStep
<1>3. CASE late' = m /\ UNCHANGED dev
  <2>1. DeviceOk' /\ (SameHolds => SyncOk')
    BY <1>3 DEF ChannelInv, DeviceOk, Active, SyncOk, SameHolds, Here, Bound, Same
  <2>2. dev'.nonce <= host.drawn /\ (Waiting' => Waiting)
    BY <1>3 DEF ChannelInv, PairedOk, Waiting
  <2> QED BY <1>1, <1>3, <2>1, <2>2, CallStep
<1> QED BY <1>2, <1>3

LEMMA WriteAttachInv == ASSUME ChannelInv, WriteAttach PROVE ChannelInv'
<1>1. host.call = "attach" /\ Transfer("attach", Packet("attach", NoFrame), Idle)
  BY DEF WriteAttach, Transfer
<1>2. Speaks(Packet("attach", NoFrame))
  BY <1>1, PacketSpeaks
<1>3. PICK m : m = Packet("attach", NoFrame) /\ Speaks(m)
  BY <1>2
<1>4. /\ host' = Idle
      /\ \/ dev' = Handled(m) /\ UNCHANGED late
         \/ late' = m /\ UNCHANGED dev
  BY <1>1, <1>3 DEF Transfer
<1> QED BY <1>1, <1>3, <1>4, TransferFails

\* An accepted frame was committed by it, or already was.
LEMMA FrameAccepted ==
  ASSUME ChannelInv, host.call = "write", NEW m, Speaks(m),
         m = Packet("frame", host.pending), Accepts(m), dev' = Handled(m)
  PROVE  /\ Here /\ DeviceOk'
         /\ dev'.owner = dev.owner /\ dev'.counter = dev.counter
         /\ dev'.session = dev.session /\ dev'.nonce = dev.nonce
         /\ dev'.state = "CONNECTED" /\ dev'.recvSeq = host.sendSeq + 1
         /\ dev'.tx = dev.tx /\ dev'.sendSeq = dev.sendSeq
         /\ \/ dev.recvSeq = host.sendSeq /\ dev'.rx = Append(dev.rx, host.pending)
            \/ dev.recvSeq = host.sendSeq + 1 /\ dev'.rx = dev.rx
<1>1. /\ m.cmd = "frame" /\ m.frame = host.pending /\ m.session = host.session
      /\ m.nonce = host.nonce /\ m \in Messages
  BY PacketFields DEF Speaks
<1>2. /\ Matches(m) /\ (Repeated(m.frame) \/ (Expected(m.frame) /\ dev.recvSeq # LastSeq))
      /\ dev' = Received(m)
  BY <1>1, HandledIs, AcceptsIs
<1>3. /\ host.nonce # 0 /\ host.pending # NoFrame /\ m.frame \in Frames
      /\ host.pending.seq = host.sendSeq /\ DeviceOk /\ ClientOk /\ PairedOk /\ SyncOk
      /\ host.sendSeq \in Nat /\ dev.recvSeq \in Nat
  BY <1>1, InCall, DeviceFields, ClientFields DEF ChannelInv, ClientOk, Speaks
<1>4. Here /\ dev.state = "CONNECTED"
  BY <1>1, <1>2, <1>3 DEF Matches, Here, Bound, Same, PairedOk, Paired
<1>5. CASE Repeated(m.frame)
  <2>1. dev' = dev
    BY <1>2, <1>5 DEF Received
  <2>2. dev.recvSeq = host.sendSeq + 1
    BY <1>1, <1>3, <1>4, <1>5 DEF Repeated, SyncOk
  <2> QED BY <1>3, <1>4, <2>1, <2>2 DEF DeviceOk, Active
<1>6. CASE ~Repeated(m.frame) /\ Expected(m.frame) /\ dev.recvSeq # LastSeq
  <2>1. dev.recvSeq = host.sendSeq
    BY <1>1, <1>3, <1>6 DEF Expected
  <2>2. dev' = [dev EXCEPT !.rx = Append(@, m.frame), !.last = m.frame, !.recvSeq = @ + 1]
    BY <1>2, <1>6 DEF Received
  <2>3. dev' # dev /\ dev' # Finished
    <3>1. dev'.recvSeq = dev.recvSeq + 1 /\ dev'.state = dev.state
      BY <1>3, <2>2 DEF DeviceOk, Devices
    <3> QED BY <1>3, <1>4, <3>1, FinishedFields
  <2> QED BY <1>1, <1>2, <1>3, <1>4, <2>1, <2>3, ReceivedOk
<1> QED BY <1>2, <1>5, <1>6

LEMMA WriteFrameInv == ASSUME ChannelInv, WriteFrame PROVE ChannelInv'
<1>1. /\ host.call = "write" /\ Transfer("write", Packet("frame", host.pending), Sent)
      /\ host.pending # NoFrame /\ host.nonce # 0 /\ late = None
  BY InCall DEF WriteFrame, Transfer, ChannelInv, ClientOk
<1>2. Speaks(Packet("frame", host.pending))
  BY <1>1, PacketSpeaks
<1> PICK m : m = Packet("frame", host.pending) /\ Speaks(m)
  BY <1>2
<1>3. CASE host' = Idle /\ ((dev' = Handled(m) /\ UNCHANGED late) \/ (late' = m /\ UNCHANGED dev))
  BY <1>1, <1>3, TransferFails
<1>4. CASE Accepts(m) /\ dev' = Handled(m) /\ host' = Sent /\ UNCHANGED late
  <2>1. /\ Here /\ DeviceOk' /\ dev'.owner = dev.owner /\ dev'.counter = dev.counter
        /\ dev'.session = dev.session /\ dev'.nonce = dev.nonce
        /\ dev'.state = "CONNECTED" /\ dev'.recvSeq = host.sendSeq + 1
        /\ dev'.tx = dev.tx /\ dev'.sendSeq = dev.sendSeq
    BY <1>1, <1>4, FrameAccepted
  <2>2. /\ ClientOk /\ PairedOk /\ SyncOk /\ host \in Clients /\ host.sendSeq # LastSeq
        /\ host.sendSeq + 1 \in 1..LastSeq /\ "none" \in Calls
    BY <1>1, ClientFields, Numbers DEF ChannelInv, ClientOk, Calls
  <2>3. /\ host' \in Clients /\ host'.session = host.session /\ host'.nonce = host.nonce
        /\ host'.pending = NoFrame /\ host'.received = host.received
        /\ host'.sendSeq = host.sendSeq + 1 /\ host'.recvSeq = host.recvSeq
        /\ host'.call = "none" /\ host'.drawn = host.drawn
    BY <1>4, <2>2 DEF Sent, Clients
  <2>4. ClientOk'
    BY <2>2, <2>3 DEF ClientOk
  <2>5. LateOk'
    BY <1>1, <1>4 DEF LateOk
  <2>6. PairedOk'
    BY <2>1, <2>2, <2>3 DEF PairedOk, Paired, Waiting
  <2>7. SyncOk'
    BY <2>1, <2>2, <2>3 DEF SyncOk
  <2> QED BY <2>1, <2>4, <2>5, <2>6, <2>7 DEF ChannelInv
<1>5. Transfer("write", m, Sent)
  BY <1>1
<1>6. \/ Accepts(m) /\ dev' = Handled(m) /\ host' = Sent /\ UNCHANGED late
      \/ host' = Idle /\ ((dev' = Handled(m) /\ UNCHANGED late) \/ (late' = m /\ UNCHANGED dev))
  BY <1>5 DEF Transfer
<1> QED BY <1>3, <1>4, <1>6

\* The client takes up a session before the user lets it in: nothing was said.
LEMMA AttachInv == ASSUME ChannelInv, Attach PROVE ChannelInv'
<1>1. /\ host.nonce = 0 /\ host.drawn < MaxNonce /\ dev.state = "WAIT_HOST"
      /\ dev.owner = Wanted /\ UNCHANGED <<dev, late>> /\ late = None
      /\ host' = [NewClient EXCEPT !.session = dev.session, !.nonce = host.drawn + 1,
                                   !.drawn = @ + 1, !.call = "attach"]
  BY DEF Attach, Ready
<1>2. /\ DeviceOk /\ ClientOk /\ PairedOk /\ dev.session = dev.counter /\ dev.session # 0
      /\ dev.session \in 0..MaxSession /\ dev.nonce = 0
  BY <1>1, DeviceFields DEF ChannelInv, DeviceOk, Active
<1>3. host.drawn \in Nat /\ host.drawn + 1 \in 0..MaxNonce /\ host.drawn + 1 # 0
  BY <1>1, <1>2, ClientFields, Numbers
<1>4. /\ host' \in Clients /\ host'.session = dev.session /\ host'.nonce = host.drawn + 1
      /\ host'.drawn = host.drawn + 1 /\ host'.pending = NoFrame
      /\ host'.received = NoFrame /\ host'.sendSeq = 1 /\ host'.recvSeq = 1
      /\ host'.call = "attach"
  <2>1. 1 \in 1..LastSeq /\ "attach" \in Calls
    BY Numbers DEF Calls
  <2> QED BY <1>1, <1>2, <1>3, <2>1 DEF NewClient, Clients
<1>5. DeviceOk'
  BY <1>1, <1>2 DEF DeviceOk, Active
<1>6. ClientOk'
  BY <1>2, <1>3, <1>4 DEF ClientOk
<1>7. LateOk' /\ SyncOk'
  BY <1>1, <1>2 DEF LateOk, SyncOk, Here, Bound
<1>8. PairedOk'
  <2>1. dev'.nonce <= host'.drawn /\ host'.session <= dev'.counter
    BY <1>1, <1>2, <1>3, <1>4
  <2> QED BY <1>1, <1>4, <2>1 DEF PairedOk
<1> QED BY <1>5, <1>6, <1>7, <1>8 DEF ChannelInv

\* The calls that only begin, or give up.
LEMMA CallsInv ==
  ASSUME ChannelInv, RetryAttach \/ FlushFails \/ Receive \/ Acknowledge \/ Close
  PROVE  ChannelInv'
<1>1. {"none", "attach", "read", "ack", "close"} \subseteq Calls
  BY DEF Calls
<1>2. CASE RetryAttach
  BY <1>1, <1>2, AloneStep DEF RetryAttach, Ready
<1>3. CASE FlushFails
  BY <1>1, <1>3, AloneStep, InCall DEF FlushFails, Idle
<1>4. CASE Receive
  BY <1>1, <1>4, AloneStep DEF Receive, Ready, Bound
<1>5. CASE Acknowledge
  BY <1>1, <1>5, AloneStep DEF Acknowledge, Ready, Bound
<1>6. CASE Close
  BY <1>1, <1>6, AloneStep DEF Close, Ready, Bound
<1> QED BY <1>2, <1>3, <1>4, <1>5, <1>6

\* Nothing changes for the calculator, and the client is told so.
LEMMA HostStep ==
  ASSUME ChannelInv, ClientOk', UNCHANGED dev, late' = None, host.nonce # 0,
         host'.nonce = host.nonce, host'.session = host.session,
         host'.drawn = host.drawn, SyncOk', ~(Paired /\ Waiting)
  PROVE  ChannelInv'
<1>1. DeviceOk' /\ LateOk'
  BY DEF ChannelInv, DeviceOk, Active, LateOk
<1>2. PairedOk'
  BY DEF ChannelInv, PairedOk, Paired, Waiting
<1> QED BY <1>1, <1>2 DEF ChannelInv

LEMMA SendInv == ASSUME ChannelInv, NEW d \in Data, Send(d) PROVE ChannelInv'
<1> DEFINE f == [seq |-> host.sendSeq, data |-> d]
<1>1. /\ Here /\ host.pending = NoFrame /\ dev.recvSeq = host.sendSeq
      /\ host.sendSeq # LastSeq /\ UNCHANGED <<dev, late>> /\ late = None
      /\ host' = [host EXCEPT !.pending = f, !.call = "flush"]
  BY DEF Send, Ready, Here
<1>2. ClientOk /\ SyncOk /\ host \in Clients /\ f \in Frames /\ f.seq = host.sendSeq
      /\ f # NoFrame /\ "flush" \in Calls
  BY ClientFields, FrameFacts DEF ChannelInv, ClientOk, Calls
<1> HIDE DEF f
<1>3. /\ host' \in Clients /\ host'.session = host.session /\ host'.nonce = host.nonce
      /\ host'.pending = f /\ host'.received = host.received
      /\ host'.sendSeq = host.sendSeq /\ host'.recvSeq = host.recvSeq
      /\ host'.call = "flush" /\ host'.drawn = host.drawn
  BY <1>1, <1>2 DEF Clients
<1>4. host.nonce # 0 /\ dev.state = "CONNECTED"
  BY <1>1 DEF Here, Bound
<1>5. ClientOk'
  BY <1>1, <1>2, <1>3, <1>4 DEF ClientOk
<1>6. SyncOk'
  BY <1>1, <1>2, <1>3 DEF SyncOk
<1> QED BY <1>1, <1>3, <1>4, <1>5, <1>6, HostStep DEF Waiting

LEMMA FlushInv == ASSUME ChannelInv, Flush PROVE ChannelInv'
<1>1. /\ Here /\ host.pending # NoFrame /\ UNCHANGED <<dev, late>> /\ late = None
      /\ host.nonce # 0 /\ dev.state = "CONNECTED"
  BY DEF Flush, Here, Bound
<1>2. CASE host' = [host EXCEPT !.call = "write"] \/ host' = Idle
  <2>1. "write" \in Calls /\ "none" \in Calls
    BY DEF Calls
  <2> QED BY <1>1, <1>2, <2>1, AloneStep DEF Idle
<1>3. CASE dev.recvSeq = host.sendSeq + 1 /\ host' = Sent
  <2>1. /\ ClientOk /\ SyncOk /\ host \in Clients /\ host.sendSeq # LastSeq
        /\ host.sendSeq + 1 \in 1..LastSeq /\ "none" \in Calls
    BY <1>1, ClientFields, Numbers DEF ChannelInv, ClientOk, Calls
  <2>2. /\ host' \in Clients /\ host'.session = host.session /\ host'.nonce = host.nonce
        /\ host'.pending = NoFrame /\ host'.received = host.received
        /\ host'.sendSeq = host.sendSeq + 1 /\ host'.recvSeq = host.recvSeq
        /\ host'.call = "none" /\ host'.drawn = host.drawn
    BY <1>3, <2>1 DEF Sent, Clients
  <2>3. ClientOk'
    BY <1>1, <2>1, <2>2 DEF ClientOk
  <2>4. SyncOk'
    BY <1>1, <1>3, <2>1, <2>2 DEF SyncOk
  <2> QED BY <1>1, <2>2, <2>3, <2>4, HostStep DEF Waiting
<1> QED BY <1>2, <1>3 DEF Flush

LEMMA ReadFrameInv == ASSUME ChannelInv, ReadFrame PROVE ChannelInv'
<1>1. /\ host.call = "read" /\ UNCHANGED <<dev, late>> /\ late = None
      /\ host.nonce # 0 /\ ClientOk /\ host \in Clients /\ "none" \in Calls
      /\ PairedOk /\ DeviceOk /\ SyncOk
  BY InCall DEF ReadFrame, ChannelInv, ClientOk, Calls
<1>2. CASE host' = Idle
  BY <1>1, <1>2, AloneStep DEF Idle
<1>3. CASE /\ dev.state = "CONNECTED" /\ host.session = dev.session /\ dev.tx # <<>>
           /\ host.nonce = dev.nonce /\ Head(dev.tx).seq = host.recvSeq
           /\ host' = [Idle EXCEPT !.received = Head(dev.tx)]
  <2>1. Here
    BY <1>1, <1>3 DEF PairedOk, Paired, Here, Bound, Same
  <2>2. Head(dev.tx) \in Frames /\ Head(dev.tx) = dev.tx[1] /\ Len(dev.tx) \in Nat \ {0}
    BY <1>1, <1>3, TailFrames, DeviceFields
  <2>3. /\ host' \in Clients /\ host'.session = host.session /\ host'.nonce = host.nonce
        /\ host'.pending = host.pending /\ host'.received = Head(dev.tx)
        /\ host'.sendSeq = host.sendSeq /\ host'.recvSeq = host.recvSeq
        /\ host'.call = "none" /\ host'.drawn = host.drawn
    BY <1>1, <1>3, <2>2 DEF Idle, Clients
  <2>4. ClientOk'
    BY <1>1, <1>3, <2>3 DEF ClientOk
  <2>5. host.recvSeq + Len(dev.tx) = dev.sendSeq
    <3>1. dev.tx[1].seq = dev.ack + 1 /\ dev.ack + Len(dev.tx) + 1 = dev.sendSeq
      BY <1>1, <1>3, <2>2 DEF DeviceOk
    <3>2. host.recvSeq = dev.ack + 1 /\ dev.ack \in Nat
      BY <1>1, <1>3, <2>2, <3>1, DeviceFields
    <3> QED BY <2>2, <3>1, <3>2
  <2>6. SyncOk'
    BY <1>1, <1>3, <2>1, <2>3, <2>5 DEF SyncOk
  <2> QED BY <1>1, <1>3, <2>3, <2>4, <2>6, HostStep DEF Waiting
<1> QED BY <1>2, <1>3 DEF ReadFrame

\* An acknowledgement that was accepted took the message off, or had before.
LEMMA AckAccepted ==
  ASSUME ChannelInv, host.call = "ack", NEW m, Speaks(m),
         m = Packet("ack", host.received), Accepts(m), dev' = Handled(m)
  PROVE  /\ Here /\ DeviceOk'
         /\ dev'.owner = dev.owner /\ dev'.counter = dev.counter
         /\ dev'.session = dev.session /\ dev'.nonce = dev.nonce
         /\ dev'.state = "CONNECTED" /\ dev'.recvSeq = dev.recvSeq
         /\ dev'.sendSeq = dev.sendSeq /\ dev'.ack = host.recvSeq /\ dev'.rx = dev.rx
         /\ \/ dev' = dev /\ dev.ack = host.recvSeq
            \/ AtFront(host.received) /\ dev'.tx = Tail(dev.tx)
<1>1. /\ m.cmd = "ack" /\ m.frame = host.received /\ m.session = host.session
      /\ m.nonce = host.nonce /\ m \in Messages
  BY PacketFields DEF Speaks
<1>2. /\ Matches(m) /\ (m.frame.seq = dev.ack \/ AtFront(m.frame))
      /\ dev' = Acknowledged(m)
  BY <1>1, HandledIs, AcceptsIs
<1>3. /\ host.nonce # 0 /\ host.received # NoFrame /\ m.frame \in Frames
      /\ host.received.seq = host.recvSeq /\ DeviceOk /\ ClientOk /\ PairedOk /\ SyncOk
  BY <1>1, InCall DEF ChannelInv, ClientOk, Speaks
<1>4. Here /\ dev.state = "CONNECTED"
  BY <1>1, <1>2, <1>3 DEF Matches, Here, Bound, Same, PairedOk, Paired
<1>5. CASE m.frame.seq = dev.ack
  <2>1. dev' = dev
    BY <1>2, <1>5 DEF Acknowledged
  <2> QED BY <1>1, <1>3, <1>4, <1>5, <2>1 DEF DeviceOk, Active
<1>6. CASE m.frame.seq # dev.ack /\ AtFront(m.frame)
  <2>1. dev' = [dev EXCEPT !.tx = Tail(@), !.ack = m.frame.seq]
    BY <1>2, <1>6 DEF Acknowledged
  <2>2. dev'.ack = m.frame.seq
    BY <1>3, <2>1 DEF DeviceOk, Devices
  <2>3. dev' # dev
    BY <1>6, <2>2
  <2> QED BY <1>1, <1>2, <1>3, <1>4, <1>6, <2>2, <2>3, AcknowledgedOk
<1> QED BY <1>2, <1>5, <1>6

LEMMA WriteAckInv == ASSUME ChannelInv, WriteAck PROVE ChannelInv'
<1>1. /\ host.call = "ack" /\ Transfer("ack", Packet("ack", host.received), Acked)
      /\ host.received # NoFrame /\ host.nonce # 0 /\ late = None
  BY InCall DEF WriteAck, Transfer, ChannelInv, ClientOk
<1>2. Speaks(Packet("ack", host.received))
  BY <1>1, PacketSpeaks
<1> PICK m : m = Packet("ack", host.received) /\ Speaks(m)
  BY <1>2
<1>3. CASE host' = Idle /\ ((dev' = Handled(m) /\ UNCHANGED late) \/ (late' = m /\ UNCHANGED dev))
  BY <1>1, <1>3, TransferFails
<1>4. CASE Accepts(m) /\ dev' = Handled(m) /\ host' = Acked /\ UNCHANGED late
  <2>1. /\ Here /\ DeviceOk' /\ dev'.owner = dev.owner /\ dev'.counter = dev.counter
        /\ dev'.session = dev.session /\ dev'.nonce = dev.nonce
        /\ dev'.state = "CONNECTED" /\ dev'.recvSeq = dev.recvSeq
        /\ dev'.sendSeq = dev.sendSeq /\ dev'.ack = host.recvSeq
    BY <1>1, <1>4, AckAccepted
  <2>2. /\ ClientOk /\ PairedOk /\ SyncOk /\ host \in Clients /\ "none" \in Calls
        /\ host.recvSeq \in 1..LastSeq
    BY ClientFields DEF ChannelInv, ClientOk, Calls
  <2>3. /\ host.recvSeq + Len(dev'.tx) + 1 = dev'.sendSeq
        /\ Len(dev'.tx) \in Nat /\ dev'.sendSeq \in 0..LastSeq
    BY <2>1 DEF DeviceOk, Devices
  <2>4. host.recvSeq + 1 \in 1..LastSeq /\ host.recvSeq + 1 + Len(dev'.tx) = dev'.sendSeq
    <3> PICK n \in Nat : n = Len(dev'.tx)
      BY <2>3
    <3> QED BY <2>2, <2>3, Numbers
  <2>5. /\ host' \in Clients /\ host'.session = host.session /\ host'.nonce = host.nonce
        /\ host'.pending = host.pending /\ host'.received = NoFrame
        /\ host'.sendSeq = host.sendSeq /\ host'.recvSeq = host.recvSeq + 1
        /\ host'.call = "none" /\ host'.drawn = host.drawn
    BY <1>4, <2>2, <2>4 DEF Acked, Clients
  <2>6. ClientOk'
    BY <1>1, <2>2, <2>5 DEF ClientOk
  <2>7. LateOk'
    BY <1>1, <1>4 DEF LateOk
  <2>8. PairedOk'
    BY <2>1, <2>2, <2>5 DEF PairedOk, Paired, Waiting
  <2>9. SyncOk'
    BY <2>1, <2>2, <2>4, <2>5 DEF SyncOk
  <2> QED BY <2>1, <2>6, <2>7, <2>8, <2>9 DEF ChannelInv
<1>5. Transfer("ack", m, Acked)
  BY <1>1
<1>6. \/ Accepts(m) /\ dev' = Handled(m) /\ host' = Acked /\ UNCHANGED late
      \/ host' = Idle /\ ((dev' = Handled(m) /\ UNCHANGED late) \/ (late' = m /\ UNCHANGED dev))
  BY <1>5 DEF Transfer
<1> QED BY <1>3, <1>4, <1>6

\* A client that is gone leaves its last transfer behind, and no other.
LEMMA GoneStep ==
  ASSUME ChannelInv, DeviceOk', LateOk', host' \in Clients,
         host'.session = 0, host'.nonce = 0, host'.pending = NoFrame,
         host'.received = NoFrame, host'.call = "none", host'.drawn = host.drawn,
         dev'.nonce <= host.drawn
  PROVE  ChannelInv'
<1>1. ClientOk'
  BY DEF ClientOk
<1>2. PairedOk'
  BY DEF PairedOk, Paired, DeviceOk, Devices
<1>3. SyncOk'
  BY DEF SyncOk, Here, Bound
<1> QED BY <1>1, <1>2, <1>3 DEF ChannelInv

LEMMA WriteCloseInv == ASSUME ChannelInv, WriteClose PROVE ChannelInv'
<1>1. /\ host.call = "close" /\ Transfer("close", Packet("close", NoFrame), Closed)
      /\ host.nonce # 0 /\ late = None
  BY InCall DEF WriteClose, Transfer
<1>2. Speaks(Packet("close", NoFrame))
  BY <1>1, PacketSpeaks
<1> PICK m : m = Packet("close", NoFrame) /\ Speaks(m)
  BY <1>2
<1>3. CASE host' = Idle /\ ((dev' = Handled(m) /\ UNCHANGED late) \/ (late' = m /\ UNCHANGED dev))
  BY <1>1, <1>3, TransferFails
<1>4. CASE Accepts(m) /\ dev' = Handled(m) /\ host' = Closed /\ UNCHANGED late
  <2>1. DeviceOk' /\ dev'.nonce <= host.drawn
    BY <1>4, HandledStep DEF ChannelInv
  <2>2. /\ host' \in Clients /\ host'.session = 0 /\ host'.nonce = 0
        /\ host'.pending = NoFrame /\ host'.received = NoFrame
        /\ host'.call = "none" /\ host'.drawn = host.drawn
    <3>1. host \in Clients /\ "none" \in Calls /\ 0 \in 0..MaxSession /\ 0 \in 0..MaxNonce
      BY Numbers DEF ChannelInv, ClientOk, Calls
    <3> QED BY <1>4, <3>1 DEF Closed, Clients
  <2>3. LateOk'
    BY <1>1, <1>4 DEF LateOk
  <2> QED BY <2>1, <2>2, <2>3, GoneStep
<1>5. Transfer("close", m, Closed)
  BY <1>1
<1>6. \/ Accepts(m) /\ dev' = Handled(m) /\ host' = Closed /\ UNCHANGED late
      \/ host' = Idle /\ ((dev' = Handled(m) /\ UNCHANGED late) \/ (late' = m /\ UNCHANGED dev))
  BY <1>5 DEF Transfer
<1> QED BY <1>3, <1>4, <1>6

LEMMA NewClientFields ==
  ASSUME ClientOk
  PROVE  /\ NewClient \in Clients /\ NewClient.session = 0 /\ NewClient.nonce = 0
         /\ NewClient.pending = NoFrame /\ NewClient.received = NoFrame
         /\ NewClient.call = "none" /\ NewClient.drawn = host.drawn
<1>1. /\ 0 \in 0..MaxSession /\ 0 \in 0..MaxNonce /\ 1 \in 1..LastSeq
      /\ "none" \in Calls /\ host.drawn \in 0..MaxNonce
  BY Numbers, ClientFields DEF Calls
<1> QED BY <1>1 DEF NewClient, Clients

LEMMA HostExitsInv == ASSUME ChannelInv, HostExits PROVE ChannelInv'
<1>1. host.nonce # 0 /\ host' = NewClient /\ UNCHANGED <<dev, late>>
  BY DEF HostExits
<1>2. /\ host' \in Clients /\ host'.session = 0 /\ host'.nonce = 0
      /\ host'.pending = NoFrame /\ host'.received = NoFrame
      /\ host'.call = "none" /\ host'.drawn = host.drawn
  BY <1>1, NewClientFields DEF ChannelInv
<1>3. DeviceOk' /\ dev'.nonce <= host.drawn
  BY <1>1 DEF ChannelInv, DeviceOk, Active, PairedOk
<1>4. LateOk'
  <2> SUFFICES ASSUME late' # None PROVE Speaks(late)'
    BY <1>2 DEF LateOk
  <2>1. late' = late /\ Speaks(late)
    BY <1>1 DEF ChannelInv, LateOk
  <2> QED BY <1>1, <1>2, <2>1 DEF Speaks, Waiting
<1> QED BY <1>2, <1>3, <1>4, GoneStep

LEMMA ComputerInv == ASSUME ChannelInv, Computer PROVE ChannelInv'
BY AttachInv, CallsInv, SendInv, FlushInv, ReadFrameInv, WriteAttachInv,
   WriteFrameInv, WriteAckInv, WriteCloseInv, HostExitsInv DEF Computer

LEMMA ChannelInit == Init => ChannelInv
<1> SUFFICES ASSUME Init PROVE ChannelInv
  OBVIOUS
<1>1. /\ 0 \in 0..MaxSession /\ 0 \in 0..MaxNonce /\ 0 \in 0..LastSeq /\ 1 \in 1..LastSeq
      /\ "none" \in Calls /\ <<>> \in Seq(Frames) /\ "CLOSED" \in States
  BY Numbers DEF Calls, States
<1>2. dev \in Devices /\ dev.state = "CLOSED" /\ dev.tx = <<>> /\ dev.rx = <<>>
      /\ dev.last = NoFrame /\ dev.session = 0 /\ dev.nonce = 0 /\ dev.counter = 0
  BY <1>1 DEF Init, Devices
<1>3. /\ host \in Clients /\ host.session = 0 /\ host.nonce = 0 /\ host.drawn = 0
      /\ host.pending = NoFrame /\ host.received = NoFrame /\ host.call = "none"
  BY <1>1 DEF Init, Clients
<1>4. DeviceOk
  BY <1>2 DEF DeviceOk, Active
<1>5. ClientOk
  BY <1>3 DEF ClientOk
<1>6. LateOk /\ PairedOk /\ SyncOk
  BY <1>2, <1>3 DEF Init, LateOk, PairedOk, Paired, SyncOk, Here, Bound
<1> QED BY <1>4, <1>5, <1>6 DEF ChannelInv

LEMMA ChannelNext == ChannelInv /\ [Next]_vars => ChannelInv'
<1> SUFFICES ASSUME ChannelInv, [Next]_vars PROVE ChannelInv'
  OBVIOUS
<1>1. CASE UNCHANGED vars
  BY <1>1 DEF vars, ChannelInv, DeviceOk, Active, ClientOk, LateOk, Speaks, Waiting,
              PairedOk, Paired, SyncOk, Here, Bound, Same
<1> QED BY <1>1, CalculatorInv, ComputerInv DEF Next

(***************************************************************************)
(* What it gives                                                           *)
(***************************************************************************)
\* The invariant above holds through every failed and late transfer, reset,
\* refusal and restart.
THEOREM ChannelHolds == Spec => []ChannelInv
BY ChannelInit, ChannelNext, PTL DEF Spec

\* No queue of the session passes its slots, no sequence number the last one,
\* and the session, the client and a failed transfer keep their shapes.
THEOREM ChannelTyped == Spec => []TypeOK
<1>1. ChannelInv => TypeOK
  <2> SUFFICES ASSUME ChannelInv PROVE TypeOK
    OBVIOUS
  <2>1. DeviceOk /\ ClientOk /\ LateOk /\ PairedOk
    BY DEF ChannelInv
  <2>2. \A q \in {dev.tx, dev.rx} : q \in Seq(Frames) /\ Len(q) <= Queue
    <3>1. dev.tx \in Seq(Frames) /\ dev.rx \in Seq(Frames) /\ dev.state \in States
      BY <2>1, DeviceFields
    <3>2. CASE dev.tx = <<>> /\ dev.rx = <<>>
      <4>1. Len(<<>>) = 0 /\ 0 <= Queue
        BY Numbers
      <4> QED BY <3>1, <3>2, <4>1
    <3>3. CASE dev.state = "CONNECTED"
      BY <2>1, <3>1, <3>3 DEF DeviceOk
    <3> QED BY <2>1, <3>1, <3>2, <3>3 DEF DeviceOk, Active, States
  <2>3. dev.nonce \in 0..host.drawn /\ host.session \in 0..dev.counter
        /\ host.nonce \in 0..host.drawn
    BY <2>1, DeviceFields, ClientFields DEF PairedOk, ClientOk
  <2>4. late \in Messages \cup {None}
    BY <2>1 DEF LateOk, Speaks
  <2> QED BY <2>1, <2>2, <2>3, <2>4, DeviceFields, ClientFields
          DEF TypeOK, States, Calls, DeviceOk
<1> QED BY <1>1, ChannelHolds, PTL

\* A client that shares session and nonce with the calculator is paired with
\* the app it was started for, and its counters are at most the frame and the
\* message it holds away from the calculator's.
THEOREM PeersAgree == Spec => []PeerAgrees
<1>1. ChannelInv => PeerAgrees
  <2> SUFFICES ASSUME ChannelInv PROVE PeerAgrees
    OBVIOUS
  <2>1. PeerWanted
    BY DEF ChannelInv, PairedOk, Paired, PeerWanted
  <2>2. InSync
    BY DEF ChannelInv, SyncOk, InSync
  <2> QED BY <2>1, <2>2 DEF PeerAgrees
<1> QED BY <1>1, ChannelHolds, PTL

(***************************************************************************)
(* The promise: lemmas about what was said                                 *)
(***************************************************************************)
LEMMA SaidIs ==
  ASSUME NEW q \in Seq(Frames)
  PROVE  /\ Said(q) \in Seq(Data) /\ Len(Said(q)) = Len(q) /\ Len(q) \in Nat
         /\ \A i \in 1..Len(q) : Said(q)[i] = q[i].data
         /\ (Said(q) = <<>>) <=> (q = <<>>)
<1>1. /\ Len(q) \in Nat /\ DOMAIN q = 1..Len(q)
      /\ \A i \in 1..Len(q) : q[i] \in Frames /\ q[i].data \in Data
  BY LenProperties, ElementOfSeq, FrameFacts
<1>2. Said(q) = [i \in 1..Len(q) |-> q[i].data]
  BY <1>1 DEF Said
<1>3. Said(q) \in Seq(Data) /\ Len(Said(q)) = Len(q)
  BY <1>1, <1>2
<1>4. (Said(q) = <<>>) <=> (q = <<>>)
  BY <1>1, <1>3, EmptySeq
<1> QED BY <1>1, <1>2, <1>3, <1>4

LEMMA SaidAppend ==
  ASSUME NEW q \in Seq(Frames), NEW f \in Frames
  PROVE  /\ Said(Append(q, f)) = Append(Said(q), f.data)
         /\ Append(Said(q), f.data) = Said(q) \o <<f.data>>
<1>1. /\ Append(q, f) \in Seq(Frames) /\ Len(Append(q, f)) = Len(q) + 1
      /\ Len(q) \in Nat /\ f.data \in Data
      /\ \A i \in 1..Len(q) : Append(q, f)[i] = q[i]
      /\ Append(q, f)[Len(q) + 1] = f
  BY AppendFrames, FrameFacts
<1>2. /\ Said(q) \in Seq(Data) /\ Len(Said(q)) = Len(q)
      /\ \A i \in 1..Len(q) : Said(q)[i] = q[i].data
      /\ Said(Append(q, f)) \in Seq(Data) /\ Len(Said(Append(q, f))) = Len(q) + 1
      /\ \A i \in 1..(Len(q) + 1) : Said(Append(q, f))[i] = Append(q, f)[i].data
  BY <1>1, SaidIs
<1>3. /\ Append(Said(q), f.data) \in Seq(Data)
      /\ Len(Append(Said(q), f.data)) = Len(q) + 1
      /\ \A i \in 1..Len(q) : Append(Said(q), f.data)[i] = Said(q)[i]
      /\ Append(Said(q), f.data)[Len(q) + 1] = f.data
  BY <1>1, <1>2, AppendProperties
<1>4. \A i \in 1..(Len(q) + 1) : Said(Append(q, f))[i] = Append(Said(q), f.data)[i]
  <2> TAKE i \in 1..(Len(q) + 1)
  <2>1. CASE i \in 1..Len(q)
    BY <1>1, <1>2, <1>3, <2>1
  <2>2. CASE i = Len(q) + 1
    BY <1>1, <1>2, <1>3, <2>2
  <2>3. Len(q) \in Nat
    BY <1>1
  <2>4. i \in 1..Len(q) \/ i = Len(q) + 1
    BY <2>3
  <2> QED BY <2>1, <2>2, <2>4
<1>5. Said(Append(q, f)) = Append(Said(q), f.data)
  BY <1>2, <1>3, <1>4, SeqEqual
<1> QED BY <1>1, <1>2, <1>5, AppendIsConcat

LEMMA SaidTail ==
  ASSUME NEW q \in Seq(Frames), q # <<>>
  PROVE  Said(Tail(q)) = Tail(Said(q)) /\ Said(q) # <<>>
<1>1. /\ Tail(q) \in Seq(Frames) /\ Len(Tail(q)) + 1 = Len(q) /\ Len(Tail(q)) \in Nat
      /\ \A i \in 1..Len(Tail(q)) : Tail(q)[i] = q[i + 1]
  BY TailFrames, LenProperties
<1>2. /\ Said(q) \in Seq(Data) /\ Len(Said(q)) = Len(q) /\ Said(q) # <<>>
      /\ \A i \in 1..Len(q) : Said(q)[i] = q[i].data
      /\ Said(Tail(q)) \in Seq(Data) /\ Len(Said(Tail(q))) = Len(Tail(q))
      /\ \A i \in 1..Len(Tail(q)) : Said(Tail(q))[i] = Tail(q)[i].data
  BY <1>1, SaidIs
<1>3. /\ Tail(Said(q)) \in Seq(Data) /\ Len(Tail(Said(q))) = Len(Said(q)) - 1
      /\ \A i \in 1..Len(Tail(Said(q))) : Tail(Said(q))[i] = Said(q)[i + 1]
  BY <1>2, HeadTailProperties
<1>4. Len(Tail(Said(q))) = Len(Tail(q))
  BY <1>1, <1>2, <1>3
<1>5. \A i \in 1..Len(Tail(q)) : Said(Tail(q))[i] = Tail(Said(q))[i]
  <2> TAKE i \in 1..Len(Tail(q))
  <2>1. i + 1 \in 1..Len(q)
    BY <1>1
  <2> QED BY <1>1, <1>2, <1>3, <1>4, <2>1
<1> QED BY <1>2, <1>3, <1>4, <1>5, SeqEqual

\* The last thing said, or the first, taken back.
LEMMA FrontOfOneMore ==
  ASSUME NEW s \in Seq(Data), NEW d \in Data
  PROVE  Front(Append(s, d)) = s /\ Append(s, d) # <<>>
<1>1. /\ Append(s, d) \in Seq(Data) /\ Append(s, d) # <<>>
      /\ Len(Append(s, d)) = Len(s) + 1 /\ Len(s) \in Nat
      /\ \A i \in 1..Len(s) : Append(s, d)[i] = s[i] /\ s[i] \in Data
  BY AppendProperties, LenProperties, ElementOfSeq
<1>2. Front(Append(s, d)) = SubSeq(Append(s, d), 1, Len(s))
  BY <1>1 DEF Front
<1>3. /\ SubSeq(Append(s, d), 1, Len(s)) \in Seq(Data)
      /\ Len(SubSeq(Append(s, d), 1, Len(s))) = Len(s)
      /\ \A i \in 1..Len(s) : SubSeq(Append(s, d), 1, Len(s))[i] = s[i]
  <2>1. \A i \in 1..Len(s) : Append(s, d)[i] \in Data
    BY <1>1
  <2>2. /\ SubSeq(Append(s, d), 1, Len(s)) \in Seq(Data)
        /\ Len(SubSeq(Append(s, d), 1, Len(s))) = IF 1 <= Len(s) THEN Len(s) - 1 + 1 ELSE 0
        /\ \A i \in 1..(Len(s) - 1 + 1) : SubSeq(Append(s, d), 1, Len(s))[i] = Append(s, d)[1 + i - 1]
    BY <1>1, <2>1, SubSeqProperties
  <2> QED BY <1>1, <2>2
<1> QED BY <1>1, <1>2, <1>3, SeqEqual

(***************************************************************************)
(* The promise: what a step of the channel is to the two ends              *)
(***************************************************************************)
Doubt == ~Here /\ Unsettled

Kept == Promise!PromiseNext \/ UNCHANGED Promise!promise

LEMMA Promised ==
  /\ Here' = Here /\ Doubt' = Doubt /\ Up' = Up /\ Down' = Down => Kept
  /\ ~Here /\ ~Doubt /\ Up = <<>> /\ Here' /\ ~Doubt' /\ Up' = <<>> /\ Down' = Down => Kept
  /\ \A d \in Data :
       Here /\ Here' /\ Doubt' = Doubt /\ Up' = Append(Up, d) /\ Down' = Down => Kept
  /\ \A d \in Data :
       Here /\ Here' /\ Doubt' = Doubt /\ Up' = Up /\ Down' = Append(Down, d) => Kept
  /\ Here' = Here /\ Doubt' = Doubt /\ Up # <<>> /\ Up' = Tail(Up) /\ Down' = Down => Kept
  /\ Here /\ Here' /\ Doubt' = Doubt /\ Up' = Up /\ Down # <<>> /\ Down' = Tail(Down) => Kept
  /\ Here /\ ~Here' /\ Up' = Up /\ Down' = <<>> => Kept
  /\ Here /\ ~Here' /\ ~Doubt' /\ Up # <<>> /\ Up' = Front(Up) /\ Down' = <<>> => Kept
  /\ Here' = Here /\ Doubt /\ ~Doubt' /\ Up' = Up /\ Down' = Down => Kept
  /\ /\ Here' = Here /\ Doubt /\ ~Doubt' /\ Up # <<>> /\ Up' = Front(Up) /\ Down' = Down
     => Kept
  /\ ~Here' /\ ~Doubt' /\ Up' = <<>> /\ Down' = <<>> => Kept
<1>1. Here \in BOOLEAN /\ Here' \in BOOLEAN /\ Doubt \in BOOLEAN /\ Doubt' \in BOOLEAN
  BY DEF Here, Bound, Same, Doubt
<1> USE DEF Kept, Promise!PromiseNext, Promise!promise
<1>2. Here' = Here /\ Doubt' = Doubt /\ Up' = Up /\ Down' = Down => Kept
  BY DEF Doubt
<1>3. ~Here /\ ~Doubt /\ Up = <<>> /\ Here' /\ ~Doubt' /\ Up' = <<>> /\ Down' = Down => Kept
  BY DEF Doubt, Promise!LetIn
<1>4. \A d \in Data :
        Here /\ Here' /\ Doubt' = Doubt /\ Up' = Append(Up, d) /\ Down' = Down => Kept
  BY DEF Doubt, Promise!HostSays
<1>5. \A d \in Data :
        Here /\ Here' /\ Doubt' = Doubt /\ Up' = Up /\ Down' = Append(Down, d) => Kept
  BY DEF Doubt, Promise!AppSays
<1>6. Here' = Here /\ Doubt' = Doubt /\ Up # <<>> /\ Up' = Tail(Up) /\ Down' = Down => Kept
  BY DEF Doubt, Promise!AppHears
<1>7. Here /\ Here' /\ Doubt' = Doubt /\ Up' = Up /\ Down # <<>> /\ Down' = Tail(Down) => Kept
  BY DEF Doubt, Promise!HostHears
<1>8. Here /\ ~Here' /\ Up' = Up /\ Down' = <<>> => Kept
  BY <1>1 DEF Doubt, Promise!HostLeaves
<1>9. Here /\ ~Here' /\ ~Doubt' /\ Up # <<>> /\ Up' = Front(Up) /\ Down' = <<>> => Kept
  BY <1>1 DEF Doubt, Promise!HostLeaves, Front, Promise!Front
<1>10. Here' = Here /\ Doubt /\ ~Doubt' /\ Up' = Up /\ Down' = Down => Kept
  BY DEF Doubt, Promise!Settle
<1>11. /\ Here' = Here /\ Doubt /\ ~Doubt' /\ Up # <<>> /\ Up' = Front(Up) /\ Down' = Down
       => Kept
  BY DEF Doubt, Promise!Settle, Front, Promise!Front
<1>12. ~Here' /\ ~Doubt' /\ Up' = <<>> /\ Down' = <<>> => Kept
  BY <1>1 DEF Doubt, Promise!End
<1> QED BY <1>2, <1>3, <1>4, <1>5, <1>6, <1>7, <1>8, <1>9, <1>10, <1>11, <1>12

\* Out of a connected session both directions are empty, and so is any step
\* to there.
LEMMA Ended ==
  ASSUME DeviceOk', dev'.state # "CONNECTED" PROVE Kept
<1>1. dev'.tx = <<>> /\ dev'.rx = <<>>
  BY DEF DeviceOk, Devices, Active, States
<1>2. ~Here' /\ ~Unsettled'
  BY DEF Here, Bound, Unsettled, Outstanding, Matches
<1>3. Said(<<>>) = <<>>
  BY SaidIs, EmptySeq
<1>4. Up' = <<>> /\ Down' = <<>>
  BY <1>1, <1>2, <1>3 DEF Up, Down
<1> QED BY <1>2, <1>4, Promised DEF Doubt

LEMMA EmptyBefore ==
  ASSUME DeviceOk, dev.state # "CONNECTED"
  PROVE  ~Here /\ ~Doubt /\ Up = <<>> /\ Down = <<>>
<1>1. dev.tx = <<>> /\ dev.rx = <<>>
  BY DEF DeviceOk, Devices, Active, States
<1>2. ~Here /\ ~Unsettled
  BY DEF Here, Bound, Unsettled, Outstanding, Matches
<1>3. Said(<<>>) = <<>>
  BY SaidIs, EmptySeq
<1> QED BY <1>1, <1>2, <1>3 DEF Up, Down, Doubt

\* While a client is attached, its own frame is the only one in question.
LEMMA ClientOutstanding ==
  ASSUME LateOk, PairedOk, host.nonce # 0
  PROVE  Outstanding = IF Here THEN host.pending ELSE NoFrame
BY DEF LateOk, Speaks, PairedOk, Paired, Outstanding, Matches, Here, Bound, Same

LEMMA ClientOutstandingNext ==
  ASSUME LateOk', PairedOk', host'.nonce # 0
  PROVE  Outstanding' = IF Here' THEN host'.pending ELSE NoFrame
BY DEF LateOk, Speaks, PairedOk, Paired, Outstanding, Matches, Here, Bound, Same

\* What is on its way to the app: the queue, and the frame in question.
LEMMA UpIs ==
  ASSUME ChannelInv
  PROVE  /\ Said(dev.rx) \in Seq(Data) /\ Up \in Seq(Data)
         /\ ~Unsettled => Up = Said(dev.rx)
         /\ Unsettled => /\ Outstanding \in Frames
                         /\ Up = Append(Said(dev.rx), Outstanding.data)
                         /\ Up # <<>> /\ Front(Up) = Said(dev.rx)
<1>1. dev.rx \in Seq(Frames) /\ Said(dev.rx) \in Seq(Data)
  BY DeviceFields, SaidIs DEF ChannelInv
<1>2. ~Unsettled => Up = Said(dev.rx)
  BY <1>1, ConcatEmptySeq DEF Up
<1>3. ASSUME Unsettled
      PROVE  /\ Outstanding \in Frames /\ Up = Append(Said(dev.rx), Outstanding.data)
             /\ Up # <<>> /\ Front(Up) = Said(dev.rx) /\ Up \in Seq(Data)
  <2>1. Outstanding \in Frames
    <3>1. host.pending \in Frames \cup {NoFrame}
      BY ClientFields DEF ChannelInv
    <3>2. late # None => late.frame \in Frames \cup {NoFrame}
      BY MessageFields DEF ChannelInv, LateOk, Speaks
    <3> QED BY <1>3, <3>1, <3>2 DEF Unsettled, Outstanding
  <2>2. Outstanding.data \in Data
    BY <2>1, FrameFacts
  <2>3. Up = Append(Said(dev.rx), Outstanding.data)
    BY <1>1, <1>3, <2>2, AppendIsConcat DEF Up
  <2> QED BY <1>1, <2>1, <2>2, <2>3, FrontOfOneMore, AppendProperties
<1> QED BY <1>1, <1>2, <1>3

\* Nothing that the two ends see changed.
LEMMA SameSeen ==
  ASSUME Here' = Here, Outstanding' = Outstanding,
         dev'.recvSeq = dev.recvSeq, dev'.rx = dev.rx, Down' = Down
  PROVE  Kept
<1>1. Unsettled' = Unsettled
  BY DEF Unsettled
<1>2. Up' = Up
  BY <1>1 DEF Up
<1> QED BY <1>1, <1>2, Promised DEF Doubt

\* The session is as it was, and the client holds what it held.
LEMMA CallKept ==
  ASSUME ChannelInv, ChannelInv', UNCHANGED dev, host.nonce # 0,
         host'.session = host.session, host'.nonce = host.nonce,
         host'.pending = host.pending, host'.received = host.received
  PROVE  Kept
<1>1. Here' = Here
  BY DEF Here, Bound, Same
<1>2. Outstanding' = Outstanding
  BY <1>1, ClientOutstanding, ClientOutstandingNext DEF ChannelInv
<1>3. Down' = Down
  BY <1>1 DEF Down, AtFront
<1> QED BY <1>1, <1>2, <1>3, SameSeen

\* A failed transfer is lost, or arrives and changes nothing.
LEMMA LateKept ==
  ASSUME ChannelInv, ChannelInv', UNCHANGED <<dev, host>>, late' = None
  PROVE  Kept
<1>1. Here' = Here /\ Down' = Down
  BY DEF Here, Bound, Same, Down, AtFront
<1>2. CASE Here
  <2>1. Outstanding' = Outstanding
    BY <1>1, <1>2 DEF Outstanding
  <2> QED BY <1>1, <2>1, SameSeen
<1>3. CASE ~Here
  <2>1. ~Unsettled'
    BY <1>1, <1>3 DEF Unsettled, Outstanding
  <2>2. Up' = Said(dev.rx)
    BY <2>1, UpIs, ConcatEmptySeq DEF Up
  <2>3. CASE Unsettled
    BY <1>1, <1>3, <2>1, <2>2, <2>3, UpIs, Promised DEF Doubt
  <2>4. CASE ~Unsettled
    BY <1>1, <1>3, <2>1, <2>2, <2>4, UpIs, Promised DEF Doubt
  <2> QED BY <2>3, <2>4
<1> QED BY <1>2, <1>3

(***************************************************************************)
(* The promise, action by action: the calculator                           *)
(***************************************************************************)
LEMMA AppReceiveKept == ASSUME ChannelInv, ChannelInv', AppReceive PROVE Kept
<1>1. /\ dev.state = "CONNECTED" /\ dev'.state = "CONNECTED"
      /\ dev.rx # <<>> /\ dev'.rx = Tail(dev.rx) /\ dev'.owner = dev.owner
      /\ dev'.session = dev.session /\ dev'.nonce = dev.nonce
      /\ dev'.recvSeq = dev.recvSeq /\ dev'.tx = dev.tx
      /\ UNCHANGED <<host, late>> /\ dev.rx \in Seq(Frames)
  BY AppReceiveOk, DeviceFields DEF ChannelInv, AppReceive
<1>2. Here' = Here /\ Down' = Down
  BY <1>1 DEF Here, Bound, Same, Down, AtFront
<1>3. Outstanding' = Outstanding /\ Unsettled' = Unsettled
  BY <1>1, <1>2 DEF Unsettled, Outstanding, Matches
<1>4. Said(dev'.rx) = Tail(Said(dev.rx)) /\ Said(dev.rx) # <<>> /\ Said(dev.rx) \in Seq(Data)
  BY <1>1, SaidTail, SaidIs
<1>5. Up # <<>> /\ Up' = Tail(Up)
  <2>1. CASE Unsettled
    <3>1. Up = Append(Said(dev.rx), Outstanding.data) /\ Up # <<>> /\ Outstanding.data \in Data
      BY <2>1, UpIs, FrameFacts
    <3>2. Tail(Up) = Append(Tail(Said(dev.rx)), Outstanding.data)
      BY <1>4, <3>1, HeadTailAppend
    <3>3. Up' = Tail(Said(dev.rx)) \o <<Outstanding.data>>
      BY <1>3, <1>4, <2>1 DEF Up
    <3>4. Tail(Said(dev.rx)) \in Seq(Data)
      BY <1>4, HeadTailProperties
    <3> QED BY <3>1, <3>2, <3>3, <3>4, AppendIsConcat
  <2>2. CASE ~Unsettled
    <3>1. Up = Said(dev.rx)
      BY <2>2, UpIs
    <3>2. Up' = Tail(Said(dev.rx)) \o <<>>
      BY <1>3, <1>4, <2>2 DEF Up
    <3>3. Tail(Said(dev.rx)) \in Seq(Data)
      BY <1>4, HeadTailProperties
    <3> QED BY <1>4, <3>1, <3>2, <3>3, ConcatEmptySeq
  <2> QED BY <2>1, <2>2
<1> QED BY <1>2, <1>3, <1>5, Promised DEF Doubt

LEMMA AllowKept == ASSUME ChannelInv, ChannelInv', Allow PROVE Kept
<1>1. /\ dev.state = "WAIT_USER" /\ Waiting /\ UNCHANGED <<host, late>>
      /\ dev'.owner = dev.owner /\ dev'.session = dev.session /\ dev'.nonce = dev.nonce
      /\ dev'.tx = <<>> /\ dev'.rx = <<>>
  BY AllowOk DEF ChannelInv, Allow, Waiting
<1>2. ~Here /\ ~Doubt /\ Up = <<>> /\ Down = <<>>
  BY <1>1, EmptyBefore DEF ChannelInv
<1>3. Outstanding' = NoFrame
  <2>1. CASE Here'
    <3>1. Paired
      BY <1>1, <2>1 DEF Paired, Here, Bound, Same
    <3> QED BY <1>1, <2>1, <3>1 DEF ChannelInv, PairedOk, Outstanding
  <2>2. CASE ~Here'
    BY <1>1, <2>2 DEF ChannelInv, LateOk, Speaks, Outstanding, Matches
  <2> QED BY <2>1, <2>2
<1>4. Said(<<>>) = <<>> /\ ~AtFront(host.received)'
  BY <1>1, SaidIs, EmptySeq DEF AtFront
<1>5. ~Unsettled' /\ Up' = <<>>
  BY <1>1, <1>3, <1>4 DEF Unsettled, Up
<1>6. Down' = <<>>
  BY <1>1, <1>4 DEF Down, AtFront
<1>7. CASE Here'
  BY <1>2, <1>5, <1>6, <1>7, Promised DEF Doubt
<1>8. CASE ~Here'
  BY <1>5, <1>6, <1>8, Promised DEF Doubt
<1> QED BY <1>7, <1>8

LEMMA AppSendKept ==
  ASSUME ChannelInv, ChannelInv', NEW d \in Data, AppSend(d) PROVE Kept
<1> DEFINE f == [seq |-> dev.sendSeq, data |-> d]
<1>1. CASE dev' = Finished
  BY <1>1, FinishOk, Ended DEF ChannelInv, Active
<1>2. CASE dev' # Finished
  <2>1. /\ dev.state = "CONNECTED" /\ dev'.state = "CONNECTED"
        /\ dev'.tx = Append(dev.tx, f) /\ f \in Frames /\ f.seq = dev.sendSeq /\ f.data = d
        /\ dev'.owner = dev.owner /\ dev'.session = dev.session
        /\ dev'.nonce = dev.nonce /\ dev'.rx = dev.rx /\ dev'.recvSeq = dev.recvSeq
        /\ UNCHANGED <<host, late>> /\ dev.tx \in Seq(Frames)
    BY <1>2, AppSendOk, DeviceFields DEF ChannelInv, AppSend
  <2> HIDE DEF f
  <2>2. Here' = Here
    BY <2>1 DEF Here, Bound, Same
  <2>3. Outstanding' = Outstanding
    BY <2>1, <2>2 DEF Outstanding, Matches
  <2>4. CASE ~Here
    BY <2>1, <2>2, <2>3, <2>4, SameSeen DEF Down
  <2>5. CASE Here
    <3>1. Doubt' = Doubt /\ Up' = Up
      BY <2>1, <2>2, <2>3 DEF Doubt, Unsettled, Up
    <3>2. Said(dev'.tx) = Append(Said(dev.tx), d)
      BY <2>1, SaidAppend
    <3>3. Down' = Append(Down, d)
      <4>1. CASE dev.tx # <<>>
        <5>1. /\ Head(dev'.tx) = Head(dev.tx) /\ dev'.tx # <<>>
              /\ Tail(dev'.tx) = Append(Tail(dev.tx), f) /\ Tail(dev.tx) \in Seq(Frames)
          <6>1. Tail(dev.tx) \in Seq(Frames)
            BY <2>1, <4>1, TailFrames
          <6>2. /\ Head(Append(dev.tx, f)) = Head(dev.tx)
                /\ Tail(Append(dev.tx, f)) = Append(Tail(dev.tx), f)
            BY <2>1, <4>1, HeadTailAppend
          <6> QED BY <2>1, <6>1, <6>2, AppendFrames
        <5>2. Said(Tail(dev'.tx)) = Append(Said(Tail(dev.tx)), d)
          BY <2>1, <5>1, SaidAppend
        <5>3. AtFront(host.received)' = AtFront(host.received)
          BY <2>1, <4>1, <5>1 DEF AtFront
        <5> QED BY <2>1, <2>2, <2>5, <3>2, <5>2, <5>3 DEF Down
      <4>2. CASE dev.tx = <<>>
        <5>1. ~AtFront(host.received)
          BY <4>2 DEF AtFront
        <5>2. Head(dev'.tx) = f
          BY <2>1, <4>2, HeadTailAppend
        <5>3. host.received # NoFrame => host.received.seq + 1 = dev.sendSeq
          <6>1. SyncOk /\ (host.received # NoFrame => host.received.seq = host.recvSeq)
            BY DEF ChannelInv, ClientOk
          <6>2. host.recvSeq \in Nat /\ Len(dev.tx) = 0
            BY <4>2, ClientFields DEF ChannelInv
          <6> QED BY <2>5, <4>2, <6>1, <6>2 DEF SyncOk
        <5>4. host.received # NoFrame => host.received.seq # dev.sendSeq
          <6>1. host.received # NoFrame => host.received.seq \in Nat
            BY ClientFields, FrameFacts DEF ChannelInv
          <6> QED BY <5>3, <6>1
        <5>5. host.received # NoFrame => ~AtFront(host.received)'
          BY <2>1, <5>2, <5>4 DEF AtFront
        <5> QED BY <2>1, <2>2, <2>5, <3>2, <5>1, <5>5 DEF Down
      <4> QED BY <4>1, <4>2
    <3> QED BY <2>2, <2>5, <3>1, <3>3, Promised
  <2> QED BY <2>4, <2>5
<1> QED BY <1>1, <1>2

\* A frame that arrives moves from the client to the queue; what was said stays.
LEMMA FrameMoves ==
  ASSUME ChannelInv, Unsettled, NEW f \in Frames, Outstanding = f,
         dev'.rx = Append(dev.rx, f), ~Unsettled'
  PROVE  Up' = Up
<1>1. Up = Append(Said(dev.rx), f.data)
  BY UpIs
<1>2. dev.rx \in Seq(Frames) /\ Said(dev'.rx) = Append(Said(dev.rx), f.data)
      /\ Append(dev.rx, f) \in Seq(Frames)
  <2>1. dev.rx \in Seq(Frames)
    BY DeviceFields DEF ChannelInv
  <2>2. Said(Append(dev.rx, f)) = Append(Said(dev.rx), f.data)
    BY <2>1, SaidAppend
  <2>3. Append(dev.rx, f) \in Seq(Frames)
    BY <2>1, AppendFrames
  <2> QED BY <2>1, <2>2, <2>3
<1>3. Said(dev'.rx) \in Seq(Data)
  BY <1>2, SaidIs
<1>4. Up' = Said(dev'.rx) \o <<>>
  BY DEF Up
<1> QED BY <1>1, <1>2, <1>3, <1>4, ConcatEmptySeq

\* A message that is taken off the queue had been read.
LEMMA MessageLeaves ==
  ASSUME ChannelInv, DeviceOk', Here, Here', host.received # NoFrame,
         AtFront(host.received), dev'.tx = Tail(dev.tx), dev'.ack = host.received.seq,
         host'.received \in {host.received, NoFrame}
  PROVE  Down' = Down
<1>1. Down = Said(dev'.tx)
  BY DEF Down
<1>2. ~AtFront(host.received)'
  <2> SUFFICES ASSUME dev'.tx # <<>>, host'.received.seq = Head(dev'.tx).seq,
                      host'.received = host.received
               PROVE  FALSE
    <3>1. NoFrame.seq = 0
      BY DEF NoFrame
    <3>2. ASSUME host'.received = NoFrame, dev'.tx # <<>> PROVE Head(dev'.tx).seq # 0
      <4>1. dev'.tx \in Seq(Frames)
        BY DEF DeviceOk, Devices
      <4>2. Head(dev'.tx) \in Frames
        BY <3>2, <4>1, TailFrames
      <4>3. PICK s \in 1..LastSeq : s = Head(dev'.tx).seq
        BY <4>2, FrameFacts
      <4>4. s # 0
        BY ONLY s \in 1..LastSeq, Numbers
      <4> QED BY ONLY <4>3, <4>4
    <3> QED BY <3>1, <3>2 DEF AtFront
  <2>1. /\ Head(dev'.tx) = dev'.tx[1] /\ Len(dev'.tx) \in Nat \ {0} /\ dev'.ack \in Nat
        /\ dev'.state = "CONNECTED"
    <3>1. dev'.tx \in Seq(Frames) /\ dev'.ack \in 0..LastSeq
      BY DEF DeviceOk, Devices
    <3>2. dev'.state = "CONNECTED"
      BY DEF Here, Bound
    <3>3. Head(dev'.tx) = dev'.tx[1] /\ Len(dev'.tx) \in Nat \ {0}
      BY <3>1, TailFrames
    <3>4. dev'.ack \in Nat
      BY <3>1, Numbers
    <3> QED BY <3>2, <3>3, <3>4
  <2>2. dev'.tx[1].seq = dev'.ack + 1
    BY <2>1 DEF DeviceOk
  <2> QED BY <2>1, <2>2
<1> QED BY <1>1, <1>2 DEF Down

LEMMA LateArrivesKept == ASSUME ChannelInv, ChannelInv', LateArrives PROVE Kept
<1> PICK m : m = late
  OBVIOUS
<1>1. /\ dev' = Handled(m) /\ late' = None /\ UNCHANGED host /\ late # None
      /\ DeviceOk /\ ClientOk /\ PairedOk /\ SyncOk /\ Speaks(m) /\ m \in Messages
      /\ DeviceOk'
  BY DEF LateArrives, ChannelInv, LateOk, Speaks
<1>2. CASE dev'.state # "CONNECTED"
  BY <1>1, <1>2, Ended
<1>3. CASE dev' = dev
  BY <1>1, <1>3, LateKept
<1>4. CASE dev'.state = "CONNECTED" /\ dev' # dev /\ m.cmd = "frame"
  <2>1. dev' = Received(m) /\ m.frame \in Frames
    BY <1>1, <1>4, HandledIs DEF Speaks
  <2>2. dev' # Finished
    BY <1>1, <1>4, FinishedFields
  <2>3. /\ Matches(m) /\ Expected(m.frame)
        /\ dev'.rx = Append(dev.rx, m.frame) /\ dev'.recvSeq = dev.recvSeq + 1
        /\ dev'.owner = dev.owner /\ dev'.session = dev.session
        /\ dev'.nonce = dev.nonce /\ dev'.tx = dev.tx
    BY <1>1, <1>4, <2>1, <2>2, ReceivedOk
  <2>4. m.frame.seq = dev.recvSeq /\ dev.state = "CONNECTED" /\ dev.recvSeq \in Nat
        /\ m.frame # NoFrame
    BY <1>1, <2>1, <2>3, DeviceFields, FrameFacts DEF Expected, Matches
  <2>5. Here' = Here /\ Down' = Down
    BY <1>1, <1>4, <2>3, <2>4 DEF Here, Bound, Same, Down, AtFront
  <2>6. CASE Here
    <3>1. host.pending = m.frame
      BY <1>1, <1>4, <2>6 DEF Speaks, Here, Bound
    <3>2. Outstanding = m.frame /\ Outstanding' = m.frame
      BY <1>1, <2>5, <2>6, <3>1 DEF Outstanding
    <3>3. Unsettled /\ ~Unsettled'
      BY <2>3, <2>4, <3>2 DEF Unsettled
    <3>4. Up' = Up
      BY <2>1, <2>3, <3>2, <3>3, FrameMoves
    <3> QED BY <2>5, <2>6, <3>4, Promised DEF Doubt
  <2>7. CASE ~Here
    <3>1. Outstanding = m.frame
      BY <1>1, <1>4, <2>3, <2>7 DEF Outstanding
    <3>2. Unsettled
      BY <2>3, <2>4, <3>1 DEF Unsettled
    <3>3. ~Unsettled'
      BY <1>1, <2>5, <2>7 DEF Unsettled, Outstanding
    <3>4. Up' = Up
      BY <2>1, <2>3, <3>1, <3>2, <3>3, FrameMoves
    <3> QED BY <2>5, <2>7, <3>2, <3>3, <3>4, Promised DEF Doubt
  <2> QED BY <2>6, <2>7
<1>5. CASE dev'.state = "CONNECTED" /\ dev' # dev /\ m.cmd = "ack"
  <2>1. dev' = Acknowledged(m) /\ m.frame \in Frames
    BY <1>1, <1>5, HandledIs DEF Speaks
  <2>2. /\ Matches(m) /\ AtFront(m.frame)
        /\ dev'.tx = Tail(dev.tx) /\ dev'.ack = m.frame.seq
        /\ dev'.owner = dev.owner /\ dev'.session = dev.session
        /\ dev'.nonce = dev.nonce /\ dev'.rx = dev.rx /\ dev'.recvSeq = dev.recvSeq
    BY <1>1, <1>5, <2>1, AcknowledgedOk
  <2>3. dev.state = "CONNECTED" /\ m.frame # NoFrame
    BY <2>1, <2>2, FrameFacts DEF Matches
  <2>4. Here' = Here
    BY <1>1, <1>5, <2>2, <2>3 DEF Here, Bound, Same
  <2>5. Outstanding' = Outstanding
    BY <1>1, <1>5, <2>4 DEF Outstanding
  <2>6. Down' = Down
    <3>1. CASE Here
      <4>1. host.received = m.frame
        BY <1>1, <1>5, <3>1 DEF Speaks, Here, Bound
      <4> QED BY <1>1, <2>2, <2>3, <2>4, <3>1, <4>1, MessageLeaves
    <3>2. CASE ~Here
      BY <2>4, <3>2 DEF Down
    <3> QED BY <3>1, <3>2
  <2> QED BY <2>2, <2>4, <2>5, <2>6, SameSeen
<1>6. CASE dev'.state = "CONNECTED" /\ dev' # dev /\ m.cmd \in {"attach", "close"}
  <2>1. CASE m.cmd = "attach"
    <3>1. dev' = Attached(m) /\ m.nonce \in 1..MaxNonce
      BY <1>1, <2>1, HandledIs, MessageFields
    <3> QED BY <1>1, <1>6, <3>1, AttachedOk
  <2>2. CASE m.cmd = "close"
    <3>1. dev' = Finished
      BY <1>1, <1>6, <2>2, HandledIs
    <3> QED BY <1>1, <1>6, <3>1, FinishedFields
  <2> QED BY <1>6, <2>1, <2>2
<1> QED BY <1>1, <1>2, <1>3, <1>4, <1>5, <1>6, MessageFields

LEMMA CalculatorKept == ASSUME ChannelInv, ChannelInv', Calculator PROVE Kept
<1>1. DeviceOk /\ DeviceOk'
  BY DEF ChannelInv
<1>2. CASE AppOpen
  BY <1>1, <1>2, AppOpenOk, Ended
<1>3. CASE Finish \/ BusReset
  BY <1>1, <1>3, FinishOk, Ended DEF Finish, BusReset, Active
<1>4. ASSUME NEW app \in Apps \cup {None}, Load(app) PROVE Kept
  BY <1>1, <1>4, NewOwnerFields, Ended DEF Load
<1>5. CASE LateLost
  BY <1>5, LateKept DEF LateLost
<1> QED BY <1>2, <1>3, <1>4, <1>5, AppReceiveKept, AllowKept, AppSendKept,
           LateArrivesKept DEF Calculator

(***************************************************************************)
(* The promise, action by action: the computer                             *)
(***************************************************************************)
\* A transfer that fails, or that the calculator refuses, says nothing new.
LEMMA FailedKept ==
  ASSUME ChannelInv, ChannelInv', host.call # "none", NEW m, Speaks(m), host' = Idle,
         \/ ~Accepts(m) /\ dev' = Handled(m)
         \/ UNCHANGED dev
  PROVE  Kept
<1>1. /\ host.nonce # 0 /\ host \in Clients /\ m \in Messages
      /\ DeviceOk /\ DeviceOk' /\ "none" \in Calls
  BY InCall DEF ChannelInv, ClientOk, Speaks, Calls
<1>2. /\ host'.session = host.session /\ host'.nonce = host.nonce
      /\ host'.pending = host.pending /\ host'.received = host.received
  BY <1>1 DEF Idle, Clients
<1>3. CASE UNCHANGED dev
  BY <1>1, <1>2, <1>3, CallKept
<1>4. CASE dev' = Finished
  BY <1>1, <1>4, FinishedFields, Ended
<1>5. CASE ~Accepts(m) /\ dev' = Handled(m)
  <2>1. CASE m.cmd = "attach"
    <3>1. dev' = dev
      BY <1>1, <1>5, <2>1, HandledIs DEF Attached, Accepts
    <3> QED BY <1>3, <3>1
  <2>2. CASE m.cmd = "frame"
    <3>1. dev' = dev \/ dev' = Finished
      BY <1>1, <1>5, <2>2, HandledIs DEF Received, Accepts
    <3> QED BY <1>3, <1>4, <3>1
  <2>3. CASE m.cmd = "ack"
    <3>1. dev' = dev
      BY <1>1, <1>5, <2>3, HandledIs DEF Acknowledged, Accepts
    <3> QED BY <1>3, <3>1
  <2>4. CASE m.cmd = "close"
    <3>1. dev' = dev
      BY <1>1, <1>5, <2>4, HandledIs DEF Accepts
    <3> QED BY <1>3, <3>1
  <2> QED BY <1>1, <2>1, <2>2, <2>3, <2>4, MessageFields
<1> QED BY <1>3, <1>5

LEMMA WriteAttachKept == ASSUME ChannelInv, ChannelInv', WriteAttach PROVE Kept
<1>1. host.call = "attach" /\ Transfer("attach", Packet("attach", NoFrame), Idle)
  BY DEF WriteAttach, Transfer
<1>2. Speaks(Packet("attach", NoFrame))
  BY <1>1, PacketSpeaks
<1> PICK m : m = Packet("attach", NoFrame) /\ Speaks(m)
  BY <1>2
<1>3. Transfer("attach", m, Idle) /\ m.cmd = "attach" /\ m \in Messages
      /\ m.nonce \in 1..MaxNonce
  BY <1>1, PacketFields, MessageFields DEF Speaks
<1>4. CASE host' = Idle /\ ((~Accepts(m) /\ dev' = Handled(m)) \/ UNCHANGED dev)
  BY <1>1, <1>4, FailedKept
<1>5. CASE dev' = Handled(m) /\ host' = Idle
  <2>1. dev' = Attached(m) /\ DeviceOk /\ DeviceOk'
    BY <1>3, <1>5, HandledIs DEF ChannelInv
  <2>2. dev' = dev \/ dev'.state = "WAIT_USER"
    BY <1>3, <2>1, AttachedOk
  <2>3. CASE dev' = dev
    BY <1>1, <1>4, <1>5, <2>3
  <2>4. CASE dev'.state = "WAIT_USER"
    BY <2>1, <2>4, Ended
  <2> QED BY <2>2, <2>3, <2>4
<1> QED BY <1>3, <1>4, <1>5 DEF Transfer

LEMMA WriteFrameKept == ASSUME ChannelInv, ChannelInv', WriteFrame PROVE Kept
<1>1. /\ host.call = "write" /\ Transfer("write", Packet("frame", host.pending), Sent)
      /\ host.pending # NoFrame /\ host.nonce # 0
  BY InCall DEF WriteFrame, Transfer, ChannelInv, ClientOk
<1>2. Speaks(Packet("frame", host.pending))
  BY <1>1, PacketSpeaks
<1> PICK m : m = Packet("frame", host.pending) /\ Speaks(m)
  BY <1>2
<1>3. CASE host' = Idle /\ ((~Accepts(m) /\ dev' = Handled(m)) \/ UNCHANGED dev)
  BY <1>1, <1>3, FailedKept
<1>4. CASE Accepts(m) /\ dev' = Handled(m) /\ host' = Sent
  <2>1. /\ Here /\ dev'.owner = dev.owner
        /\ dev'.session = dev.session /\ dev'.nonce = dev.nonce
        /\ dev'.state = "CONNECTED" /\ dev'.recvSeq = host.sendSeq + 1
        /\ dev'.tx = dev.tx
        /\ \/ dev.recvSeq = host.sendSeq /\ dev'.rx = Append(dev.rx, host.pending)
           \/ dev.recvSeq = host.sendSeq + 1 /\ dev'.rx = dev.rx
    BY <1>1, <1>4, FrameAccepted
  <2>2. /\ host \in Clients /\ "none" \in Calls /\ host.pending.seq = host.sendSeq
        /\ host.sendSeq \in 1..LastSeq /\ host.pending \in Frames
        /\ host.sendSeq + 1 \in 1..LastSeq
    BY <1>1, ClientFields, Numbers DEF ChannelInv, ClientOk, Calls
  <2>3. /\ host'.session = host.session /\ host'.nonce = host.nonce
        /\ host'.pending = NoFrame /\ host'.received = host.received
    BY <1>4, <2>2 DEF Sent, Clients
  <2>4. Here' /\ Down' = Down
    BY <2>1, <2>3 DEF Here, Bound, Same, Down, AtFront
  <2>5. Outstanding = host.pending /\ Outstanding' = NoFrame /\ ~Unsettled'
    BY <2>1, <2>3, <2>4 DEF Outstanding, Unsettled
  <2>6. Up' = Up
    <3>1. CASE dev.recvSeq = host.sendSeq /\ dev'.rx = Append(dev.rx, host.pending)
      <4>1. Unsettled
        BY <1>1, <2>2, <2>5, <3>1 DEF Unsettled
      <4> QED BY <2>2, <2>5, <3>1, <4>1, FrameMoves
    <3>2. CASE dev.recvSeq = host.sendSeq + 1 /\ dev'.rx = dev.rx
      <4>1. ~Unsettled
        BY <2>2, <2>5, <3>2 DEF Unsettled
      <4> QED BY <2>5, <3>2, <4>1 DEF Up
    <3> QED BY <2>1, <3>1, <3>2
  <2> QED BY <2>1, <2>4, <2>6, Promised DEF Doubt
<1>5. Transfer("write", m, Sent)
  BY <1>1
<1> QED BY <1>3, <1>4, <1>5 DEF Transfer

LEMMA WriteAckKept == ASSUME ChannelInv, ChannelInv', WriteAck PROVE Kept
<1>1. /\ host.call = "ack" /\ Transfer("ack", Packet("ack", host.received), Acked)
      /\ host.received # NoFrame /\ host.nonce # 0
      /\ host.received.seq = host.recvSeq
  BY InCall DEF WriteAck, Transfer, ChannelInv, ClientOk
<1>2. Speaks(Packet("ack", host.received))
  BY <1>1, PacketSpeaks
<1> PICK m : m = Packet("ack", host.received) /\ Speaks(m)
  BY <1>2
<1>3. CASE host' = Idle /\ ((~Accepts(m) /\ dev' = Handled(m)) \/ UNCHANGED dev)
  BY <1>1, <1>3, FailedKept
<1>4. CASE Accepts(m) /\ dev' = Handled(m) /\ host' = Acked
  <2>1. /\ Here /\ DeviceOk' /\ dev'.owner = dev.owner
        /\ dev'.session = dev.session /\ dev'.nonce = dev.nonce
        /\ dev'.state = "CONNECTED" /\ dev'.recvSeq = dev.recvSeq
        /\ dev'.ack = host.recvSeq /\ dev'.rx = dev.rx
        /\ \/ dev' = dev /\ dev.ack = host.recvSeq
           \/ AtFront(host.received) /\ dev'.tx = Tail(dev.tx)
    BY <1>1, <1>4, AckAccepted
  <2>2. host \in Clients /\ "none" \in Calls
    BY DEF ChannelInv, ClientOk, Calls
  <2>3. /\ host'.session = host.session /\ host'.nonce = host.nonce
        /\ host'.pending = host.pending /\ host'.received = NoFrame
    BY <1>4, <2>2 DEF Acked, Clients
  <2>4. Here'
    BY <2>1, <2>3 DEF Here, Bound, Same
  <2>5. Outstanding' = Outstanding
    BY <2>1, <2>3, <2>4 DEF Outstanding
  <2>6. Down' = Down
    <3>1. CASE AtFront(host.received) /\ dev'.tx = Tail(dev.tx)
      BY <1>1, <2>1, <2>3, <2>4, <3>1, MessageLeaves
    <3>2. CASE dev' = dev /\ dev.ack = host.recvSeq
      <4>1. ~AtFront(host.received)
        <5> SUFFICES ASSUME dev.tx # <<>>, host.received.seq = Head(dev.tx).seq PROVE FALSE
          BY DEF AtFront
        <5>1. dev.tx \in Seq(Frames) /\ dev.ack \in 0..LastSeq /\ dev.state = "CONNECTED"
          BY <2>1, DeviceFields DEF ChannelInv, Here, Bound
        <5>2. Head(dev.tx) = dev.tx[1] /\ Len(dev.tx) \in Nat \ {0}
          BY <5>1, TailFrames
        <5>3. dev.tx[1].seq = dev.ack + 1
          BY <5>1, <5>2 DEF ChannelInv, DeviceOk
        <5>4. dev.ack \in Nat
          BY <5>1, Numbers
        <5> QED BY <1>1, <3>2, <5>2, <5>3, <5>4
      <4> QED BY <2>1, <2>3, <2>4, <3>2, <4>1 DEF Down
    <3> QED BY <2>1, <3>1, <3>2
  <2> QED BY <2>1, <2>4, <2>5, <2>6, SameSeen
<1>5. Transfer("ack", m, Acked)
  BY <1>1
<1> QED BY <1>3, <1>4, <1>5 DEF Transfer

LEMMA WriteCloseKept == ASSUME ChannelInv, ChannelInv', WriteClose PROVE Kept
<1>1. host.call = "close" /\ Transfer("close", Packet("close", NoFrame), Closed)
  BY DEF WriteClose, Transfer
<1>2. Speaks(Packet("close", NoFrame))
  BY <1>1, PacketSpeaks
<1> PICK m : m = Packet("close", NoFrame) /\ Speaks(m)
  BY <1>2
<1>3. CASE host' = Idle /\ ((~Accepts(m) /\ dev' = Handled(m)) \/ UNCHANGED dev)
  BY <1>1, <1>3, FailedKept
<1>4. CASE Accepts(m) /\ dev' = Handled(m)
  <2>1. m \in Messages /\ m.cmd = "close" /\ DeviceOk /\ DeviceOk'
    BY PacketFields DEF Speaks, ChannelInv
  <2>2. dev' = Finished
    BY <1>4, <2>1, HandledIs, AcceptsIs
  <2> QED BY <2>1, <2>2, FinishedFields, Ended
<1>5. Transfer("close", m, Closed)
  BY <1>1
<1> QED BY <1>3, <1>4, <1>5 DEF Transfer

LEMMA SendKept == ASSUME ChannelInv, ChannelInv', NEW d \in Data, Send(d) PROVE Kept
<1> DEFINE f == [seq |-> host.sendSeq, data |-> d]
<1>1. /\ Here /\ host.pending = NoFrame /\ dev.recvSeq = host.sendSeq
      /\ UNCHANGED <<dev, late>> /\ host' = [host EXCEPT !.pending = f, !.call = "flush"]
  BY DEF Send, Ready, Here
<1>2. host \in Clients /\ f \in Frames /\ f.seq = host.sendSeq /\ f.data = d /\ f # NoFrame
  BY ClientFields, FrameFacts DEF ChannelInv, ClientOk
<1> HIDE DEF f
<1>3. /\ host'.session = host.session /\ host'.nonce = host.nonce
      /\ host'.pending = f /\ host'.received = host.received
  BY <1>1, <1>2 DEF Clients
<1>4. Here' /\ Down' = Down
  BY <1>1, <1>3 DEF Here, Bound, Same, Down, AtFront
<1>5. Outstanding = NoFrame /\ Outstanding' = f
  BY <1>1, <1>3, <1>4 DEF Outstanding
<1>6. ~Unsettled /\ Unsettled'
  BY <1>1, <1>2, <1>5 DEF Unsettled
<1>7. Up = Said(dev.rx) /\ Said(dev.rx) \in Seq(Data)
  BY <1>6, UpIs
<1>8. Up' = Said(dev.rx) \o <<d>>
  BY <1>1, <1>2, <1>5, <1>6 DEF Up
<1>9. Up' = Append(Up, d)
  BY <1>7, <1>8, AppendIsConcat
<1> QED BY <1>1, <1>4, <1>9, Promised DEF Doubt

LEMMA FlushKept == ASSUME ChannelInv, ChannelInv', Flush PROVE Kept
<1>1. /\ Here /\ host.pending # NoFrame /\ UNCHANGED dev /\ host.nonce # 0
      /\ host \in Clients /\ "none" \in Calls /\ "write" \in Calls
      /\ host.pending.seq = host.sendSeq /\ host.sendSeq \in 1..LastSeq
  BY ClientFields DEF Flush, Here, Bound, ChannelInv, ClientOk, Calls
<1>2. CASE host' = [host EXCEPT !.call = "write"] \/ host' = Idle
  <2>1. /\ host'.session = host.session /\ host'.nonce = host.nonce
        /\ host'.pending = host.pending /\ host'.received = host.received
    BY <1>1, <1>2 DEF Idle, Clients
  <2> QED BY <1>1, <2>1, CallKept
<1>3. CASE dev.recvSeq = host.sendSeq + 1 /\ host' = Sent
  <2>1. host.sendSeq + 1 \in 1..LastSeq
    BY <1>1, Numbers DEF ChannelInv, ClientOk
  <2>2. /\ host'.session = host.session /\ host'.nonce = host.nonce
        /\ host'.pending = NoFrame /\ host'.received = host.received
    BY <1>1, <1>3, <2>1 DEF Sent, Clients
  <2>3. Here' /\ Down' = Down
    BY <1>1, <2>2 DEF Here, Bound, Same, Down, AtFront
  <2>4. Outstanding = host.pending /\ Outstanding' = NoFrame
    BY <1>1, <2>2, <2>3 DEF Outstanding
  <2>5. ~Unsettled /\ ~Unsettled'
    BY <1>1, <1>3, <2>4 DEF Unsettled
  <2>6. Up' = Up
    BY <1>1, <2>5 DEF Up
  <2> QED BY <1>1, <2>3, <2>6, Promised DEF Doubt
<1> QED BY <1>2, <1>3 DEF Flush

LEMMA ReadFrameKept == ASSUME ChannelInv, ChannelInv', ReadFrame PROVE Kept
<1>1. /\ host.call = "read" /\ UNCHANGED <<dev, late>> /\ host.nonce # 0
      /\ host \in Clients /\ "none" \in Calls
  BY InCall DEF ReadFrame, ChannelInv, ClientOk, Calls
<1>2. CASE host' = Idle
  <2>1. /\ host'.session = host.session /\ host'.nonce = host.nonce
        /\ host'.pending = host.pending /\ host'.received = host.received
    BY <1>1, <1>2 DEF Idle, Clients
  <2> QED BY <1>1, <2>1, CallKept
<1>3. CASE /\ dev.state = "CONNECTED" /\ host.session = dev.session /\ dev.tx # <<>>
           /\ host.nonce = dev.nonce /\ Head(dev.tx).seq = host.recvSeq
           /\ host' = [Idle EXCEPT !.received = Head(dev.tx)]
  <2>1. Here /\ dev.tx \in Seq(Frames) /\ Head(dev.tx) \in Frames
    <3>1. dev.tx \in Seq(Frames)
      BY DeviceFields DEF ChannelInv
    <3>2. Head(dev.tx) \in Frames
      BY <1>3, <3>1, TailFrames
    <3> QED BY <1>1, <1>3, <3>1, <3>2 DEF ChannelInv, PairedOk, Paired, Here, Bound, Same
  <2>2. /\ host'.session = host.session /\ host'.nonce = host.nonce
        /\ host'.pending = host.pending /\ host'.received = Head(dev.tx)
    BY <1>1, <1>3 DEF Idle, Clients
  <2>3. Here'
    BY <1>1, <2>1, <2>2 DEF Here, Bound, Same
  <2>4. Outstanding' = Outstanding
    BY <2>1, <2>2, <2>3 DEF Outstanding
  <2>5. Doubt' = Doubt /\ Up' = Up
    BY <1>1, <2>1, <2>3, <2>4 DEF Doubt, Unsettled, Up
  <2>6. Down' = Said(Tail(dev.tx))
    BY <1>1, <1>3, <2>1, <2>2, <2>3, FrameFacts DEF Down, AtFront
  <2>7. CASE host.received # NoFrame
    <3>1. AtFront(host.received)
      BY <1>3, <2>7 DEF AtFront, ChannelInv, ClientOk
    <3>2. Down' = Down
      BY <2>1, <2>6, <2>7, <3>1 DEF Down
    <3> QED BY <2>1, <2>3, <2>5, <3>2, Promised
  <2>8. CASE host.received = NoFrame
    <3>1. Down = Said(dev.tx)
      BY <2>1, <2>8 DEF Down
    <3>2. Down # <<>> /\ Down' = Tail(Down)
      BY <1>3, <2>1, <2>6, <3>1, SaidTail
    <3> QED BY <2>1, <2>3, <2>5, <3>2, Promised
  <2> QED BY <2>7, <2>8
<1> QED BY <1>2, <1>3 DEF ReadFrame

\* What the client that goes leaves behind is its last frame, or nothing.
LEMMA HostExitsKept == ASSUME ChannelInv, ChannelInv', HostExits PROVE Kept
<1>1. host.nonce # 0 /\ host' = NewClient /\ UNCHANGED <<dev, late>>
  BY DEF HostExits
<1>2. ~Here' /\ Down' = <<>>
  BY <1>1, NewClientFields DEF ChannelInv, Here, Bound, Down
<1>3. CASE Here
  <2>1. Outstanding = host.pending
    BY <1>3 DEF Outstanding
  <2>2. Outstanding' \in {host.pending, NoFrame}
    BY <1>1, <1>2 DEF Outstanding, ChannelInv, LateOk, Speaks
  <2>3. CASE Outstanding' = Outstanding
    <3>1. Up' = Up
      BY <1>1, <2>3 DEF Up, Unsettled
    <3> QED BY <1>2, <1>3, <3>1, Promised
  <2>4. CASE Outstanding' = NoFrame
    <3>1. ~Unsettled'
      BY <2>4 DEF Unsettled
    <3>2. Up' = Said(dev.rx)
      BY <1>1, <3>1, UpIs, ConcatEmptySeq DEF Up
    <3>3. CASE Unsettled
      BY <1>2, <1>3, <3>1, <3>2, <3>3, UpIs, Promised DEF Doubt
    <3>4. CASE ~Unsettled
      BY <1>2, <1>3, <3>1, <3>2, <3>4, UpIs, Promised
    <3> QED BY <3>3, <3>4
  <2> QED BY <2>1, <2>2, <2>3, <2>4
<1>4. CASE ~Here
  <2>1. Outstanding = NoFrame
    BY <1>1, <1>4, ClientOutstanding DEF ChannelInv
  <2>2. Outstanding' = NoFrame
    BY <1>1, <1>2, <1>4, <2>1 DEF Outstanding, Matches
  <2>3. Here' = Here /\ Down' = Down
    BY <1>2, <1>4 DEF Down, Here, Bound, Same
  <2> QED BY <1>1, <2>1, <2>2, <2>3, SameSeen
<1> QED BY <1>3, <1>4

LEMMA ComputerKept == ASSUME ChannelInv, ChannelInv', Computer PROVE Kept
<1>1. host \in Clients /\ {"none", "attach", "read", "ack", "close"} \subseteq Calls
  BY DEF ChannelInv, ClientOk, Calls
<1>2. CASE Attach
  BY <1>2, Ended DEF Attach, ChannelInv
<1>3. ASSUME NEW c \in Calls, host' = [host EXCEPT !.call = c], UNCHANGED dev,
             host.nonce # 0
      PROVE  Kept
  <2>1. /\ host'.session = host.session /\ host'.nonce = host.nonce
        /\ host'.pending = host.pending /\ host'.received = host.received
    BY <1>1, <1>3 DEF Clients
  <2> QED BY <1>3, <2>1, CallKept
<1>4. CASE RetryAttach
  BY <1>1, <1>3, <1>4 DEF RetryAttach
<1>5. CASE FlushFails
  BY <1>1, <1>3, <1>5, InCall DEF FlushFails, Idle
<1>6. CASE Receive
  BY <1>1, <1>3, <1>6 DEF Receive, Bound
<1>7. CASE Acknowledge
  BY <1>1, <1>3, <1>7 DEF Acknowledge, Bound
<1>8. CASE Close
  BY <1>1, <1>3, <1>8 DEF Close, Bound
<1> QED BY <1>2, <1>4, <1>5, <1>6, <1>7, <1>8, SendKept, FlushKept, ReadFrameKept,
           WriteAttachKept, WriteFrameKept, WriteAckKept, WriteCloseKept, HostExitsKept
        DEF Computer

\* Between the app and the program it was let in to, nothing is lost, repeated
\* or reordered, whatever transfers fail or arrive late, except the last
\* message of a program that went; and no message outlives its session.
THEOREM ChannelKeepsPromise == Spec => ImplementsPromise
<1>1. Init => Promise!PromiseInit
  <2> SUFFICES ASSUME Init PROVE Promise!PromiseInit
    OBVIOUS
  <2>1. DeviceOk /\ dev.state # "CONNECTED"
    BY ChannelInit DEF ChannelInv, Init
  <2> QED BY <2>1, EmptyBefore DEF Promise!PromiseInit, Doubt
<1>2. ChannelInv /\ ChannelInv' /\ [Next]_vars => [Promise!PromiseNext]_(Promise!promise)
  <2> SUFFICES ASSUME ChannelInv, ChannelInv', [Next]_vars PROVE Kept
    BY DEF Kept
  <2>1. CASE UNCHANGED vars
    <3>1. Here' = Here /\ Outstanding' = Outstanding /\ Down' = Down
      BY <2>1 DEF vars, Here, Bound, Same, Outstanding, Matches, Down, AtFront
    <3> QED BY <2>1, <3>1, SameSeen DEF vars
  <2> QED BY <2>1, CalculatorKept, ComputerKept DEF Next
<1> QED BY <1>1, <1>2, ChannelHolds, PTL DEF Spec, ImplementsPromise, Promise!PromiseSpec
=============================================================================
