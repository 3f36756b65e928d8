------------------------- MODULE CameraAccessProofs -------------------------
(***************************************************************************)
(* Proofs about CameraAccess, for any set of threads and files, any        *)
(* contents and any size of the packet counter.                            *)
(***************************************************************************)
EXTENDS CameraAccess, TLAPS

(* The first packets of a resource form a sequence of packets. *)
LEMMA PrefixType ==
    ASSUME NEW r \in Contents, NEW n \in Nat
    PROVE  /\ Prefix(r, n) \in Buffers
           /\ Len(Prefix(r, n)) = n
<1>1. \A i \in 1..n : Packet(r, i - 1) \in [of : Contents, number : Nat]
  <2> TAKE i \in 1..n
  <2>1. i - 1 \in Nat
    OBVIOUS
  <2> QED
    BY <2>1 DEF Packet
<1> QED
  BY <1>1 DEF Prefix, Buffers

(* A buffer extended by a packet is a buffer. *)
LEMMA BufferAppend ==
    ASSUME NEW b \in Buffers, NEW r \in Contents, NEW n \in Nat
    PROVE  Append(b, Packet(r, n)) \in Buffers
<1>1. Packet(r, n) \in [of : Contents, number : Nat]
  BY DEF Packet
<1> DEFINE S == [of : Contents, number : Nat]
<1>2. b \in Seq(S) /\ Packet(r, n) \in S
  BY <1>1 DEF Buffers
<1> HIDE DEF S
<1>3. Append(b, Packet(r, n)) \in Seq(S)
  BY <1>2
<1> QED
  BY <1>3 DEF S, Buffers

(* Appending the next packet of a resource to a prefix of it gives a       *)
(* longer prefix: the step downloadData's loop takes.                      *)
LEMMA PrefixAppend ==
    ASSUME NEW r \in Contents, NEW n \in Nat
    PROVE  Append(Prefix(r, n), Packet(r, n)) = Prefix(r, n + 1)
  BY DEF Prefix, Packet

LEMMA PrefixEmpty ==
    ASSUME NEW r
    PROVE  Prefix(r, 0) = << >>
  BY DEF Prefix

(* A counter that has not reached its limit does not wrap. *)
LEMMA ModSmall ==
    ASSUME NEW m \in Nat \ {0}, NEW n \in 0..(m - 1)
    PROVE  n % m = n
  OBVIOUS

(* Every call only reaches the steps of its own operation, and every       *)
(* variable keeps its type.                                                *)
LEMMA TypeInit == Init => TypeOK /\ RequestInv
<1> SUFFICES ASSUME Init PROVE TypeOK /\ RequestInv
  OBVIOUS
<1>1. << >> \in Buffers
  BY DEF Buffers
<1>2. 0 \in 0..(PacketValues - 1)
  BY PacketsAssumption
<1>3. TypeOK
  BY <1>1, <1>2 DEF Init, TypeOK, Steps, Requests, Phases
<1>4. RequestInv
  BY DEF Init, RequestInv
<1> QED
  BY <1>3, <1>4

LEMMA TypeStep == TypeOK /\ RequestInv /\ [Next]_vars => TypeOK' /\ RequestInv'
<1> SUFFICES ASSUME TypeOK, RequestInv, [Next]_vars
             PROVE  TypeOK' /\ RequestInv'
  OBVIOUS
<1> USE FilesAssumption, PacketsAssumption
<1> USE DEF TypeOK, RequestInv, Goto, Transfer, Steps, LockedSteps, DeviceSteps,
            Requests, Resources, Contents, Phases, deviceVars
<1>0. << >> \in Buffers
  BY DEF Buffers
<1>1. CASE OpenCamera
  BY <1>1 DEF OpenCamera
<1>2. CASE CloseCamera
  BY <1>2 DEF CloseCamera
<1>3. CASE Terminate
  BY <1>0, <1>3 DEF Terminate, DeviceUpset
<1>4. CASE Replug
  BY <1>4 DEF Replug
<1>5. CASE BecomeReady
  BY <1>5 DEF BecomeReady, hostVars
<1>6. ASSUME NEW t \in Threads, NEW r \in Requests, Call(t, r)
      PROVE  TypeOK' /\ RequestInv'
  BY <1>0, <1>6 DEF Call
<1>7. ASSUME NEW t \in Threads, Step(t)
      PROVE  TypeOK' /\ RequestInv'
  <2>1. CASE Lock(t)
    BY <2>1 DEF Lock, FirstStep
  <2>2. CASE TestUnitReady(t)
    BY <2>2 DEF TestUnitReady
  <2>3. CASE Retry(t)
    BY <2>3 DEF Retry
  <2>4. CASE Inquiry(t)
    BY <2>4 DEF Inquiry
  <2>5. CASE RequestData(t)
    BY <2>5 DEF RequestData
  <2>6. CASE SendCommand(t)
    BY <2>6 DEF SendCommand
  <2>7. CASE SendName(t)
    BY <2>7 DEF SendName
  <2>8. CASE ReadStatus(t)
    BY <2>8 DEF ReadStatus
  <2>9. CASE GetLength(t)
    BY <1>0, <2>9 DEF GetLength
  <2>10. CASE GetData(t)
    <3>1. (packet[t] + 1) % PacketValues \in 0..(PacketValues - 1)
      BY DEF TypeOK
    <3>2. Append(result[t], Packet(loaded, packet[t])) \in Buffers
      <4>1. result[t] \in Buffers /\ loaded \in Contents /\ packet[t] \in Nat
        BY DEF TypeOK
      <4> QED
        BY <4>1, BufferAppend
    <3> QED
      BY <2>10, <3>1, <3>2 DEF GetData
  <2>11. CASE Unlock(t)
    BY <2>11 DEF Unlock
  <2>12. CASE Return(t)
    BY <2>12 DEF Return, Replies
  <2>13. CASE Throw(t)
    BY <1>0, <2>13 DEF Throw, DeviceUpset
  <2> QED
    BY <1>7, <2>1, <2>2, <2>3, <2>4, <2>5, <2>6, <2>7, <2>8, <2>9, <2>10,
       <2>11, <2>12, <2>13 DEF Step
<1>8. CASE UNCHANGED vars
  BY <1>8 DEF vars
<1> QED
  BY <1>1, <1>2, <1>3, <1>4, <1>5, <1>6, <1>7, <1>8 DEF Next

(* Type correctness of the camera access for every instance: among others, *)
(* the packet counter never leaves the range of an unsigned char, and the  *)
(* camera never has a file loaded that it does not hold.                   *)
THEOREM TypeCorrect == Spec => []TypeOK
<1>1. Spec => [](TypeOK /\ RequestInv)
  BY TypeInit, TypeStep, PTL DEF Spec
<1> QED
  BY <1>1, PTL

(* Only the owner of the mutex is between lock and unlock. *)
LEMMA LockStep == TypeOK /\ LockInv /\ [Next]_vars => LockInv'
<1> SUFFICES ASSUME TypeOK, LockInv, [Next]_vars
             PROVE  LockInv'
  OBVIOUS
<1> USE ThreadsAssumption
<1> USE DEF TypeOK, LockInv, Goto, Transfer, LockedSteps, DeviceSteps
<1>1. CASE OpenCamera
  BY <1>1 DEF OpenCamera
<1>2. CASE CloseCamera
  BY <1>2 DEF CloseCamera
<1>3. CASE Terminate
  BY <1>3 DEF Terminate
<1>4. CASE Replug
  BY <1>4 DEF Replug
<1>5. CASE BecomeReady
  BY <1>5 DEF BecomeReady, hostVars
<1>6. ASSUME NEW t \in Threads, NEW r \in Requests, Call(t, r)
      PROVE  LockInv'
  BY <1>6 DEF Call
<1>7. ASSUME NEW t \in Threads, Step(t)
      PROVE  LockInv'
  <2>1. CASE Lock(t)
    BY <2>1 DEF Lock, FirstStep
  <2>2. CASE TestUnitReady(t)
    BY <2>2 DEF TestUnitReady
  <2>3. CASE Retry(t)
    BY <2>3 DEF Retry
  <2>4. CASE Inquiry(t)
    BY <2>4 DEF Inquiry
  <2>5. CASE RequestData(t)
    BY <2>5 DEF RequestData
  <2>6. CASE SendCommand(t)
    BY <2>6 DEF SendCommand
  <2>7. CASE SendName(t)
    BY <2>7 DEF SendName
  <2>8. CASE ReadStatus(t)
    BY <2>8 DEF ReadStatus
  <2>9. CASE GetLength(t)
    BY <2>9 DEF GetLength
  <2>10. CASE GetData(t)
    BY <2>10 DEF GetData
  <2>11. CASE Unlock(t)
    BY <2>11 DEF Unlock
  <2>12. CASE Return(t)
    BY <2>12 DEF Return
  <2>13. CASE Throw(t)
    BY <2>13 DEF Throw
  <2> QED
    BY <1>7, <2>1, <2>2, <2>3, <2>4, <2>5, <2>6, <2>7, <2>8, <2>9, <2>10,
       <2>11, <2>12, <2>13 DEF Step
<1>8. CASE UNCHANGED vars
  BY <1>8 DEF vars
<1> QED
  BY <1>1, <1>2, <1>3, <1>4, <1>5, <1>6, <1>7, <1>8 DEF Next

(* No other thread loads the camera between a thread's request and its     *)
(* last packet: only the owner of the mutex talks to the device, and a     *)
(* reconnected camera is not reachable through the old handle.             *)
LEMMA LoadedStep ==
    TypeOK /\ RequestInv /\ LockInv /\ LoadedInv /\ [Next]_vars => LoadedInv'
<1> SUFFICES ASSUME TypeOK, RequestInv, LockInv, LoadedInv, [Next]_vars
             PROVE  LoadedInv'
  OBVIOUS
<1> USE DEF TypeOK, LoadedInv, Goto, Transfer
<1>1. CASE OpenCamera
  BY <1>1 DEF OpenCamera, AllIdle
<1>2. CASE CloseCamera
  BY <1>2 DEF CloseCamera
<1>3. CASE Terminate
  BY <1>3 DEF Terminate
<1>4. CASE Replug
  BY <1>4 DEF Replug
<1>5. CASE BecomeReady
  BY <1>5 DEF BecomeReady, hostVars
<1>6. ASSUME NEW t \in Threads, NEW r \in Requests, Call(t, r)
      PROVE  LoadedInv'
  BY <1>6 DEF Call, deviceVars
<1>7. ASSUME NEW t \in Threads, Step(t)
      PROVE  LoadedInv'
  <2> USE DEF deviceVars
  <2>1. CASE Lock(t)
    BY <2>1 DEF Lock, FirstStep
  <2>2. CASE TestUnitReady(t)
    BY <2>2 DEF TestUnitReady
  <2>3. CASE Retry(t)
    BY <2>3 DEF Retry
  <2>4. CASE Inquiry(t)
    BY <2>4 DEF Inquiry
  <2>5. CASE RequestData(t)
    BY <2>5 DEF RequestData, LockInv, LockedSteps, DeviceSteps
  <2>6. CASE SendCommand(t)
    BY <2>6 DEF SendCommand
  <2>7. CASE SendName(t)
    BY <2>7 DEF SendName, LockInv, LockedSteps, DeviceSteps
  <2>8. CASE ReadStatus(t)
    BY <2>8 DEF ReadStatus
  <2>9. CASE GetLength(t)
    BY <2>9 DEF GetLength
  <2>10. CASE GetData(t)
    BY <2>10 DEF GetData
  <2>11. CASE Unlock(t)
    BY <2>11 DEF Unlock
  <2>12. CASE Return(t)
    BY <2>12 DEF Return
  <2>13. CASE Throw(t)
    BY <2>13 DEF Throw, LockInv, LockedSteps, DeviceSteps
  <2> QED
    BY <1>7, <2>1, <2>2, <2>3, <2>4, <2>5, <2>6, <2>7, <2>8, <2>9, <2>10,
       <2>11, <2>12, <2>13 DEF Step
<1>8. CASE UNCHANGED vars
  BY <1>8 DEF vars
<1> QED
  BY <1>1, <1>2, <1>3, <1>4, <1>5, <1>6, <1>7, <1>8 DEF Next

(* The buffer of a download is a prefix of what is loaded, and complete    *)
(* when the loop ends.                                                     *)
LEMMA BufferStep ==
    ASSUME FitsCounter, TypeOK, RequestInv, LockInv, LoadedInv, BufferInv,
           [Next]_vars
    PROVE  BufferInv'
<1> USE DEF TypeOK, BufferInv, Goto, Transfer
<1>1. CASE OpenCamera
  BY <1>1 DEF OpenCamera, AllIdle, deviceVars
<1>2. CASE CloseCamera
  BY <1>2 DEF CloseCamera, deviceVars
<1>3. CASE Terminate
  BY <1>3 DEF Terminate
<1>4. CASE Replug
  BY <1>4 DEF Replug
<1>5. CASE BecomeReady
  BY <1>5 DEF BecomeReady, hostVars
<1>6. ASSUME NEW t \in Threads, NEW r \in Requests, Call(t, r)
      PROVE  BufferInv'
  BY <1>6 DEF Call, deviceVars
<1>7. ASSUME NEW t \in Threads, Step(t)
      PROVE  BufferInv'
  <2> USE DEF deviceVars
  <2>0. ASSUME NEW u \in Threads, u # t, pc[t] \in LockedSteps
        PROVE  pc[u] # "data"
    BY <2>0 DEF LockInv, LockedSteps, DeviceSteps
  <2>1. CASE Lock(t)
    BY <2>1 DEF Lock, FirstStep
  <2>2. CASE TestUnitReady(t)
    BY <2>2 DEF TestUnitReady, RequestInv, AnswersTo
  <2>3. CASE Retry(t)
    BY <2>3 DEF Retry
  <2>4. CASE Inquiry(t)
    BY <2>4 DEF Inquiry
  <2>5. CASE RequestData(t)
    BY <2>0, <2>5 DEF RequestData, LockedSteps, DeviceSteps
  <2>6. CASE SendCommand(t)
    BY <2>6 DEF SendCommand
  <2>7. CASE SendName(t)
    BY <2>0, <2>7 DEF SendName, LockedSteps, DeviceSteps
  <2>8. CASE ReadStatus(t)
    BY <2>8 DEF ReadStatus
  <2>9. CASE GetLength(t)
    <3>1. 0 <= FullPackets[loaded]
      BY PacketsAssumption
    <3>2. Prefix(loaded, 0) = << >>
      BY PrefixEmpty
    <3> QED
      BY <2>9, <3>1, <3>2 DEF GetLength
  <2>10. CASE GetData(t)
    <3> DEFINE k == packet[t]
               b == Append(result[t], Packet(loaded, k))
    <3>1. /\ k \in Nat
          /\ FullPackets[loaded] \in Nat
          /\ loaded \in Contents \ Missing
      BY PacketsAssumption
    <3>2. k <= FullPackets[loaded] /\ result[t] = Prefix(loaded, k)
      BY <2>10 DEF GetData
    <3>3. b = Prefix(loaded, k + 1)
      BY <3>1, <3>2, PrefixAppend
    <3>4. result' = [result EXCEPT ![t] = b] /\ loaded' = loaded
      BY <2>10 DEF GetData
    <3>5. CASE k < FullPackets[loaded]
      <4>1. (k + 1) % PacketValues = k + 1
        <5>1. FullPackets[loaded] < PacketValues
          BY <3>1 DEF FitsCounter
        <5> HIDE DEF k
        <5>2. k + 1 \in 0..(PacketValues - 1)
          BY <3>1, <3>5, <5>1, PacketsAssumption
        <5> QED
          BY <5>2, PacketsAssumption, ModSmall
      <4>2. pc' = [pc EXCEPT ![t] = "data"] /\ packet' = [packet EXCEPT ![t] = k + 1]
        BY <2>10, <3>5, <4>1 DEF GetData
      <4>3. k + 1 <= FullPackets[loaded]
        BY <3>1, <3>5
      <4> QED
        BY <2>10, <3>3, <3>4, <4>2, <4>3 DEF GetData
    <3>6. CASE ~(k < FullPackets[loaded])
      <4>1. k = FullPackets[loaded]
        BY <3>1, <3>2, <3>6
      <4>2. b = Content(loaded)
        BY <3>3, <4>1 DEF Content
      <4>3. b \in AnswersTo(req[t])
        <5>1. req[t] # "ready" /\ (req[t] \in Missing \/ req[t] = loaded)
          BY <2>10, FilesAssumption DEF GetData, LoadedInv, RequestInv, Resources
        <5>2. b \in {Content(c) : c \in Contents \ Missing}
          BY <3>1, <4>2
        <5> HIDE DEF b
        <5> QED
          BY <3>1, <4>2, <5>1, <5>2 DEF AnswersTo
      <4>4. pc' = [pc EXCEPT ![t] = "unlock"]
        BY <2>10, <3>6 DEF GetData
      <4> QED
        BY <2>10, <3>4, <4>3, <4>4 DEF GetData
    <3> QED
      BY <3>5, <3>6
  <2>11. CASE Unlock(t)
    BY <2>11 DEF Unlock
  <2>12. CASE Return(t)
    BY <2>12 DEF Return
  <2>13. CASE Throw(t)
    BY <2>0, <2>13 DEF Throw, LockedSteps
  <2> QED
    BY <1>7, <2>1, <2>2, <2>3, <2>4, <2>5, <2>6, <2>7, <2>8, <2>9, <2>10,
       <2>11, <2>12, <2>13 DEF Step
<1>8. CASE UNCHANGED vars
  BY <1>8 DEF vars
<1> QED
  BY <1>1, <1>2, <1>3, <1>4, <1>5, <1>6, <1>7, <1>8 DEF Next

(* Downloads keep to one resource: from BufferInv while they go on. *)
LEMMA OneResourceStep ==
    ASSUME FitsCounter, TypeOK, BufferInv, BufferFromOneResource, [Next]_vars
    PROVE  BufferFromOneResource'
<1> USE DEF TypeOK, BufferFromOneResource, Goto, Transfer
<1>0. << >> = Prefix("nothing", Len(<< >>)) /\ "nothing" \in Contents
  BY PrefixEmpty DEF Contents
<1>1. ASSUME UNCHANGED result PROVE BufferFromOneResource'
  BY <1>1
<1>2. ASSUME NEW t \in Threads, result' = [result EXCEPT ![t] = << >>]
      PROVE  BufferFromOneResource'
  BY <1>0, <1>2
<1>3. ASSUME NEW t \in Threads, GetData(t)
      PROVE  BufferFromOneResource'
  <2> DEFINE k == packet[t]
             b == Append(result[t], Packet(loaded, k))
  <2>1. k \in Nat /\ loaded \in Contents
    BY PacketsAssumption
  <2>2. result[t] = Prefix(loaded, k)
    BY <1>3 DEF GetData, BufferInv
  <2>3. b = Prefix(loaded, k + 1)
    BY <2>1, <2>2, PrefixAppend
  <2>4. Len(b) = k + 1
    BY <2>1, <2>3, PrefixType
  <2>5. b = Prefix(loaded, Len(b))
    BY <2>3, <2>4
  <2>6. result' = [result EXCEPT ![t] = b]
    BY <1>3 DEF GetData
  <2> HIDE DEF b
  <2> QED
    BY <2>1, <2>5, <2>6
<1>4. CASE Terminate
  BY <1>0, <1>4 DEF Terminate
<1>5. ASSUME NEW t \in Threads, Step(t)
      PROVE  BufferFromOneResource'
  BY <1>1, <1>2, <1>3, <1>5
     DEF Step, Lock, TestUnitReady, Retry, Inquiry, RequestData, SendCommand,
         SendName, ReadStatus, GetLength, Unlock, Return, Throw
<1>6. ASSUME NEW t \in Threads, NEW r \in Requests, Call(t, r)
      PROVE  BufferFromOneResource'
  BY <1>2, <1>6 DEF Call
<1> QED
  BY <1>1, <1>4, <1>5, <1>6
     DEF Next, vars, hostVars, OpenCamera, CloseCamera, Replug, BecomeReady

(* A call's reply is the buffer its thread had collected when it returned. *)
LEMMA ReplyStep ==
    ASSUME TypeOK, BufferInv, ReplyIsRequested, [Next]_vars
    PROVE  ReplyIsRequested'
<1> USE DEF TypeOK, ReplyIsRequested, Goto
<1>1. ASSUME UNCHANGED reply PROVE ReplyIsRequested'
  BY <1>1 DEF AnswersTo
<1>2. ASSUME NEW t \in Threads, Return(t)
      PROVE  ReplyIsRequested'
  <2>1. result[t] \in AnswersTo(req[t])
    BY <1>2 DEF Return, BufferInv
  <2> QED
    BY <1>2, <2>1 DEF Return
<1>3. CASE Terminate
  BY <1>3 DEF Terminate
<1>4. ASSUME NEW t \in Threads, Step(t)
      PROVE  ReplyIsRequested'
  BY <1>1, <1>2, <1>4
     DEF Step, Lock, TestUnitReady, Retry, Inquiry, RequestData, SendCommand,
         SendName, ReadStatus, GetLength, GetData, Unlock, Throw
<1>5. ASSUME NEW t \in Threads, NEW r \in Requests, Call(t, r)
      PROVE  ReplyIsRequested'
  BY <1>5 DEF Call
<1> QED
  BY <1>1, <1>3, <1>4, <1>5
     DEF Next, vars, hostVars, OpenCamera, CloseCamera, Replug, BecomeReady

LEMMA IndInit == Init => IndInv
<1> SUFFICES ASSUME Init PROVE IndInv
  OBVIOUS
<1>1. LockInv
  BY ThreadsAssumption DEF Init, LockInv, LockedSteps, DeviceSteps
<1>2. LoadedInv /\ BufferInv
  BY DEF Init, LoadedInv, BufferInv
<1>3. BufferFromOneResource
  <2>1. << >> = Prefix("nothing", Len(<< >>)) /\ "nothing" \in Contents
    BY PrefixEmpty DEF Contents
  <2> QED
    BY <2>1 DEF Init, BufferFromOneResource
<1>4. ReplyIsRequested
  BY DEF Init, ReplyIsRequested
<1> QED
  BY <1>1, <1>2, <1>3, <1>4, TypeInit DEF IndInv

LEMMA IndStep ==
    ASSUME FitsCounter
    PROVE  IndInv /\ [Next]_vars => IndInv'
  BY TypeStep, LockStep, LoadedStep, BufferStep, OneResourceStep, ReplyStep
     DEF IndInv

LEMMA Invariance ==
    ASSUME FitsCounter
    PROVE  Spec => []IndInv
<1>1. IndInv /\ [Next]_vars => IndInv'
  BY IndStep
<1> QED
  BY IndInit, <1>1, PTL DEF Spec

(* For any number of threads and any files that fit the packet counter, a  *)
(* call of the Camera that returns has returned all of what it asked for   *)
(* and nothing else, whatever the other threads did, whichever transfers   *)
(* failed, whatever earlier processes left on the device and whenever the  *)
(* camera was reconnected.                                                 *)
THEOREM RepliesCorrect ==
    ASSUME FitsCounter
    PROVE  Spec => []ReplyIsRequested
<1>1. IndInv => ReplyIsRequested
  BY DEF IndInv
<1> QED
  BY <1>1, Invariance, PTL

(* Under the same assumption downloadData never mixes packets of two       *)
(* resources, skips one or reads one twice.                                *)
THEOREM BuffersInOrder ==
    ASSUME FitsCounter
    PROVE  Spec => []BufferFromOneResource
<1>1. IndInv => BufferFromOneResource
  BY DEF IndInv
<1> QED
  BY <1>1, Invariance, PTL

(* The request a thread waits for, as CameraService sees it. *)
Pending == [t \in Threads |-> IF pc[t] = "idle" THEN "none" ELSE req[t]]

(* Steps of a thread inside its call, and those of the device, leave the   *)
(* abstract state alone; the others are steps of CameraService.            *)
LEMMA ServiceStep ==
    ASSUME IndInv, [Next]_vars
    PROVE  [Service!Next]_(Service!vars)
<1> USE DEF IndInv, TypeOK, Goto, Transfer
<1> DEFINE silent == Pending' = Pending /\ reply' = reply
<1>0. silent => UNCHANGED Service!vars
  BY DEF Service!vars, Pending
<1>1. CASE OpenCamera \/ CloseCamera \/ Replug \/ BecomeReady \/ UNCHANGED vars
  BY <1>0, <1>1 DEF OpenCamera, CloseCamera, Replug, BecomeReady, hostVars, vars, Pending
<1>2. CASE Terminate
  <2>1. Service!Shutdown
    BY <1>2 DEF Terminate, Service!Shutdown
  <2> QED
    BY <2>1 DEF Service!Next
<1>3. ASSUME NEW t \in Threads, NEW r \in Requests, Call(t, r)
      PROVE  Service!Next
  <2>1. Service!Call(t, r)
    BY <1>3 DEF Call, Service!Call, Steps
  <2> QED
    BY <2>1 DEF Service!Next
<1>4. ASSUME NEW t \in Threads, Step(t)
      PROVE  [Service!Next]_(Service!vars)
  <2>0. req[t] # "none"
    BY FilesAssumption DEF Requests, Resources
  <2>1. CASE Throw(t)
    <3>1. Service!Abort(t)
      BY <2>0, <2>1 DEF Throw, DeviceSteps, Service!Abort
    <3> QED
      BY <3>1 DEF Service!Next
  <2>2. CASE Return(t)
    <3>1. result[t] \in AnswersTo(req[t])
      BY <2>2 DEF Return, BufferInv
    <3>2. Service!Complete(t)
      BY <2>0, <2>2, <3>1 DEF Return, Service!Complete
    <3> QED
      BY <3>2 DEF Service!Next
  <2>3. CASE ~Throw(t) /\ ~Return(t)
    <3>1. silent
      BY <1>4, <2>3
         DEF Step, Lock, FirstStep, TestUnitReady, Retry, Inquiry, RequestData,
             SendCommand, SendName, ReadStatus, GetLength, GetData, Unlock, Pending
    <3> QED
      BY <1>0, <3>1
  <2> QED
    BY <2>1, <2>2, <2>3
<1> QED
  BY <1>1, <1>2, <1>3, <1>4 DEF Next

(* The Camera implements CameraService for every instance whose files fit  *)
(* the packet counter: to its caller each call looks atomic, and answers   *)
(* what was asked or throws.                                               *)
THEOREM CameraImplementsService ==
    ASSUME FitsCounter
    PROVE  Spec => ServiceSpec
<1>1. Init => Service!Init
  BY DEF Init, Service!Init
<1>2. IndInv /\ [Next]_vars => [Service!Next]_(Service!vars)
  BY ServiceStep
<1> QED
  BY <1>1, <1>2, Invariance, PTL DEF Spec, ServiceSpec, Service!Spec
=============================================================================
