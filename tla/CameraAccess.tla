---------------------------- MODULE CameraAccess ----------------------------
(***************************************************************************)
(* Lyli::Camera (lib/camera.cpp): the threads of one process share one     *)
(* Camera object and, through it, one USB mass-storage device.             *)
(*                                                                         *)
(* The camera serves data in two phases.  A request command (0xc2) loads a *)
(* resource (the camera information, the picture list or a named file)     *)
(* into the camera's single transfer buffer; read commands (0xc6, 0xc4)    *)
(* then return that buffer packet by packet, each addressed by a packet    *)
(* number that the host keeps in an unsigned char.  The host stops at the  *)
(* first packet that is not full (65536 bytes).  The buffer, its length    *)
(* and the protocol phase survive on the device whatever happens to the    *)
(* host process; only cameraAccessMutex keeps the threads of one process   *)
(* from loading over each other.                                           *)
(*                                                                         *)
(* libusbpp and the camera's firmware are not part of the repository: they *)
(* are modelled from the way camera.cpp uses them.                         *)
(***************************************************************************)
EXTENDS Integers, Sequences, FiniteSets

CONSTANTS
    Threads,        \* threads that call the Camera (GUI thread, download thread)
    NoThread,       \* the mutex is free
    Files,          \* file names the callers ask for
    Missing,        \* those of them the camera does not hold
    FullPackets,    \* number of full packets of every resource
    PacketValues,   \* number of values of the packet counter, 2^8 in the code
    MaxPackets      \* bound on the packets collected by one downloadData

Resources == {"info", "list"} \union Files

(* What the transfer buffer of the camera may hold: a resource or no data. *)
Contents == Resources \union {"nothing"}

(* The calls of the public interface, named by what they fetch; "ready" is *)
(* waitReady.                                                              *)
Requests == Resources \union {"ready"}

ASSUME ThreadsAssumption == NoThread \notin Threads

ASSUME FilesAssumption ==
    /\ Files \intersect {"info", "list", "nothing", "ready", "none"} = {}
    /\ Missing \subseteq Files

ASSUME PacketsAssumption ==
    /\ FullPackets \in [Contents -> Nat]
    /\ FullPackets["nothing"] = 0
    /\ PacketValues \in Nat \ {0}
    /\ MaxPackets \in Nat

(* Every resource the camera holds can be addressed by the packet counter. *)
FitsCounter == \A r \in Contents : FullPackets[r] < PacketValues

VARIABLES
    handle,     \* the Camera object's device: "none", "open", "stale" (unplugged)
    mutex,      \* cameraAccessMutex: its owner or NoThread
    pc,         \* where each thread is in the call it makes
    req,        \* the argument of that call
    packet,     \* downloadData's unsigned char packet
    result,     \* downloadData's result buffer, a sequence of packets
    reply,      \* what the thread's last call returned or wrote to its stream
    loaded,     \* device: what its transfer buffer holds
    phase,      \* device: the transfer it expects next
    ready       \* device: passes TEST UNIT READY

hostVars == <<handle, mutex, pc, req, packet, result, reply>>
deviceVars == <<loaded, phase, ready>>
vars == <<handle, mutex, pc, req, packet, result, reply, loaded, phase, ready>>

(* Steps that talk to the device, all of them with the mutex held. *)
DeviceSteps == {"test", "inquiry", "request", "command", "name", "status",
                "getlen", "data"}
LockedSteps == DeviceSteps \union {"retry", "unlock"}
Steps == LockedSteps \union {"idle", "lock", "return"}

(* "command": a command block; "name": the file name that follows 0xc2 01; *)
(* "status": the host must read the request's status; "halted": an         *)
(* endpoint is stalled, everything fails until the camera is reconnected.  *)
Phases == {"command", "name", "status", "halted"}

(* A packet is known by the resource it was cut from and its number. *)
Packet(r, n) == [of |-> r, number |-> n]

(* The first n packets of a resource, and all of them. *)
Prefix(r, n) == [i \in 1..n |-> Packet(r, i - 1)]
Content(r) == Prefix(r, FullPackets[r] + 1)

Buffers == Seq([of : Contents, number : Nat])
Replies == [of : Requests, data : Buffers]
NoReply == [of |-> "none", data |-> << >>]

-----------------------------------------------------------------------------
Init ==
    /\ handle = "none"
    /\ mutex = NoThread
    /\ pc = [t \in Threads |-> "idle"]
    /\ req = [t \in Threads |-> "ready"]
    /\ packet = [t \in Threads |-> 0]
    /\ result = [t \in Threads |-> << >>]
    /\ reply = [t \in Threads |-> NoReply]
    /\ loaded \in Contents \ Missing
    /\ phase = "command"
    /\ ready = FALSE

Goto(t, step) == pc' = [pc EXCEPT ![t] = step]

AllIdle == \A t \in Threads : pc[t] = "idle"

(* Camera::Impl's constructor: opens the device and claims the interface.  *)
(* The halt is not cleared and the device is not reset, so it keeps the    *)
(* buffer and the phase an earlier process left.                           *)
OpenCamera ==
    /\ handle # "open"
    /\ AllIdle
    /\ handle' = "open"
    /\ UNCHANGED <<mutex, pc, req, packet, result, reply, deviceVars>>

(* ~Impl: closes the device. *)
CloseCamera ==
    /\ handle # "none"
    /\ AllIdle
    /\ handle' = "none"
    /\ UNCHANGED <<mutex, pc, req, packet, result, reply, deviceVars>>

(* A thread enters waitReady, getCameraInformation, getPictureList or getFile. *)
Call(t, r) ==
    /\ pc[t] = "idle"
    /\ handle # "none"
    /\ Goto(t, "lock")
    /\ req' = [req EXCEPT ![t] = r]
    /\ result' = [result EXCEPT ![t] = << >>]
    /\ reply' = [reply EXCEPT ![t] = NoReply]
    /\ UNCHANGED <<handle, mutex, packet, deviceVars>>

(* The first step of a call after it has taken the mutex. *)
FirstStep(r) ==
    CASE r = "ready" -> "test"
      [] r = "info" -> "inquiry"
      [] r = "list" -> "request"
      [] OTHER -> "command"

(* Wrong variant of Lock, to test the properties: the call does not take   *)
(* the mutex from its owner.                                               *)
LockUnguarded(t) ==
    /\ pc[t] = "lock"
    /\ mutex' = t
    /\ Goto(t, FirstStep(req[t]))
    /\ UNCHANGED <<handle, req, packet, result, reply, deviceVars>>

(* std::unique_lock cameraLock(cameraAccessMutex) *)
Lock(t) ==
    /\ pc[t] = "lock"
    /\ mutex = NoThread
    /\ mutex' = t
    /\ Goto(t, FirstStep(req[t]))
    /\ UNCHANGED <<handle, req, packet, result, reply, deviceVars>>

(* The transfer expected next by the device is the one the thread makes. *)
Transfer(t, step, expected) ==
    /\ pc[t] = step
    /\ handle = "open"
    /\ phase = expected

(* isReady: the command's status tells whether waitReady polls again. *)
TestUnitReady(t) ==
    /\ Transfer(t, "test", "command")
    /\ Goto(t, IF ready THEN "unlock" ELSE "retry")
    /\ UNCHANGED <<handle, mutex, req, packet, result, reply, deviceVars>>

(* waitReady: isReady has released the mutex and is called again. *)
Retry(t) ==
    /\ pc[t] = "retry"
    /\ mutex' = NoThread
    /\ Goto(t, "lock")
    /\ UNCHANGED <<handle, req, packet, result, reply, deviceVars>>

(* getCameraInformation: the SCSI inquiry before the request. *)
Inquiry(t) ==
    /\ Transfer(t, "inquiry", "command")
    /\ Goto(t, "request")
    /\ UNCHANGED <<handle, mutex, req, packet, result, reply, deviceVars>>

(* getCameraInformation, getPictureList: the request is one command. *)
RequestData(t) ==
    /\ Transfer(t, "request", "command")
    /\ Goto(t, "getlen")
    /\ loaded' = req[t]
    /\ UNCHANGED <<handle, mutex, req, packet, result, reply, phase, ready>>

(* getFile: the request's command block goes out. *)
SendCommand(t) ==
    /\ Transfer(t, "command", "command")
    /\ Goto(t, "name")
    /\ phase' = "name"
    /\ UNCHANGED <<handle, mutex, req, packet, result, reply, loaded, ready>>

(* getFile: the file name goes out.  The camera loads the file, or refuses *)
(* a name it does not know and keeps or drops what was loaded before.      *)
SendName(t) ==
    /\ Transfer(t, "name", "name")
    /\ Goto(t, "status")
    /\ phase' = "status"
    /\ loaded' \in IF req[t] \in Missing THEN {loaded, "nothing"} ELSE {req[t]}
    /\ UNCHANGED <<handle, mutex, req, packet, result, reply, ready>>

(* getFile: the status of the request is read into dataBuffer, which is    *)
(* not looked at.                                                          *)
ReadStatus(t) ==
    /\ Transfer(t, "status", "status")
    /\ Goto(t, "getlen")
    /\ phase' = "command"
    /\ UNCHANGED <<handle, mutex, req, packet, result, reply, loaded, ready>>

(* downloadData: asks for the length, ignores it, starts at packet 0. *)
GetLength(t) ==
    /\ Transfer(t, "getlen", "command")
    /\ Goto(t, "data")
    /\ packet' = [packet EXCEPT ![t] = 0]
    /\ result' = [result EXCEPT ![t] = << >>]
    /\ UNCHANGED <<handle, mutex, req, reply, deviceVars>>

(* Wrong variant of GetData: the counter does not wrap. *)
GetDataNoWrap(t) ==
    /\ Transfer(t, "data", "command")
    /\ Len(result[t]) < MaxPackets
    /\ packet' = [packet EXCEPT ![t] = @ + 1]
    /\ result' = [result EXCEPT ![t] = Append(@, Packet(loaded, packet[t]))]
    /\ Goto(t, IF packet[t] < FullPackets[loaded] THEN "data" ELSE "unlock")
    /\ UNCHANGED <<handle, mutex, req, reply, deviceVars>>

(* downloadData: one round of the loop.  The packet is full unless it is   *)
(* the last one of what is loaded.                                         *)
GetData(t) ==
    /\ Transfer(t, "data", "command")
    /\ Len(result[t]) < MaxPackets
    /\ packet' = [packet EXCEPT ![t] = (@ + 1) % PacketValues]
    /\ result' = [result EXCEPT ![t] = Append(@, Packet(loaded, packet[t]))]
    /\ Goto(t, IF packet[t] < FullPackets[loaded] THEN "data" ELSE "unlock")
    /\ UNCHANGED <<handle, mutex, req, reply, deviceVars>>

(* cameraLock.unlock() *)
Unlock(t) ==
    /\ pc[t] = "unlock"
    /\ mutex' = NoThread
    /\ Goto(t, "return")
    /\ UNCHANGED <<handle, req, packet, result, reply, deviceVars>>

(* Wrong variant of Return: the data goes to the stream of one caller,     *)
(* whoever made the call.                                                  *)
ReturnToOther(t) ==
    /\ pc[t] = "return"
    /\ Goto(t, "idle")
    /\ reply' = [reply EXCEPT ![CHOOSE u \in Threads : TRUE] =
                    [of |-> req[t], data |-> result[t]]]
    /\ UNCHANGED <<handle, mutex, req, packet, result, deviceVars>>

(* The buffer is returned, or written to the stream, after the unlock. *)
Return(t) ==
    /\ pc[t] = "return"
    /\ Goto(t, "idle")
    /\ reply' = [reply EXCEPT ![t] = [of |-> req[t], data |-> result[t]]]
    /\ UNCHANGED <<handle, mutex, req, packet, result, deviceVars>>

(* What a transfer that fails half way may leave on the device. *)
DeviceUpset(t) ==
    IF handle = "open"
    THEN /\ phase' \in Phases
         /\ loaded' \in {loaded, "nothing"} \union ({req[t]} \ (Missing \union {"ready"}))
    ELSE UNCHANGED <<phase, loaded>>

(* Wrong variant of Throw: a bare mutex instead of a std::unique_lock stays *)
(* locked when the exception leaves the call.                               *)
ThrowKeepsLock(t) ==
    /\ pc[t] \in DeviceSteps
    /\ Goto(t, "idle")
    /\ result' = [result EXCEPT ![t] = << >>]
    /\ DeviceUpset(t)
    /\ UNCHANGED <<handle, mutex, req, packet, reply, ready>>

(* Wrong variant of Throw: the caller gets what was collected so far. *)
ThrowReturnsPartial(t) ==
    /\ pc[t] \in DeviceSteps
    /\ mutex' = NoThread
    /\ Goto(t, "idle")
    /\ reply' = [reply EXCEPT ![t] = [of |-> req[t], data |-> result[t]]]
    /\ DeviceUpset(t)
    /\ UNCHANGED <<handle, req, packet, result, ready>>

(* libusbpp throws: the transfer fails, the device is gone, or it does not *)
(* expect this transfer.  Unwinding destroys cameraLock and the buffers.   *)
Throw(t) ==
    /\ pc[t] \in DeviceSteps
    /\ mutex' = NoThread
    /\ Goto(t, "idle")
    /\ result' = [result EXCEPT ![t] = << >>]
    /\ DeviceUpset(t)
    /\ UNCHANGED <<handle, req, packet, reply, ready>>

(* The process ends: no caller outside getCameras catches Usbpp::Exception, *)
(* and a user may kill it.  The device lives on, perhaps in mid-transfer.   *)
Terminate ==
    /\ handle # "none"
    /\ handle' = "none"
    /\ mutex' = NoThread
    /\ pc' = [t \in Threads |-> "idle"]
    /\ result' = [t \in Threads |-> << >>]
    /\ reply' = [t \in Threads |-> NoReply]
    /\ \/ \E t \in Threads : pc[t] \in DeviceSteps /\ DeviceUpset(t)
       \/ UNCHANGED <<phase, loaded>>
    /\ UNCHANGED <<req, packet, ready>>

(* The user reconnects the camera: the device starts afresh, the open      *)
(* handle is dead.                                                         *)
Replug ==
    /\ handle' = IF handle = "open" THEN "stale" ELSE handle
    /\ loaded' = "nothing"
    /\ phase' = "command"
    /\ ready' = FALSE
    /\ UNCHANGED <<mutex, pc, req, packet, result, reply>>

(* The camera finishes booting. *)
BecomeReady ==
    /\ ~ready
    /\ ready' = TRUE
    /\ UNCHANGED <<hostVars, loaded, phase>>

(* The steps a thread takes by itself once it is in a call. *)
Step(t) ==
    \/ Lock(t) \/ TestUnitReady(t) \/ Retry(t) \/ Inquiry(t)
    \/ RequestData(t) \/ SendCommand(t) \/ SendName(t) \/ ReadStatus(t)
    \/ GetLength(t) \/ GetData(t) \/ Unlock(t) \/ Return(t) \/ Throw(t)

Next ==
    \/ OpenCamera \/ CloseCamera \/ Terminate \/ Replug \/ BecomeReady
    \/ \E t \in Threads : Step(t) \/ \E r \in Requests : Call(t, r)

Spec == Init /\ [][Next]_vars

(* A thread in a call is scheduled, and every transfer succeeds or fails;  *)
(* a connected camera boots.  Nothing is assumed of the order in which     *)
(* std::mutex admits threads.                                              *)
Fairness ==
    /\ \A t \in Threads : WF_vars(Step(t))
    /\ WF_vars(BecomeReady)

FairSpec == Spec /\ Fairness

-----------------------------------------------------------------------------
(* Type correctness; in particular the packet counter stays an unsigned    *)
(* char.                                                                   *)
TypeOK ==
    /\ handle \in {"none", "open", "stale"}
    /\ mutex \in Threads \union {NoThread}
    /\ pc \in [Threads -> Steps]
    /\ req \in [Threads -> Requests]
    /\ packet \in [Threads -> 0..(PacketValues - 1)]
    /\ result \in [Threads -> Buffers]
    /\ reply \in [Threads -> Replies \union {NoReply}]
    /\ loaded \in Contents \ Missing
    /\ phase \in Phases
    /\ ready \in BOOLEAN

(* The data a request may be answered with.  For a file the camera does    *)
(* not hold it is whatever the camera had loaded before.                   *)
AnswersTo(r) ==
    IF r = "ready" THEN {<< >>}
    ELSE IF r \in Missing THEN {Content(c) : c \in Contents \ Missing}
    ELSE {Content(r)}

(* A call that returns has returned the whole of what it asked for and     *)
(* nothing else: getFile's stream, getPictureList's and                    *)
(* getCameraInformation's buffer are never mixed up between threads, cut   *)
(* short by a failure or continued after the camera was reconnected.       *)
ReplyIsRequested ==
    \A t \in Threads :
        reply[t] # NoReply => reply[t].data \in AnswersTo(reply[t].of)

(* downloadData collects the packets of one resource, in order and each    *)
(* once.                                                                   *)
BufferFromOneResource ==
    \A t \in Threads :
        \E r \in Contents : result[t] = Prefix(r, Len(result[t]))

(* No thread keeps the camera to itself: cameraAccessMutex is released     *)
(* again after every call, also after an exception, a failing device and a *)
(* file as long as the packet counter allows.                              *)
LockReleased == \A t \in Threads : mutex = t ~> mutex # t

(* The Camera implements CameraService: every call looks atomic to its     *)
(* caller.                                                                 *)
Service == INSTANCE CameraService WITH
    Answers <- [r \in Requests |-> AnswersTo(r)],
    NoRequest <- "none",
    call <- [t \in Threads |-> IF pc[t] = "idle" THEN "none" ELSE req[t]]

ServiceSpec == Service!Spec

-----------------------------------------------------------------------------
(* The invariant behind ReplyIsRequested and BufferFromOneResource.        *)

(* A thread is between lock and unlock exactly when it owns the mutex. *)
LockInv == \A t \in Threads : pc[t] \in LockedSteps <=> mutex = t

(* Every call only reaches the steps of its own operation. *)
RequestInv ==
    \A t \in Threads :
        /\ pc[t] \in {"test", "retry"} => req[t] = "ready"
        /\ pc[t] \in {"inquiry", "request"} => req[t] \in {"info", "list"}
        /\ pc[t] \in {"command", "name", "status"} => req[t] \in Files
        /\ pc[t] \in {"getlen", "data"} => req[t] \in Resources

(* From the request to the last packet the device holds what was asked     *)
(* for, as long as the handle is the one the request was made through.     *)
LoadedInv ==
    \A t \in Threads :
        handle = "open" /\ pc[t] \in {"status", "getlen", "data"} =>
            req[t] \in Missing \/ loaded = req[t]

(* The packets collected so far, while downloading and when it is done. *)
BufferInv ==
    \A t \in Threads :
        /\ pc[t] \in {"lock", "test", "retry"} => result[t] = << >>
        /\ pc[t] = "data" /\ handle = "open" =>
              /\ packet[t] <= FullPackets[loaded]
              /\ result[t] = Prefix(loaded, packet[t])
        /\ pc[t] \in {"unlock", "return"} => result[t] \in AnswersTo(req[t])

IndInv ==
    /\ TypeOK
    /\ LockInv
    /\ RequestInv
    /\ LoadedInv
    /\ BufferInv
    /\ BufferFromOneResource
    /\ ReplyIsRequested
=============================================================================
