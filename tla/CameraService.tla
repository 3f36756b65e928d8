---------------------------- MODULE CameraService ---------------------------
(***************************************************************************)
(* What Lyli::Camera promises its callers (lib/camera.h): a call of        *)
(* waitReady, getCameraInformation, getPictureList or getFile takes place  *)
(* on its own, whatever other threads do.  It either completes with the    *)
(* data of what it asked for, or is aborted by an exception and yields     *)
(* nothing at all.                                                         *)
(***************************************************************************)
CONSTANTS
    Threads,
    Requests,   \* what can be asked for
    Answers,    \* for every request, the set of data it may be answered with
    NoRequest,
    NoReply

VARIABLES
    call,       \* the request each thread waits for, or NoRequest
    reply       \* what its last call returned, or NoReply

vars == <<call, reply>>

Init ==
    /\ call = [t \in Threads |-> NoRequest]
    /\ reply = [t \in Threads |-> NoReply]

Call(t, r) ==
    /\ call[t] = NoRequest
    /\ call' = [call EXCEPT ![t] = r]
    /\ reply' = [reply EXCEPT ![t] = NoReply]

(* The call returns, or writes to its stream, the data it was made for. *)
Complete(t) ==
    /\ call[t] # NoRequest
    /\ call' = [call EXCEPT ![t] = NoRequest]
    /\ \E d \in Answers[call[t]] :
          reply' = [reply EXCEPT ![t] = [of |-> call[t], data |-> d]]

(* The call throws. *)
Abort(t) ==
    /\ call[t] # NoRequest
    /\ call' = [call EXCEPT ![t] = NoRequest]
    /\ reply' = reply

(* The process ends. *)
Shutdown ==
    /\ call' = [t \in Threads |-> NoRequest]
    /\ reply' = [t \in Threads |-> NoReply]

Next ==
    \/ Shutdown
    \/ \E t \in Threads :
          Complete(t) \/ Abort(t) \/ \E r \in Requests : Call(t, r)

Spec == Init /\ [][Next]_vars
=============================================================================
