---------------------- MODULE DiagnosticDriversProofs ----------------------
(***************************************************************************)
(* What the diagnostic drivers keep, for any number of threads, prompts,   *)
(* tokens, calls and plans: a call owns the environment and the workspace  *)
(* it uses and leaves them clean, what it publishes is whole, and a        *)
(* capture and a replay show exactly what their own call did.              *)
(***************************************************************************)
EXTENDS DiagnosticDrivers, SeqOrderProofs

-----------------------------------------------------------------------------
(* Who owns the environment variables and the workspaces of a capture.     *)

Working == {"locking", "prepare", "stepping", "generated", "reading"}

Holding == {"prepare", "stepping", "generated"}

(* The fields of the records, whatever they hold.                          *)
ThreadShape(f) ==
  f = [t \in Threads |-> [pc |-> f[t].pc, call |-> f[t].call, result |-> f[t].result]]

DirShape(f) ==
  f = [c \in CallIds |-> [exists |-> f[c].exists, files |-> f[c].files,
                          artifact |-> f[c].artifact]]

CaptureShaped(s) == s = [call |-> s.call, spools |-> s.spools, published |-> s.published]

CapShape ==
  /\ nonce \in 0 .. MaxCalls /\ lock \in Threads \cup {"free"}
  /\ ThreadShape(thread) /\ DirShape(dirs) /\ CaptureShaped(capture)
  /\ \A t \in Threads : /\ thread[t].pc \in {"idle"} \cup Working \cup (Over \ {"occupied"})
                        /\ thread[t].call \in 0 .. nonce

(* A call that began has a number of its own.                              *)
OwnCalls ==
  /\ \A t \in Threads : thread[t].pc \in Working => thread[t].call # 0
  /\ \A s, t \in Threads : s # t /\ thread[s].call = thread[t].call => thread[s].call = 0

(* The lock is held from install to drop, and the variables name its       *)
(* holder's call.                                                          *)
LockOwned ==
  /\ \A t \in Threads : thread[t].pc \in Holding <=> lock = t
  /\ lock = "free" => captureEnv = 0
  /\ \A t \in Threads : lock = t => captureEnv = thread[t].call
  /\ \A t \in Threads : thread[t].pc \in {"stepping", "generated"} =>
                          capture.call = thread[t].call

(* A directory belongs to a call that runs, its files to one that steps.   *)
DirsOwned ==
  /\ \A c \in CallIds : dirs[c].exists =>
       \E t \in Threads : thread[t].call = c /\ thread[t].pc \in Working
  /\ \A c \in CallIds : dirs[c].files # {} =>
       \E t \in Threads : thread[t].call = c /\ thread[t].pc = "stepping"

CapOwned == CapShape /\ OwnCalls /\ LockOwned /\ DirsOwned

(* What one call does to the threads and to the directories.               *)
ThreadMoves(t, pc, k, r) ==
  /\ ThreadShape(thread')
  /\ thread'[t].pc = pc /\ thread'[t].call = k /\ thread'[t].result = r
  /\ \A s \in Threads \ {t} : thread'[s] = thread[s]

DirMoves(c, e, f, a) ==
  /\ DirShape(dirs')
  /\ dirs'[c].exists = e /\ dirs'[c].files = f /\ dirs'[c].artifact = a
  /\ \A d \in CallIds \ {c} : dirs'[d] = dirs[d]

LEMMA SetThread ==
  ASSUME ThreadShape(thread), NEW t \in Threads, NEW pc, NEW k, NEW r,
         thread' = [thread EXCEPT ![t] = [pc |-> pc, call |-> k, result |-> r]]
  PROVE  ThreadMoves(t, pc, k, r)
<1>1. DOMAIN thread = Threads
  BY DEF ThreadShape
<1>2. /\ DOMAIN thread' = Threads
      /\ thread'[t] = [pc |-> pc, call |-> k, result |-> r]
      /\ \A s \in Threads \ {t} : thread'[s] = thread[s]
  BY <1>1
<1>3. thread' = [s \in Threads |-> thread'[s]]
  BY <1>1
<1>4. \A s \in Threads : thread'[s] = [pc |-> thread'[s].pc, call |-> thread'[s].call,
                                       result |-> thread'[s].result]
  BY <1>2 DEF ThreadShape
<1>5. ThreadShape(thread')
  BY <1>3, <1>4 DEF ThreadShape
<1> QED
  BY <1>2, <1>5 DEF ThreadMoves

LEMMA SetPc ==
  ASSUME ThreadShape(thread), NEW t \in Threads, NEW pc,
         thread' = [thread EXCEPT ![t].pc = pc]
  PROVE  ThreadMoves(t, pc, thread[t].call, thread[t].result)
<1>1. [thread[t] EXCEPT !.pc = pc] = [pc |-> pc, call |-> thread[t].call, result |-> thread[t].result]
  BY DEF ThreadShape
<1> QED
  BY <1>1, SetThread

LEMMA SetPcResult ==
  ASSUME ThreadShape(thread), NEW t \in Threads, NEW pc, NEW r,
         thread' = [thread EXCEPT ![t].pc = pc, ![t].result = r]
  PROVE  ThreadMoves(t, pc, thread[t].call, r)
<1>1. /\ DOMAIN thread = Threads
      /\ thread[t] = [pc |-> thread[t].pc, call |-> thread[t].call, result |-> thread[t].result]
  BY DEF ThreadShape
<1> DEFINE mid == [thread EXCEPT ![t].pc = pc]
<1>2. mid[t] = [pc |-> pc, call |-> thread[t].call, result |-> thread[t].result]
  BY <1>1
<1>3. thread'[t] = [mid[t] EXCEPT !.result = r] /\ thread' = [mid EXCEPT ![t] = thread'[t]]
  BY <1>1
<1>4. thread'[t] = [pc |-> pc, call |-> thread[t].call, result |-> r]
  BY <1>2, <1>3
<1>5. thread' = [thread EXCEPT ![t] = thread'[t]]
  BY <1>1, <1>3
<1> QED
  BY <1>4, <1>5, SetThread

LEMMA CapOwnedInit == CapInit => CapOwned
BY CaptureShape DEF CapInit, CapOwned, CapShape, OwnCalls, LockOwned, DirsOwned, ThreadShape, DirShape,
   CaptureShaped, Working, Holding, Over, NoDir, NoSession, CallIds
LEMMA SetDir ==
  ASSUME DirShape(dirs), NEW c \in CallIds, NEW e, NEW f, NEW a,
         dirs' = [dirs EXCEPT ![c] = [exists |-> e, files |-> f, artifact |-> a]]
  PROVE  DirMoves(c, e, f, a)
<1>1. DOMAIN dirs = CallIds
  BY DEF DirShape
<1>2. /\ DOMAIN dirs' = CallIds
      /\ dirs'[c] = [exists |-> e, files |-> f, artifact |-> a]
      /\ \A d \in CallIds \ {c} : dirs'[d] = dirs[d]
  BY <1>1
<1>3. DirShape(dirs')
  <2>1. \A d \in CallIds : dirs'[d] = [exists |-> dirs'[d].exists, files |-> dirs'[d].files,
                                       artifact |-> dirs'[d].artifact]
    BY <1>2 DEF DirShape
  <2>2. dirs' = [d \in CallIds |-> dirs'[d]]
    BY <1>1, <1>2
  <2> QED
    BY <2>1, <2>2 DEF DirShape
<1> QED
  BY <1>2, <1>3 DEF DirMoves

(* A dropped session leaves a directory that its workspace can remove.     *)
LEMMA Dropped ==
  ASSUME DirShape(dirs), NEW c \in CallIds
  PROVE  Emptied(DropSession(dirs[c])) = NoDir /\ (dirs[c].files = {} => Emptied(dirs[c]) = NoDir)
<1>1. DropSession(dirs[c]).files = {}
  BY DEF DropSession, DirShape
<1> QED
  BY <1>1 DEF Emptied

(* A step that touches only its own directory leaves the others owned.     *)
LEMMA DirsStayOwned ==
  ASSUME DirsOwned, NEW t \in Threads, NEW pc, NEW k, NEW r, ThreadMoves(t, pc, k, r),
         NEW c \in CallIds, NEW e, NEW f, NEW a, DirMoves(c, e, f, a),
         e => k = c /\ pc \in Working, f # {} => k = c /\ pc = "stepping",
         thread[t].pc \in Working => thread[t].call = c
  PROVE  DirsOwned'
<1>1. ASSUME NEW d \in CallIds \ {c}, NEW s \in Threads,
             thread[s].call = d, thread[s].pc \in Working
      PROVE  thread'[s].call = d /\ thread'[s].pc = thread[s].pc
  BY <1>1 DEF ThreadMoves
<1>2. ASSUME NEW d \in CallIds, dirs'[d].exists
      PROVE  \E s \in Threads : thread'[s].call = d /\ thread'[s].pc \in Working
  <2>1. CASE d = c
    BY <1>2, <2>1 DEF DirMoves, ThreadMoves
  <2>2. CASE d # c
    <3>1. PICK s \in Threads : thread[s].call = d /\ thread[s].pc \in Working
      BY <1>2, <2>2 DEF DirMoves, DirsOwned
    <3> QED
      BY <1>1, <2>2, <3>1
  <2> QED
    BY <2>1, <2>2
<1>3. ASSUME NEW d \in CallIds, dirs'[d].files # {}
      PROVE  \E s \in Threads : thread'[s].call = d /\ thread'[s].pc = "stepping"
  <2>1. CASE d = c
    BY <1>3, <2>1 DEF DirMoves, ThreadMoves
  <2>2. CASE d # c
    <3>1. PICK s \in Threads : thread[s].call = d /\ thread[s].pc = "stepping"
      BY <1>3, <2>2 DEF DirMoves, DirsOwned
    <3> QED
      BY <1>1, <2>2, <3>1 DEF Working
  <2> QED
    BY <2>1, <2>2
<1> QED
  BY <1>2, <1>3 DEF DirsOwned

(* Calls that a thread at work makes are numbered 1 .. nonce.              *)
LEMMA WorkingCall ==
  ASSUME CapOwned, NEW t \in Threads, thread[t].pc \in Working
  PROVE  thread[t].call \in CallIds /\ thread[t].call \in 1 .. nonce
BY CaptureShape DEF CapOwned, CapShape, OwnCalls, CallIds

(* An ended call: its thread is over, its lock free, its directory gone.   *)
LEMMA UnwindOwned ==
  ASSUME CapOwned, NEW t \in Threads, NEW how \in {"err", "panic"},
         thread[t].pc \in {"prepare", "stepping"}, Unwind(t, how)
  PROVE  CapOwned'
<1> DEFINE c == thread[t].call
<1>1. c \in CallIds /\ c # 0
  BY WorkingCall DEF Working, CallIds
<1>2. ThreadMoves(t, how, c, thread[t].result)
  BY SetPc DEF Unwind, Returned, CapOwned, CapShape
<1>3. DirMoves(c, FALSE, {}, <<>>)
  <2>1. dirs' = [dirs EXCEPT ![c] = [exists |-> FALSE, files |-> {}, artifact |-> <<>>]]
    BY <1>1, Dropped DEF Unwind, CapOwned, CapShape, NoDir
  <2> QED
    BY <1>1, <2>1, SetDir DEF CapOwned, CapShape
<1>4. lock = t /\ lock' = "free" /\ captureEnv' = 0 /\ nonce' = nonce /\ capture' = NoSession
  BY DEF Unwind, ReleaseEnvironment, CapOwned, LockOwned, Holding
<1> HIDE DEF c
<1>5. CapShape'
  BY <1>2, <1>3, <1>4, CaptureShape
  DEF CapOwned, CapShape, ThreadMoves, DirMoves, CaptureShaped, NoSession, Over, c
<1>6. OwnCalls'
  BY <1>2 DEF CapOwned, OwnCalls, ThreadMoves, Working, c
<1>7. LockOwned'
  BY <1>2, <1>4, CaptureShape DEF CapOwned, CapShape, LockOwned, ThreadMoves, Holding, c
<1>8. DirsOwned'
  BY <1>1, <1>2, <1>3, DirsStayOwned DEF CapOwned, c
<1> QED
  BY <1>5, <1>6, <1>7, <1>8 DEF CapOwned

LEMMA BeginOwned ==
  ASSUME CapOwned, NEW t \in Threads, Begin(t)
  PROVE  CapOwned'
<1> DEFINE c == nonce + 1
<1>1. PICK created \in BOOLEAN :
        /\ thread' = [thread EXCEPT ![t] = [pc |-> IF created THEN "locking" ELSE "err",
                                            call |-> c, result |-> <<>>]]
        /\ dirs' = [dirs EXCEPT ![c] = [NoDir EXCEPT !.exists = created]]
  BY DEF Begin
<1>2. /\ thread[t].pc \in {"idle"} \cup (Over \ {"panic"}) /\ nonce < MaxCalls /\ nonce' = c
      /\ UNCHANGED <<lock, poisoned, captureEnv, capture, sampled, preserved>>
  BY DEF Begin
<1>3. c \in CallIds /\ nonce \in Nat /\ c # 0
  BY <1>2, CaptureShape DEF CapOwned, CapShape, CallIds
<1> DEFINE pc == IF created THEN "locking" ELSE "err"
<1>4. ThreadMoves(t, pc, c, <<>>)
  BY <1>1, SetThread DEF CapOwned, CapShape
<1>5. DirMoves(c, created, {}, <<>>)
  <2>1. dirs' = [dirs EXCEPT ![c] = [exists |-> created, files |-> {}, artifact |-> <<>>]]
    <3>1. [NoDir EXCEPT !.exists = created] = [exists |-> created, files |-> {}, artifact |-> <<>>]
      BY DEF NoDir
    <3> QED
      BY <1>1, <3>1, Zenon
  <2> QED
    BY <1>3, <2>1, SetDir DEF CapOwned, CapShape
<1>6. pc \in {"locking", "err"} /\ (created => pc = "locking")
  OBVIOUS
<1>7. \A s \in Threads : thread[s].call < c
  BY <1>3 DEF CapOwned, CapShape
<1>8. lock # t
  BY <1>2 DEF CapOwned, LockOwned, Holding, Over
<1> HIDE DEF pc, c
<1>9. CapShape'
  BY <1>2, <1>3, <1>4, <1>5, <1>6, CaptureShape
  DEF CapOwned, CapShape, ThreadMoves, DirMoves, CaptureShaped, Over, Working, c
<1>10. OwnCalls'
  BY <1>3, <1>4, <1>7 DEF CapOwned, CapShape, OwnCalls, ThreadMoves, Working
<1>11. LockOwned'
  BY <1>2, <1>4, <1>6, <1>8 DEF CapOwned, CapShape, LockOwned, ThreadMoves, Holding
<1>12. DirsOwned'
  <2>1. thread[t].pc \notin Working
    BY <1>2 DEF Over, Working
  <2> QED
    BY <1>3, <1>4, <1>5, <1>6, <2>1, DirsStayOwned DEF CapOwned, Working
<1> QED
  BY <1>9, <1>10, <1>11, <1>12 DEF CapOwned
(* A step of one thread that leaves the directories alone.                 *)
LEMMA DirsUntouched ==
  ASSUME DirsOwned, UNCHANGED dirs, NEW t \in Threads, NEW pc, NEW r,
         ThreadMoves(t, pc, thread[t].call, r),
         pc \in Working, thread[t].pc = "stepping" => pc = "stepping"
  PROVE  DirsOwned'
<1>1. ASSUME NEW d \in CallIds, dirs'[d].exists
      PROVE  \E s \in Threads : thread'[s].call = d /\ thread'[s].pc \in Working
  BY <1>1 DEF DirsOwned, ThreadMoves
<1>2. ASSUME NEW d \in CallIds, dirs'[d].files # {}
      PROVE  \E s \in Threads : thread'[s].call = d /\ thread'[s].pc = "stepping"
  BY <1>2 DEF DirsOwned, ThreadMoves
<1> QED
  BY <1>1, <1>2 DEF DirsOwned

LEMMA InstallOwned ==
  ASSUME CapOwned, NEW t \in Threads, Install(t)
  PROVE  CapOwned'
<1> DEFINE c == thread[t].call
<1>1. c \in CallIds /\ c # 0 /\ thread[t].pc = "locking" /\ lock = "free" /\ captureEnv = 0
  BY WorkingCall DEF Working, Install, LockFree, CallIds, CapOwned, LockOwned
<1>2. UNCHANGED <<poisoned, nonce, capture, sampled, preserved>>
  BY DEF Install
<1>3. CASE poisoned
  <2>1. /\ thread' = [thread EXCEPT ![t].pc = "poisoned"]
        /\ dirs' = [dirs EXCEPT ![c] = Emptied(@)]
        /\ UNCHANGED <<lock, captureEnv>>
    BY <1>3 DEF Install, Returned
  <2>2. ThreadMoves(t, "poisoned", c, thread[t].result)
    BY <2>1, SetPc DEF CapOwned, CapShape
  <2>3. dirs[c].files = {}
    BY <1>1 DEF CapOwned, DirsOwned, OwnCalls
  <2>4. DirMoves(c, FALSE, {}, <<>>)
    <3>1. dirs' = [dirs EXCEPT ![c] = [exists |-> FALSE, files |-> {}, artifact |-> <<>>]]
      BY <1>1, <2>1, <2>3, Dropped DEF CapOwned, CapShape, NoDir
    <3> QED
      BY <1>1, <3>1, SetDir DEF CapOwned, CapShape
  <2> HIDE DEF c
  <2>5. CapShape'
    BY <1>2, <2>1, <2>2, <2>4, CaptureShape DEF CapOwned, CapShape, ThreadMoves, DirMoves, Over, c
  <2>6. OwnCalls'
    BY <2>2 DEF CapOwned, OwnCalls, ThreadMoves, Working, c
  <2>7. LockOwned'
    BY <1>1, <1>2, <2>1, <2>2, CaptureShape DEF CapOwned, CapShape, LockOwned, ThreadMoves, Holding, c
  <2>8. DirsOwned'
    BY <1>1, <2>2, <2>4, DirsStayOwned DEF CapOwned, c
  <2> QED
    BY <2>5, <2>6, <2>7, <2>8 DEF CapOwned
<1>4. CASE ~poisoned
  <2>1. /\ lock' = t /\ captureEnv' = c /\ UNCHANGED dirs
        /\ thread' = [thread EXCEPT ![t].pc = "prepare"]
    BY <1>1, <1>4 DEF Install
  <2>2. ThreadMoves(t, "prepare", c, thread[t].result)
    BY <2>1, SetPc DEF CapOwned, CapShape
  <2> HIDE DEF c
  <2>5. CapShape'
    BY <1>2, <2>1, <2>2, CaptureShape DEF CapOwned, CapShape, ThreadMoves, DirMoves, Working, c
  <2>6. OwnCalls'
    BY <1>1, <2>2 DEF CapOwned, OwnCalls, ThreadMoves, Working, c
  <2>7. LockOwned'
    BY <1>1, <1>2, <2>1, <2>2, CaptureShape DEF CapOwned, CapShape, LockOwned, ThreadMoves, Holding, c
  <2>8. DirsOwned'
    BY <1>1, <2>1, <2>2, DirsUntouched DEF CapOwned, Working, c
  <2> QED
    BY <2>5, <2>6, <2>7, <2>8 DEF CapOwned
<1> QED
  BY <1>3, <1>4

(* Only one thread at a time is inside generate.                           *)
LEMMA OneHolder ==
  ASSUME CapOwned, NEW t \in Threads, thread[t].pc \in Holding
  PROVE  /\ lock = t /\ captureEnv = thread[t].call
         /\ \A s \in Threads \ {t} : thread[s].pc \notin Holding
         /\ thread[t].pc # "prepare" => capture.call = thread[t].call
BY DEF CapOwned, LockOwned, Holding, CapShape

LEMMA FilesReplaced ==
  ASSUME NEW e, NEW f, NEW a, NEW g, NEW dir, dir = [exists |-> e, files |-> f, artifact |-> a]
  PROVE  [dir EXCEPT !.files = g] = [exists |-> e, files |-> g, artifact |-> a]
OBVIOUS

LEMMA PrepareOwned ==
  ASSUME CapOwned, NEW t \in Threads, PrepareCapture(t)
  PROVE  CapOwned'
<1> DEFINE c == thread[t].call
<1>1. c \in CallIds /\ c # 0 /\ thread[t].pc = "prepare" /\ lock = t /\ captureEnv = c
  BY WorkingCall, OneHolder DEF Working, Holding, PrepareCapture, CallIds
<1>2. /\ thread' = [thread EXCEPT ![t].pc = "stepping"]
      /\ dirs[c].exists /\ dirs[c].artifact = <<>>
      /\ dirs' = [dirs EXCEPT ![c].files = {0} \cup Inputs]
      /\ capture' = [call |-> c, spools |-> [i \in Inputs |-> <<>>], published |-> FALSE]
      /\ UNCHANGED <<lock, poisoned, captureEnv, nonce, preserved>>
  BY <1>1 DEF PrepareCapture
<1>3. ThreadMoves(t, "stepping", c, thread[t].result)
  BY <1>2, SetPc DEF CapOwned, CapShape
<1>4. DirMoves(c, TRUE, {0} \cup Inputs, <<>>)
  <2>1. dirs[c] = [exists |-> dirs[c].exists, files |-> dirs[c].files, artifact |-> dirs[c].artifact]
    BY <1>1 DEF CapOwned, CapShape, DirShape
  <2>2. [dirs[c] EXCEPT !.files = {0} \cup Inputs]
          = [exists |-> dirs[c].exists, files |-> {0} \cup Inputs, artifact |-> dirs[c].artifact]
    <3> HIDE DEF c
    <3> QED
      BY <2>1, FilesReplaced, SMTT(30)
  <2>3. dirs' = [dirs EXCEPT ![c] = [exists |-> dirs[c].exists, files |-> {0} \cup Inputs,
                                     artifact |-> dirs[c].artifact]]
    BY <1>2, <2>2
  <2>4. DirMoves(c, dirs[c].exists, {0} \cup Inputs, dirs[c].artifact)
    BY <1>1, <2>3, SetDir DEF CapOwned, CapShape
  <2> QED
    BY <1>2, <2>4 DEF DirMoves
<1> HIDE DEF c
<1>5. CapShape'
  BY <1>2, <1>3, <1>4, CaptureShape
  DEF CapOwned, CapShape, ThreadMoves, DirMoves, CaptureShaped, Working, c
<1>6. OwnCalls'
  BY <1>1, <1>3 DEF CapOwned, OwnCalls, ThreadMoves, Working, c
<1>7. LockOwned'
  BY <1>1, <1>2, <1>3, CaptureShape DEF CapOwned, CapShape, LockOwned, ThreadMoves, Holding, c
<1>8. DirsOwned'
  BY <1>1, <1>3, <1>4, DirsStayOwned DEF CapOwned, Working, c
<1> QED
  BY <1>5, <1>6, <1>7, <1>8 DEF CapOwned

(* The rows a step records disturb nobody's ownership.                     *)
LEMMA CapOwnedKept ==
  ASSUME CapOwned, UNCHANGED <<lock, captureEnv, nonce, thread, dirs>>,
         capture'.call = capture.call, CaptureShaped(capture')
  PROVE  CapOwned'
<1>1. CapShape'
  BY DEF CapOwned, CapShape, ThreadShape, DirShape
<1>2. OwnCalls' /\ DirsOwned'
  BY DEF CapOwned, OwnCalls, DirsOwned
<1>3. LockOwned'
  BY DEF CapOwned, LockOwned
<1> QED
  BY <1>1, <1>2, <1>3 DEF CapOwned

LEMMA RecordOwned ==
  ASSUME CapOwned, NEW t \in Threads, RecordRows(t)
  PROVE  CapOwned'
<1>1. UNCHANGED <<lock, poisoned, captureEnv, nonce, thread, dirs, preserved>>
  BY DEF RecordRows
<1>2. capture'.call = capture.call /\ CaptureShaped(capture')
  BY DEF RecordRows, CapOwned, CapShape, CaptureShaped
<1> QED
  BY <1>1, <1>2, CapOwnedKept

LEMMA FinishOwned ==
  ASSUME CapOwned, NEW t \in Threads, FinishCapture(t)
  PROVE  CapOwned'
<1> DEFINE c == thread[t].call
<1>1. c \in CallIds /\ c # 0 /\ thread[t].pc = "stepping" /\ lock = t /\ capture.call = c
  BY WorkingCall, OneHolder DEF Working, Holding, FinishCapture, CallIds
<1>2. CASE Unwind(t, "err")
  BY <1>1, <1>2, UnwindOwned
<1>3. CASE /\ dirs' = [dirs EXCEPT ![c] = [exists |-> TRUE, files |-> {}, artifact |-> ArtifactLines]]
           /\ capture' = [capture EXCEPT !.published = TRUE]
           /\ thread' = [thread EXCEPT ![t].pc = "generated"]
           /\ UNCHANGED <<lock, captureEnv, nonce, sampled, preserved>>
  <2>1. ThreadMoves(t, "generated", c, thread[t].result)
    BY <1>3, SetPc DEF CapOwned, CapShape
  <2>2. DirMoves(c, TRUE, {}, ArtifactLines)
    BY <1>1, <1>3, SetDir DEF CapOwned, CapShape
  <2>3. capture'.call = c /\ CaptureShaped(capture')
    BY <1>1, <1>3 DEF CapOwned, CapShape, CaptureShaped
  <2> HIDE DEF c
  <2>5. CapShape'
    BY <1>3, <2>1, <2>2, <2>3, CaptureShape DEF CapOwned, CapShape, ThreadMoves, DirMoves, Working, c
  <2>6. OwnCalls'
    BY <1>1, <2>1 DEF CapOwned, OwnCalls, ThreadMoves, Working, c
  <2>7. LockOwned'
    BY <1>1, <1>3, <2>1, <2>3, CaptureShape DEF CapOwned, CapShape, LockOwned, ThreadMoves, Holding, c
  <2>8. DirsOwned'
    BY <1>1, <2>1, <2>2, DirsStayOwned DEF CapOwned, Working, c
  <2> QED
    BY <2>5, <2>6, <2>7, <2>8 DEF CapOwned
<1> QED
  BY <1>1, <1>2, <1>3 DEF FinishCapture

LEMMA DropOwned ==
  ASSUME CapOwned, NEW t \in Threads, DropEnvironment(t)
  PROVE  CapOwned'
<1> DEFINE c == thread[t].call
<1>1. c \in CallIds /\ c # 0 /\ thread[t].pc = "generated" /\ lock = t
  BY WorkingCall, OneHolder DEF Working, Holding, DropEnvironment, CallIds
<1>2. /\ thread' = [thread EXCEPT ![t].pc = "reading", ![t].result = Outputs(c)]
      /\ lock' = "free" /\ captureEnv' = 0 /\ capture' = NoSession
      /\ UNCHANGED <<poisoned, nonce, dirs, preserved>>
  BY DEF DropEnvironment, ReleaseEnvironment
<1>3. ThreadMoves(t, "reading", c, Outputs(c))
  BY <1>2, SetPcResult DEF CapOwned, CapShape
<1> HIDE DEF c
<1>5. CapShape'
  BY <1>2, <1>3, CaptureShape
  DEF CapOwned, CapShape, ThreadMoves, DirShape, CaptureShaped, NoSession, Working, c
<1>6. OwnCalls'
  BY <1>1, <1>3 DEF CapOwned, OwnCalls, ThreadMoves, Working, c
<1>7. LockOwned'
  BY <1>1, <1>2, <1>3, CaptureShape DEF CapOwned, CapShape, LockOwned, ThreadMoves, Holding, c
<1>8. DirsOwned'
  BY <1>1, <1>2, <1>3, DirsUntouched DEF CapOwned, Working, c
<1> QED
  BY <1>5, <1>6, <1>7, <1>8 DEF CapOwned

LEMMA ReadOwned ==
  ASSUME CapOwned, NEW t \in Threads, ReadCapture(t)
  PROVE  CapOwned'
<1> DEFINE c == thread[t].call
<1>1. c \in CallIds /\ c # 0 /\ thread[t].pc = "reading"
  BY WorkingCall DEF Working, ReadCapture, CallIds
<1>2. UNCHANGED <<lock, poisoned, captureEnv, nonce, capture, sampled>>
  BY DEF ReadCapture
<1>3. PICK pc, r : pc \in {"err", "ok"} /\ ThreadMoves(t, pc, c, r)
  <2>1. CASE thread' = Returned(t, "err")
    <3>1. ThreadMoves(t, "err", c, thread[t].result)
      BY <2>1, SetPc DEF CapOwned, CapShape, Returned
    <3> QED
      BY <3>1
  <2>2. CASE thread' = [thread EXCEPT ![t].pc = "ok", ![t].result = Captured(dirs[c].artifact)]
    <3>1. ThreadMoves(t, "ok", c, Captured(dirs[c].artifact))
      BY <2>2, SetPcResult DEF CapOwned, CapShape
    <3> QED
      BY <3>1
  <2> QED
    BY <2>1, <2>2 DEF ReadCapture
<1>4. DirMoves(c, FALSE, {}, <<>>)
  <2>1. dirs[c].files = {}
    BY <1>1 DEF CapOwned, DirsOwned, OwnCalls
  <2>2. dirs' = [dirs EXCEPT ![c] = [exists |-> FALSE, files |-> {}, artifact |-> <<>>]]
    <3>1. dirs' = [dirs EXCEPT ![c] = Emptied(@)]
      BY DEF ReadCapture
    <3> QED
      BY <1>1, <2>1, <3>1, Dropped DEF CapOwned, CapShape, NoDir
  <2> QED
    BY <1>1, <2>2, SetDir DEF CapOwned, CapShape
<1> HIDE DEF c
<1>5. CapShape'
  BY <1>2, <1>3, <1>4, CaptureShape DEF CapOwned, CapShape, ThreadMoves, DirMoves, Over, c
<1>6. OwnCalls'
  BY <1>1, <1>3 DEF CapOwned, OwnCalls, ThreadMoves, Working, c
<1>7. LockOwned'
  BY <1>1, <1>2, <1>3, CaptureShape DEF CapOwned, CapShape, LockOwned, ThreadMoves, Holding, c
<1>8. DirsOwned'
  BY <1>1, <1>3, <1>4, DirsStayOwned DEF CapOwned, c
<1> QED
  BY <1>5, <1>6, <1>7, <1>8 DEF CapOwned

LEMMA CapOwnedStep == CapOwned /\ [CapNext]_capVars => CapOwned'
<1> SUFFICES ASSUME CapOwned, [CapNext]_capVars PROVE CapOwned'
  OBVIOUS
<1>1. CASE UNCHANGED capVars
  <2>1. UNCHANGED <<lock, captureEnv, nonce, thread, dirs>> /\ capture' = capture
    BY <1>1 DEF capVars
  <2>2. CaptureShaped(capture')
    BY <2>1 DEF CapOwned, CapShape, CaptureShaped
  <2> QED
    BY <2>1, <2>2, CapOwnedKept
<1>2. ASSUME NEW t \in Threads, Begin(t) \/ ThreadStep(t) PROVE CapOwned'
  <2>1. CASE Begin(t)
    BY <2>1, BeginOwned
  <2>2. CASE Install(t)
    BY <2>2, InstallOwned
  <2>3. CASE PrepareCapture(t)
    BY <2>3, PrepareOwned
  <2>4. CASE RecordRows(t)
    BY <2>4, RecordOwned
  <2>5. CASE GenerateFails(t)
    BY <2>5, UnwindOwned DEF GenerateFails
  <2>6. CASE GeneratePanics(t)
    BY <2>6, UnwindOwned DEF GeneratePanics
  <2>7. CASE FinishCapture(t)
    BY <2>7, FinishOwned
  <2>8. CASE DropEnvironment(t)
    BY <2>8, DropOwned
  <2>9. CASE ReadCapture(t)
    BY <2>9, ReadOwned
  <2> QED
    BY <1>2, <2>1, <2>2, <2>3, <2>4, <2>5, <2>6, <2>7, <2>8, <2>9 DEF ThreadStep
<1> QED
  BY <1>1, <1>2 DEF CapNext

LEMMA CapOwnedSafe == CapOwned => EnvironmentOwned /\ WorkspaceRemoved /\ NeverOccupied
<1> SUFFICES ASSUME CapOwned PROVE EnvironmentOwned /\ WorkspaceRemoved /\ NeverOccupied
  OBVIOUS
<1>1. EnvironmentOwned
  BY DEF CapOwned, LockOwned, EnvironmentOwned
<1>2. WorkspaceRemoved
  BY DEF CapOwned, DirsOwned, WorkspaceRemoved, Working, Over
<1>3. NeverOccupied
  BY DEF CapOwned, CapShape, NeverOccupied, Working, Over
<1> QED
  BY <1>1, <1>2, <1>3
-----------------------------------------------------------------------------
(* The plans that generate runs alone.                                     *)

IsoShape ==
  /\ next \in 1 .. Calls + 1 /\ admitted \in Nat
  /\ DOMAIN bindings = 1 .. Calls
  /\ IsList(records)

(* What is set in the environment, phase by phase.                         *)
IsoSet ==
  /\ isoPc = "dispatch" => next = 1
  /\ isoPc \in {"nested", "after_ok", "after_err"} => isoEnv = {"binding"}
  /\ isoPc \in {"call", "operator", "stage", "write", "link", "clean_ok", "clean_err"} =>
       isoEnv \subseteq {"operator"}
  /\ isoPc = "call" => isoEnv = {}
  /\ isoPc = "returned" /\ next > 1 => isoEnv \subseteq {"operator"}

(* A binding file names a request that was admitted for its call, and no   *)
(* two name the same.                                                      *)
BindingsOwned ==
  /\ \A k \in 1 .. Calls : bindings[k] # <<>> =>
       bindings[k].ids \in 1 .. admitted /\ ~bindings[k].forced
  /\ \A j, k \in 1 .. Calls :
       j # k /\ bindings[j] # <<>> /\ bindings[k] # <<>> => bindings[j].ids # bindings[k].ids

(* One record for each call that is over, with the binding of that call.   *)
RecordsOwned ==
  /\ isoPc \in {"call", "nested", "after_ok", "after_err"} => Len(records) = next - 1
  /\ isoPc \in {"nested", "after_ok", "after_err"} => next <= Calls
  /\ isoPc \in {"stage", "write", "link"} => Len(records) = Calls
  /\ Len(records) <= Calls
  /\ isoPc \in {"dispatch", "operator"} => records = <<>>
  /\ \A k \in DOMAIN records : /\ records[k].call = k
                               /\ records[k].binding # <<>> => records[k].binding = bindings[k]
  /\ isoPc = "link" => stage = "whole"

IsoInv == IsoShape /\ IsoSet /\ BindingsOwned /\ RecordsOwned /\ ArtifactIsWhole

(* A function on 1 .. n is a list of n elements.                           *)
LEMMA TupleIsList ==
  ASSUME NEW n \in Nat, NEW f, f = [k \in 1 .. n |-> f[k]]
  PROVE  IsList(f) /\ Len(f) = n /\ DOMAIN f = 1 .. n
<1> DEFINE V == {f[k] : k \in DOMAIN f}
<1>1. DOMAIN f = 1 .. n
  OBVIOUS
<1>2. \A k \in 1 .. n : f[k] \in V
  BY <1>1
<1> HIDE DEF V
<1>3. f \in Seq(V) /\ Len(f) = n
  BY <1>1, <1>2
<1> QED
  BY <1>1, <1>3 DEF V, IsList

(* A list grows by one element at its end.                                 *)
LEMMA AppendList ==
  ASSUME NEW s, IsList(s), NEW e
  PROVE  /\ Len(s) \in Nat /\ DOMAIN s = 1 .. Len(s)
         /\ IsList(Append(s, e)) /\ Len(Append(s, e)) = Len(s) + 1
         /\ DOMAIN Append(s, e) = 1 .. Len(s) + 1
         /\ \A n \in 1 .. Len(s) : Append(s, e)[n] = s[n]
         /\ Append(s, e)[Len(s) + 1] = e
<1> DEFINE T == {s[n] : n \in DOMAIN s} \cup {e}
           u == Append(s, e)
<1>1. s \in Seq({s[n] : n \in DOMAIN s})
  BY DEF IsList
<1>2. Len(s) \in Nat /\ DOMAIN s = 1 .. Len(s)
  BY <1>1
<1>3. \A n \in 1 .. Len(s) : s[n] \in T
  BY <1>2
<1>4. s = [n \in 1 .. Len(s) |-> s[n]]
  BY <1>1
<1>5. e \in T
  OBVIOUS
<1> HIDE DEF T
<1>6. s \in Seq(T)
  BY <1>2, <1>3, <1>4
<1>7. /\ u \in Seq(T) /\ Len(u) = Len(s) + 1 /\ DOMAIN u = 1 .. Len(s) + 1
      /\ \A n \in 1 .. Len(s) : u[n] = s[n]
      /\ u[Len(s) + 1] = e
  BY <1>5, <1>6
<1> HIDE DEF u
<1>8. IsList(u)
  <2>1. u = [n \in 1 .. Len(u) |-> u[n]] /\ Len(u) \in Nat
    BY <1>7
  <2> QED
    BY <2>1, TupleIsList
<1> QED
  BY <1>2, <1>7, <1>8 DEF u

LEMMA IsoSizes ==
  ASSUME IsoInv
  PROVE  /\ Calls \in Nat /\ Calls >= 1 /\ next \in Nat /\ next >= 1 /\ next <= Calls + 1
         /\ Len(records) \in Nat /\ Len(records) <= Calls
         /\ DOMAIN records = 1 .. Len(records) /\ DOMAIN records \subseteq 1 .. Calls
<1>1. Calls \in Nat /\ Calls >= 1
  BY CallsPositive
<1>2. next \in Nat /\ next >= 1 /\ next <= Calls + 1
  BY <1>1 DEF IsoInv, IsoShape
<1>3. Len(records) \in Nat /\ DOMAIN records = 1 .. Len(records)
  BY AppendList DEF IsoInv, IsoShape
<1>4. Len(records) <= Calls
  BY DEF IsoInv, RecordsOwned
<1>5. 1 .. Len(records) \subseteq 1 .. Calls
  BY <1>1, <1>3, <1>4
<1> QED
  BY <1>1, <1>2, <1>3, <1>4, <1>5

LEMMA IsoInvInit == IsoInit => IsoInv
<1> SUFFICES ASSUME IsoInit PROVE IsoInv
  OBVIOUS
<1>1. IsoShape
  BY CallsPositive DEF IsoInit, IsoShape, IsList
<1>2. IsoSet
  BY DEF IsoInit, IsoSet
<1>3. BindingsOwned
  BY DEF IsoInit, BindingsOwned
<1>4. RecordsOwned
  BY CallsPositive DEF IsoInit, RecordsOwned
<1>5. ArtifactIsWhole
  BY DEF IsoInit, ArtifactIsWhole
<1> QED
  BY <1>1, <1>2, <1>3, <1>4, <1>5 DEF IsoInv

LEMMA DispatchInv == IsoInv /\ Dispatch => IsoInv'
<1> SUFFICES ASSUME IsoInv, Dispatch PROVE IsoInv'
  OBVIOUS
<1>1. UNCHANGED <<next, admitted, bindings, records, stage, dest>> /\ isoPc = "dispatch"
  BY DEF Dispatch
<1>2. \/ isoPc' = "call" /\ isoEnv' = {}
      \/ isoPc' = "operator" /\ isoEnv' \subseteq {"operator"}
      \/ isoPc' = "returned"
  BY DEF Dispatch, Isolated, Return
<1>3. records = <<>> /\ next = 1
  BY <1>1 DEF IsoInv, IsoSet, RecordsOwned
<1>4. IsoShape' /\ BindingsOwned' /\ ArtifactIsWhole'
  BY <1>1 DEF IsoInv, IsoShape, BindingsOwned, ArtifactIsWhole, IsList
<1>5. IsoSet'
  BY <1>1, <1>2, <1>3 DEF IsoSet
<1>6. RecordsOwned'
  BY <1>1, <1>2, <1>3, CallsPositive DEF IsoInv, RecordsOwned
<1> QED
  BY <1>4, <1>5, <1>6 DEF IsoInv

LEMMA EnterCallInv == IsoInv /\ EnterCall => IsoInv'
<1> SUFFICES ASSUME IsoInv, EnterCall PROVE IsoInv'
  OBVIOUS
<1>1. /\ UNCHANGED <<next, admitted, bindings, records, stage, dest>> /\ isoPc = "call" /\ next <= Calls
      /\ isoEnv = {}
  BY DEF EnterCall, IsoInv, IsoSet
<1>2. \/ isoPc' = "nested" /\ isoEnv' = {"binding"}
      \/ isoPc' = "returned" /\ isoEnv' = {}
  BY <1>1 DEF EnterCall, Return
<1>4. IsoShape' /\ BindingsOwned' /\ ArtifactIsWhole'
  BY <1>1 DEF IsoInv, IsoShape, BindingsOwned, ArtifactIsWhole, IsList
<1>5. IsoSet'
  BY <1>1, <1>2 DEF IsoSet
<1>6. RecordsOwned'
  BY <1>1, <1>2 DEF IsoInv, RecordsOwned
<1> QED
  BY <1>4, <1>5, <1>6 DEF IsoInv

LEMMA NestedCallInv == IsoInv /\ NestedCall => IsoInv'
<1> SUFFICES ASSUME IsoInv, NestedCall PROVE IsoInv'
  OBVIOUS
<1>1. /\ UNCHANGED <<isoEnv, next, records, stage, dest, result>>
      /\ isoPc = "nested" /\ isoPc' \in {"after_err", "after_ok"}
      /\ isoEnv = {"binding"} /\ next \in 1 .. Calls /\ Len(records) = next - 1
  BY DEF NestedCall, IsoInv, IsoSet, RecordsOwned, IsoShape
<1>2. admitted \in Nat /\ admitted' \in {admitted, admitted + 1}
  BY DEF NestedCall, IsoInv, IsoShape
<1>3. /\ DOMAIN bindings' = 1 .. Calls
      /\ \A k \in 1 .. Calls : k # next => bindings'[k] = bindings[k]
      /\ \/ bindings' = bindings
         \/ /\ bindings'[next].ids = admitted + 1 /\ ~bindings'[next].forced
            /\ admitted' = admitted + 1
  <2>1. CASE bindings' = bindings
    BY <2>1 DEF IsoInv, IsoShape
  <2>2. CASE bindings' = [bindings EXCEPT ![next] = Binding] /\ admitted' = admitted + 1
    <3>1. DOMAIN bindings = 1 .. Calls
      BY DEF IsoInv, IsoShape
    <3>2. bindings'[next] = Binding /\ \A k \in 1 .. Calls : k # next => bindings'[k] = bindings[k]
      BY <1>1, <2>2, <3>1
    <3>3. Binding.ids = admitted + 1 /\ ~Binding.forced
      BY <1>1 DEF Binding
    <3> QED
      BY <2>2, <3>1, <3>2, <3>3
  <2> QED
    BY <2>1, <2>2 DEF NestedCall
<1>4. IsoShape'
  BY <1>1, <1>2, <1>3 DEF IsoInv, IsoShape, IsList
<1>5. IsoSet'
  BY <1>1 DEF IsoSet
<1>6. BindingsOwned'
  <2>1. ASSUME NEW k \in 1 .. Calls, bindings'[k] # <<>>
        PROVE  bindings'[k].ids \in 1 .. admitted' /\ ~bindings'[k].forced
    <3>1. CASE bindings'[k] = bindings[k]
      <4>1. bindings[k].ids \in 1 .. admitted /\ ~bindings[k].forced
        BY <2>1, <3>1 DEF IsoInv, BindingsOwned
      <4>2. 1 .. admitted \subseteq 1 .. admitted'
        BY <1>2
      <4> QED
        BY <3>1, <4>1, <4>2
    <3>2. CASE k = next /\ bindings'[next].ids = admitted + 1 /\ ~bindings'[next].forced
                /\ admitted' = admitted + 1
      <4>1. admitted + 1 \in 1 .. admitted'
        BY <1>2, <3>2
      <4> QED
        BY <3>2, <4>1
    <3> QED
      BY <1>3, <3>1, <3>2
  <2>2. ASSUME NEW j \in 1 .. Calls, NEW k \in 1 .. Calls, j # k, bindings'[j] # <<>>, bindings'[k] # <<>>
        PROVE  bindings'[j].ids # bindings'[k].ids
    <3>1. CASE bindings' = bindings
      BY <2>2, <3>1 DEF IsoInv, BindingsOwned
    <3>2. CASE bindings'[next].ids = admitted + 1
      <4>1. \A m \in 1 .. Calls : m # next /\ bindings'[m] # <<>> => bindings'[m].ids < admitted + 1
        BY <1>2, <1>3 DEF IsoInv, BindingsOwned
      <4>2. CASE j # next /\ k # next
        BY <1>3, <2>2, <4>2 DEF IsoInv, BindingsOwned
      <4>3. CASE j = next
        BY <1>2, <2>2, <3>2, <4>1, <4>3
      <4>4. CASE k = next
        BY <1>2, <2>2, <3>2, <4>1, <4>4
      <4> QED
        BY <4>2, <4>3, <4>4
    <3> QED
      BY <1>3, <3>1, <3>2
  <2> QED
    BY <2>1, <2>2 DEF BindingsOwned
<1>7. RecordsOwned'
  <2>1. Len(records) \in Nat /\ DOMAIN records = 1 .. Len(records)
    BY AppendList DEF IsoInv, IsoShape
  <2>2. \A k \in DOMAIN records : k \in 1 .. Calls /\ k # next
    BY <1>1, <2>1, CallsPositive
  <2> QED
    BY <1>1, <1>3, <2>2 DEF IsoInv, RecordsOwned
<1>8. ArtifactIsWhole'
  BY <1>1 DEF IsoInv, ArtifactIsWhole
<1> QED
  BY <1>4, <1>5, <1>6, <1>7, <1>8 DEF IsoInv

LEMMA AfterCallInv == IsoInv /\ AfterCall => IsoInv'
<1> SUFFICES ASSUME IsoInv, AfterCall PROVE IsoInv'
  OBVIOUS
<1>1. /\ UNCHANGED <<admitted, bindings, stage, dest>> /\ isoPc \in {"after_ok", "after_err"}
      /\ isoEnv' = {} /\ next \in 1 .. Calls /\ Len(records) = next - 1
  BY DEF AfterCall, AfterEnv, IsoInv, IsoSet, RecordsOwned, IsoShape
<1>2. \/ \E outcome : records' = Append(records, [call |-> next, outcome |-> outcome,
                                                  binding |-> bindings[next]])
         /\ next' = next + 1 /\ isoPc' = IF next = Calls THEN "stage" ELSE "call"
      \/ isoPc' = "returned" /\ UNCHANGED <<records, next>>
  BY DEF AfterCall, Return
<1>3. CASE isoPc' = "returned" /\ UNCHANGED <<records, next>>
  <2>1. IsoShape' /\ BindingsOwned' /\ ArtifactIsWhole'
    BY <1>1, <1>3 DEF IsoInv, IsoShape, BindingsOwned, ArtifactIsWhole, IsList
  <2>2. IsoSet' /\ RecordsOwned'
    BY <1>1, <1>3 DEF IsoInv, IsoSet, RecordsOwned
  <2> QED
    BY <2>1, <2>2 DEF IsoInv
<1>4. ASSUME NEW outcome,
             /\ records' = Append(records, [call |-> next, outcome |-> outcome, binding |-> bindings[next]])
             /\ next' = next + 1 /\ isoPc' = IF next = Calls THEN "stage" ELSE "call"
      PROVE  IsoInv'
  <2> DEFINE e == [call |-> next, outcome |-> outcome, binding |-> bindings[next]]
  <2>0. e.call = next /\ e.binding = bindings[next]
    OBVIOUS
  <2> HIDE DEF e
  <2>1. /\ Len(records) \in Nat /\ DOMAIN records = 1 .. Len(records)
        /\ IsList(records') /\ Len(records') = Len(records) + 1
        /\ DOMAIN records' = 1 .. Len(records) + 1
        /\ \A n \in 1 .. Len(records) : records'[n] = records[n]
        /\ records'[Len(records) + 1] = e
    BY <1>4, AppendList DEF IsoInv, IsoShape, e
  <2>2. IsoShape'
    BY <1>1, <1>4, <2>1, CallsPositive DEF IsoInv, IsoShape
  <2>3. BindingsOwned' /\ ArtifactIsWhole'
    BY <1>1 DEF IsoInv, BindingsOwned, ArtifactIsWhole
  <2>4. IsoSet'
    BY <1>1, <1>4 DEF IsoSet
  <2>5. RecordsOwned'
    <3>1. Len(records') = next' - 1 /\ Len(records') <= Calls /\ (isoPc' = "stage" => Len(records') = Calls)
      BY <1>1, <1>4, <2>1, CallsPositive
    <3>2. \A k \in DOMAIN records' : /\ records'[k].call = k
                                     /\ records'[k].binding # <<>> => records'[k].binding = bindings'[k]
      BY <1>1, <2>0, <2>1 DEF IsoInv, RecordsOwned
    <3> QED
      BY <1>1, <1>4, <3>1, <3>2 DEF RecordsOwned
  <2> QED
    BY <2>2, <2>3, <2>4, <2>5 DEF IsoInv
<1> QED
  BY <1>2, <1>3, <1>4

LEMMA RunOperatorsInv == IsoInv /\ RunOperators => IsoInv'
<1> SUFFICES ASSUME IsoInv, RunOperators PROVE IsoInv'
  OBVIOUS
<1>1. /\ UNCHANGED <<isoEnv, next, admitted, bindings, stage, dest>> /\ isoPc = "operator"
      /\ isoEnv \subseteq {"operator"}
  BY DEF RunOperators, IsoInv, IsoSet
<1>2. \/ isoPc' = "returned" /\ UNCHANGED records
      \/ /\ isoPc' = "stage"
         /\ records' = [k \in 1 .. Calls |-> [call |-> k, outcome |-> "ok", binding |-> <<>>]]
  BY DEF RunOperators, Return
<1>3. /\ IsList(records') /\ Len(records') <= Calls /\ (isoPc' = "stage" => Len(records') = Calls)
      /\ \A k \in DOMAIN records' : /\ records'[k].call = k
                                    /\ records'[k].binding # <<>> => records'[k].binding = bindings[k]
  <2>1. CASE UNCHANGED records /\ isoPc' = "returned"
    BY <2>1 DEF IsoInv, IsoShape, RecordsOwned, IsList
  <2>2. CASE records' = [k \in 1 .. Calls |-> [call |-> k, outcome |-> "ok", binding |-> <<>>]]
    <3>1. Calls \in Nat /\ DOMAIN records' = 1 .. Calls
      BY <2>2, CallsPositive
    <3>2. \A k \in 1 .. Calls : records'[k].call = k /\ records'[k].binding = <<>>
      BY <2>2
    <3>3. IsList(records') /\ Len(records') = Calls
      <4>1. records' = [k \in 1 .. Calls |-> records'[k]]
        BY <2>2, <3>1
      <4> QED
        BY <3>1, <4>1, TupleIsList
    <3> QED
      BY <3>1, <3>2, <3>3
  <2> QED
    BY <1>2, <2>1, <2>2
<1>4. IsoShape'
  BY <1>1, <1>3 DEF IsoInv, IsoShape
<1>5. BindingsOwned' /\ ArtifactIsWhole'
  BY <1>1 DEF IsoInv, BindingsOwned, ArtifactIsWhole
<1>6. IsoSet'
  BY <1>1, <1>2 DEF IsoSet
<1>7. RecordsOwned'
  BY <1>1, <1>2, <1>3 DEF RecordsOwned
<1> QED
  BY <1>4, <1>5, <1>6, <1>7 DEF IsoInv

(* The steps that publish leave the scenario as it is.                     *)
LEMMA PublishInv ==
  ASSUME IsoInv, CreateStage \/ WriteStage \/ LinkStage \/ CleanStage \/ Kill
  PROVE  IsoInv'
<1>1. UNCHANGED <<next, admitted, bindings, records>>
  BY DEF CreateStage, WriteStage, LinkStage, CleanStage, Kill
<1>2. /\ isoPc' \in {"write", "link", "clean_ok", "clean_err", "returned", "killed"}
      /\ isoPc' # "killed" => /\ isoEnv' = isoEnv
                              /\ isoPc \in {"stage", "write", "link", "clean_ok", "clean_err"}
      /\ isoPc' \in {"write", "link"} => isoPc \in {"stage", "write"}
      /\ isoPc' = "link" => stage' = "whole"
  BY DEF CreateStage, WriteStage, LinkStage, CleanStage, Kill, Return
<1>3. IsoShape' /\ BindingsOwned'
  BY <1>1 DEF IsoInv, IsoShape, BindingsOwned, IsList
<1>4. IsoSet'
  BY <1>1, <1>2 DEF IsoInv, IsoSet
<1>5. RecordsOwned'
  BY <1>1, <1>2 DEF IsoInv, RecordsOwned
<1>6. ArtifactIsWhole'
  <2>1. dest' = dest \/ (isoPc = "link" /\ dest' = Linked)
    BY DEF CreateStage, WriteStage, LinkStage, CleanStage, Kill
  <2>2. CASE isoPc = "link" /\ dest' = Linked
    <3>1. dest' = records /\ Len(records) = Calls
      BY <2>2 DEF IsoInv, RecordsOwned, Linked
    <3>2. DOMAIN records = 1 .. Calls
      BY <3>1, AppendList DEF IsoInv, IsoShape
    <3> QED
      BY <3>1, <3>2 DEF IsoInv, RecordsOwned, ArtifactIsWhole
  <2> QED
    BY <2>1, <2>2 DEF IsoInv, ArtifactIsWhole
<1> QED
  BY <1>3, <1>4, <1>5, <1>6 DEF IsoInv

LEMMA IsoInvStep == IsoInv /\ [IsoNext]_isoVars => IsoInv'
<1> SUFFICES ASSUME IsoInv, [IsoNext]_isoVars PROVE IsoInv'
  OBVIOUS
<1>1. CASE UNCHANGED isoVars
  BY <1>1 DEF isoVars, IsoInv, IsoShape, IsoSet, BindingsOwned, RecordsOwned, ArtifactIsWhole, IsList
<1>2. CASE IsoNext
  BY <1>2, DispatchInv, EnterCallInv, NestedCallInv, AfterCallInv, RunOperatorsInv, PublishInv DEF IsoNext
<1> QED
  BY <1>1, <1>2

LEMMA IsoInvSafe == IsoInv => EnvironmentLeftClean /\ NothingForced /\ BindingsAreOwn
<1> SUFFICES ASSUME IsoInv PROVE EnvironmentLeftClean /\ NothingForced /\ BindingsAreOwn
  OBVIOUS
<1>1. EnvironmentLeftClean
  BY DEF IsoInv, IsoSet, EnvironmentLeftClean
<1>2. NothingForced
  BY DEF IsoInv, BindingsOwned, NothingForced
<1>3. BindingsAreOwn
  <2>1. DOMAIN records \subseteq 1 .. Calls
    BY IsoSizes
  <2> QED
    BY <2>1 DEF IsoInv, RecordsOwned, BindingsOwned, BindingsAreOwn
<1> QED
  BY <1>1, <1>2, <1>3
-----------------------------------------------------------------------------
(* The telemetry session.                                                  *)

TelInv ==
  /\ telPc # "published" => telDest \in {Absent, Foreign}
  /\ telPc = "failed" => ~telStage

LEMMA TelInvInit == TelInit => TelInv
BY DEF TelInit, TelInv

LEMMA TelInvStep == TelInv /\ [TelNext]_telVars => TelInv'
<1> SUFFICES ASSUME TelInv, [TelNext]_telVars PROVE TelInv'
  OBVIOUS
<1>1. CASE UNCHANGED telVars
  BY <1>1 DEF telVars, TelInv
<1>2. CASE PrepareTelemetry
  BY <1>2 DEF PrepareTelemetry, Fail, TelInv
<1>3. CASE BindRequests
  <2>1. telPc = "prepared" /\ telPc' = "running" /\ telDest' = telDest
    BY <1>3 DEF BindRequests
  <2> QED
    BY <2>1 DEF TelInv
<1>4. CASE PreemptRequest
  <2>1. telPc' = telPc /\ telDest' = telDest /\ telStage' = telStage
    BY <1>4 DEF PreemptRequest
  <2> QED
    BY <2>1 DEF TelInv
<1>5. CASE RecordStep
  <2>1. telPc' = telPc /\ telDest' = telDest /\ telStage' = telStage
    BY <1>5 DEF RecordStep
  <2> QED
    BY <2>1 DEF TelInv
<1>6. CASE TimedStepFails
  BY <1>6 DEF TimedStepFails, Fail, TelInv
<1>7. CASE FinishTelemetry
  <2>1. telPc = "running" /\ (telPc' = "published" \/ (Fail /\ telDest' = telDest))
    BY <1>7 DEF FinishTelemetry
  <2> QED
    BY <2>1 DEF Fail, TelInv
<1>8. CASE Intrude
  BY <1>8 DEF Intrude, TelInv
<1>9. CASE Validate
  <2>1. telPc' = telPc /\ telDest' = telDest /\ telStage' = telStage
    BY <1>9 DEF Validate
  <2> QED
    BY <2>1 DEF TelInv
<1> QED
  BY <1>1, <1>2, <1>3, <1>4, <1>5, <1>6, <1>7, <1>8, <1>9 DEF TelNext

-----------------------------------------------------------------------------
(* Lists.                                                                  *)

(* Lists of one length with the same elements are the same.                *)
LEMMA ListsEqual ==
  ASSUME NEW s, IsList(s), NEW u, IsList(u), Len(s) = Len(u),
         \A n \in 1 .. Len(s) : s[n] = u[n]
  PROVE  s = u
<1>1. s = [n \in 1 .. Len(s) |-> s[n]] /\ u = [n \in 1 .. Len(u) |-> u[n]]
  BY DEF IsList
<1> QED
  BY <1>1

(* c is two lists one after the other.                                     *)
Follows(s, u, c) ==
  /\ IsList(c) /\ Len(s) \in Nat /\ Len(u) \in Nat /\ Len(c) = Len(s) + Len(u)
  /\ \A n \in 1 .. Len(s) : c[n] = s[n]
  /\ \A n \in 1 .. Len(u) : c[Len(s) + n] = u[n]

LEMMA ConcatLists ==
  ASSUME NEW s, IsList(s), NEW u, IsList(u)
  PROVE  Follows(s, u, s \o u)
<1> DEFINE T == {s[n] : n \in DOMAIN s} \cup {u[n] : n \in DOMAIN u}
<1>1. s = [n \in 1 .. Len(s) |-> s[n]] /\ u = [n \in 1 .. Len(u) |-> u[n]]
      /\ Len(s) \in Nat /\ Len(u) \in Nat
      /\ DOMAIN s = 1 .. Len(s) /\ DOMAIN u = 1 .. Len(u)
  BY DEF IsList
<1>2. (\A n \in 1 .. Len(s) : s[n] \in T) /\ (\A n \in 1 .. Len(u) : u[n] \in T)
  BY <1>1
<1> HIDE DEF T
<1>3. s \in Seq(T) /\ u \in Seq(T)
  BY <1>1, <1>2
<1> DEFINE c == s \o u
<1>4. /\ c \in Seq(T) /\ Len(c) = Len(s) + Len(u)
      /\ \A n \in 1 .. Len(s) : c[n] = s[n]
      /\ \A n \in 1 .. Len(u) : c[Len(s) + n] = u[n]
  BY <1>3
<1> HIDE DEF c
<1>5. IsList(c)
  <2>1. c = [n \in 1 .. Len(c) |-> c[n]] /\ Len(c) \in Nat
    BY <1>4
  <2> QED
    BY <2>1, TupleIsList
<1> QED
  BY <1>1, <1>4, <1>5 DEF c, Follows

(* A part of a list.                                                       *)
LEMMA SubList ==
  ASSUME NEW s, IsList(s), NEW a \in Nat, NEW b \in Nat, a + b <= Len(s)
  PROVE  /\ IsList(SubSeq(s, a + 1, a + b)) /\ Len(SubSeq(s, a + 1, a + b)) = b
         /\ \A n \in 1 .. b : SubSeq(s, a + 1, a + b)[n] = s[a + n]
<1> DEFINE u == SubSeq(s, a + 1, a + b)
<1>1. s \in Seq({s[n] : n \in DOMAIN s}) /\ Len(s) \in Nat
  BY DEF IsList
<1>2. Len(u) = b /\ \A n \in 1 .. b : u[n] = s[a + n]
  <2>1. u = [n \in 1 .. b |-> s[a + n]]
    BY <1>1 DEF SubSeq
  <2> QED
    BY <2>1
<1>3. u = [n \in 1 .. b |-> u[n]]
  BY <1>1, <1>2
<1> HIDE DEF u
<1>4. IsList(u)
  BY <1>3, TupleIsList
<1> QED
  BY <1>2, <1>4 DEF u

LEMMA PrefixList ==
  ASSUME NEW s, IsList(s), NEW b \in Nat, b <= Len(s)
  PROVE  /\ IsList(SubSeq(s, 1, b)) /\ Len(SubSeq(s, 1, b)) = b
         /\ \A n \in 1 .. b : SubSeq(s, 1, b)[n] = s[n]
<1> DEFINE u == SubSeq(s, 1, b)
<1>1. s \in Seq({s[n] : n \in DOMAIN s}) /\ Len(s) \in Nat
  BY DEF IsList
<1>2. Len(u) = b /\ \A n \in 1 .. b : u[n] = s[n]
  <2>1. u = [n \in 1 .. b |-> s[n]]
    BY <1>1 DEF SubSeq
  <2> QED
    BY <2>1
<1>3. u = [n \in 1 .. b |-> u[n]]
  BY <1>1, <1>2
<1> HIDE DEF u
<1>4. IsList(u)
  BY <1>3, TupleIsList
<1> QED
  BY <1>2, <1>4 DEF u

(* A token after a history is a token after its second part.               *)
LEMMA AppendConcat ==
  ASSUME NEW p, IsList(p), NEW a, IsList(a), NEW e
  PROVE  Append(p \o a, e) = p \o Append(a, e)
<1> DEFINE c == p \o a
           l == Append(c, e)
           r == p \o Append(a, e)
<1>1. /\ IsList(c) /\ Len(p) \in Nat /\ Len(a) \in Nat /\ Len(c) = Len(p) + Len(a)
      /\ \A n \in 1 .. Len(p) : c[n] = p[n]
      /\ \A n \in 1 .. Len(a) : c[Len(p) + n] = a[n]
  BY ConcatLists DEF Follows
<1>2. /\ IsList(Append(a, e)) /\ Len(Append(a, e)) = Len(a) + 1
      /\ \A n \in 1 .. Len(a) : Append(a, e)[n] = a[n]
      /\ Append(a, e)[Len(a) + 1] = e
  BY AppendList
<1>3. /\ IsList(r) /\ Len(r) = Len(p) + Len(a) + 1
      /\ \A n \in 1 .. Len(p) : r[n] = p[n]
      /\ \A n \in 1 .. Len(a) + 1 : r[Len(p) + n] = Append(a, e)[n]
  <2> DEFINE b == Append(a, e)
  <2>1. IsList(b) /\ Len(b) = Len(a) + 1
    BY <1>2
  <2> HIDE DEF b
  <2>2. Follows(p, b, p \o b)
    BY <2>1, ConcatLists, Zenon
  <2>3. Len(p) + Len(b) = Len(p) + Len(a) + 1
    BY <1>1, <2>1
  <2> QED
    BY <2>1, <2>2, <2>3 DEF b, Follows
<1> HIDE DEF c, r
<1>4. /\ IsList(l) /\ Len(l) = Len(c) + 1
      /\ \A n \in 1 .. Len(c) : l[n] = c[n]
      /\ l[Len(c) + 1] = e
  BY <1>1, AppendList
<1> HIDE DEF l
<1>5. \A n \in 1 .. Len(l) : l[n] = r[n]
  <2> SUFFICES ASSUME NEW n \in 1 .. Len(l) PROVE l[n] = r[n]
    OBVIOUS
  <2>1. CASE n \in 1 .. Len(p)
    BY <1>1, <1>3, <1>4, <2>1
  <2>2. CASE n = Len(c) + 1
    <3>1. n = Len(p) + (Len(a) + 1) /\ Len(a) + 1 \in 1 .. Len(a) + 1
      BY <1>1, <2>2
    <3> QED
      BY <1>2, <1>3, <1>4, <2>2, <3>1
  <2>3. CASE n > Len(p) /\ n <= Len(c)
    <3>1. PICK m \in 1 .. Len(a) : n = Len(p) + m
      <4>1. n - Len(p) \in 1 .. Len(a) /\ n = Len(p) + (n - Len(p))
        BY <1>1, <2>3
      <4> QED
        BY <4>1
    <3>2. m \in 1 .. Len(a) + 1 /\ n \in 1 .. Len(c)
      BY <1>1, <2>3, <3>1
    <3> QED
      BY <1>1, <1>2, <1>3, <1>4, <3>1, <3>2
  <2>4. n \in 1 .. Len(p) \/ n = Len(c) + 1 \/ (n > Len(p) /\ n <= Len(c))
    <3>1. n \in 1 .. Len(c) + 1 /\ Len(p) \in Nat /\ Len(c) = Len(p) + Len(a) /\ Len(a) \in Nat
      BY <1>1, <1>4
    <3> QED
      BY <3>1
  <2> QED
    BY <2>1, <2>2, <2>3, <2>4, Zenon
<1>6. Len(l) = Len(r)
  BY <1>1, <1>3, <1>4
<1> QED
  BY <1>3, <1>4, <1>5, <1>6, ListsEqual DEF l, c, r
-----------------------------------------------------------------------------
(* Free generation.                                                        *)

(* g satisfies the recursive equation of FreeRun.                          *)
IsFree(g, prompt, n) ==
  g = [k \in 0 .. n |-> IF k = 0 THEN prompt ELSE Append(g[k - 1], Predict(g[k - 1]))]

LEMMA FreeExists ==
  ASSUME NEW prompt
  PROVE  \A n \in Nat : \E g : IsFree(g, prompt, n)
<1> DEFINE S == {n \in Nat : \E g : IsFree(g, prompt, n)}
<1>1. 0 \in S
  <2> DEFINE g == [i \in 0 .. 0 |-> prompt]
  <2>1. IsFree(g, prompt, 0)
    BY DEF IsFree
  <2> QED
    BY <2>1
<1>2. ASSUME NEW n \in Nat, n \in S PROVE n + 1 \in S
  <2>1. PICK g : IsFree(g, prompt, n)
    BY <1>2
  <2> DEFINE new == Append(g[n], Predict(g[n]))
  <2> DEFINE g2 == [i \in 0 .. n + 1 |-> IF i <= n THEN g[i] ELSE new]
  <2>2. \A i \in 0 .. n + 1 :
          g2[i] = IF i = 0 THEN prompt ELSE Append(g2[i - 1], Predict(g2[i - 1]))
    <3> SUFFICES ASSUME NEW i \in 0 .. n + 1
                 PROVE  g2[i] = IF i = 0 THEN prompt ELSE Append(g2[i - 1], Predict(g2[i - 1]))
      OBVIOUS
    <3> HIDE DEF new
    <3>1. CASE i <= n
      <4>1. g2[i] = g[i] /\ (i # 0 => g2[i - 1] = g[i - 1])
        BY <3>1
      <4>2. g[i] = IF i = 0 THEN prompt ELSE Append(g[i - 1], Predict(g[i - 1]))
        <5>1. i \in 0 .. n
          BY <3>1
        <5> QED
          BY <2>1, <5>1, Zenon DEF IsFree
      <4> QED
        BY <4>1, <4>2
    <3>2. CASE i = n + 1
      <4>1. g2[i - 1] = g[n] /\ i # 0 /\ g2[i] = new
        BY <3>2
      <4> QED
        BY <4>1 DEF new
    <3> QED
      BY <3>1, <3>2
  <2>3. IsFree(g2, prompt, n + 1)
    <3> HIDE DEF new
    <3> QED
      BY <2>2 DEF IsFree
  <2> HIDE DEF g2
  <2> QED
    BY <2>3
<1>3. S = Nat
  <2>1. S \in SUBSET Nat
    OBVIOUS
  <2> HIDE DEF S
  <2> QED
    BY <1>1, <1>2, <2>1, SetInduction
<1> QED
  BY <1>3

(* Free generation goes on from what it generated.                         *)
LEMMA FreeStep ==
  ASSUME NEW prompt, NEW n \in Nat
  PROVE  /\ FreeRun(prompt, 0) = prompt
         /\ FreeRun(prompt, n + 1) = Append(FreeRun(prompt, n), Predict(FreeRun(prompt, n)))
<1> DEFINE free(k) == CHOOSE g : IsFree(g, prompt, k)
<1>1. \A k \in Nat : IsFree(free(k), prompt, k)
  BY FreeExists, Zenon
<1>2. \A k \in Nat : FreeRun(prompt, k) = free(k)[k]
  BY Zenon DEF FreeRun, IsFree
<1> HIDE DEF free
<1>3. ASSUME NEW k \in Nat, NEW i \in 0 .. k
      PROVE  free(k)[i] = IF i = 0 THEN prompt ELSE Append(free(k)[i - 1], Predict(free(k)[i - 1]))
  <2>1. IsFree(free(k), prompt, k)
    BY <1>1
  <2> QED
    BY <2>1, Zenon DEF IsFree
<1> DEFINE S == {i \in Nat : i <= n => free(n)[i] = free(n + 1)[i]}
<1>4. 0 \in S
  BY <1>3
<1>5. ASSUME NEW i \in Nat, i \in S PROVE i + 1 \in S
  <2> SUFFICES ASSUME i + 1 <= n PROVE free(n)[i + 1] = free(n + 1)[i + 1]
    OBVIOUS
  <2>1. free(n)[i] = free(n + 1)[i]
    BY <1>5
  <2>2. i + 1 \in 0 .. n /\ i + 1 \in 0 .. n + 1 /\ n + 1 \in Nat /\ (i + 1) - 1 = i /\ i + 1 # 0
    OBVIOUS
  <2>3. free(n)[i + 1] = Append(free(n)[i], Predict(free(n)[i]))
    BY <1>3, <2>2
  <2>4. free(n + 1)[i + 1] = Append(free(n + 1)[i], Predict(free(n + 1)[i]))
    BY <1>3, <2>2
  <2> QED
    BY <2>1, <2>3, <2>4, Zenon
<1>6. S = Nat
  <2>1. S \in SUBSET Nat
    OBVIOUS
  <2> HIDE DEF S
  <2> QED
    BY <1>4, <1>5, <2>1, SetInduction
<1>7. free(n)[n] = free(n + 1)[n]
  BY <1>6
<1>8. free(n + 1)[n + 1] = Append(free(n + 1)[n], Predict(free(n + 1)[n]))
  <2>1. n + 1 \in Nat /\ n + 1 \in 0 .. n + 1 /\ n + 1 # 0 /\ (n + 1) - 1 = n
    OBVIOUS
  <2> QED
    BY <1>3, <2>1
<1>9. free(0)[0] = prompt
  BY <1>3
<1>10. n + 1 \in Nat
  OBVIOUS
<1>11. FreeRun(prompt, 0) = prompt
  BY <1>2, <1>9
<1>12. FreeRun(prompt, n) = free(n)[n] /\ FreeRun(prompt, n + 1) = free(n + 1)[n + 1]
  BY <1>2, <1>10
<1> QED
  BY <1>7, <1>8, <1>11, <1>12, Zenon

-----------------------------------------------------------------------------
(* The rows of a replay.                                                   *)

(* The members have one row for each of their first adv[i] steps.          *)
RowsUpTo(rows, D, adv) ==
  /\ IsList(rows)
  /\ \A i \in D : adv[i] \in Nat
  /\ \A n \in DOMAIN rows : rows[n].member \in D /\ rows[n].step \in 0 .. adv[rows[n].member] - 1
  /\ \A i \in D : \A s \in 0 .. adv[i] - 1 : \E n \in DOMAIN rows : rows[n].member = i /\ rows[n].step = s
  /\ \A m, n \in DOMAIN rows :
       m # n => rows[m].member # rows[n].member \/ rows[m].step # rows[n].step

(* new has one row, of the next step, for each member of some.             *)
NextRows(new, some, adv) ==
  /\ IsList(new)
  /\ \A n \in DOMAIN new : new[n].member \in some /\ new[n].step = adv[new[n].member]
  /\ \A i \in some : \E n \in DOMAIN new : new[n].member = i
  /\ \A m, n \in DOMAIN new : m # n => new[m].member # new[n].member

Advanced(some, D, adv, next2) == \A i \in D : next2[i] = IF i \in some THEN adv[i] + 1 ELSE adv[i]

(* Each element of a concatenation comes from one part.                    *)
LEMMA ConcatOrigin ==
  ASSUME NEW s, IsList(s), NEW u, IsList(u), NEW c, Follows(s, u, c), NEW n \in DOMAIN c
  PROVE  \/ n \in DOMAIN s /\ c[n] = s[n]
         \/ \E m \in DOMAIN u : n = Len(s) + m /\ c[n] = u[m]
<1>1. /\ DOMAIN s = 1 .. Len(s) /\ DOMAIN u = 1 .. Len(u) /\ DOMAIN c = 1 .. Len(c)
      /\ Len(s) \in Nat /\ Len(u) \in Nat /\ Len(c) = Len(s) + Len(u)
      /\ \A k \in 1 .. Len(s) : c[k] = s[k]
      /\ \A k \in 1 .. Len(u) : c[Len(s) + k] = u[k]
  BY SMTT(30) DEF Follows, IsList
<1>2. CASE n <= Len(s)
  BY <1>1, <1>2
<1>3. CASE n > Len(s)
  <2>1. n - Len(s) \in 1 .. Len(u) /\ n = Len(s) + (n - Len(s))
    BY <1>1, <1>3
  <2>2. PICK m \in 1 .. Len(u) : n = Len(s) + m
    BY <2>1
  <2> QED
    BY <1>1, <2>2
<1> QED
  BY <1>1, <1>2, <1>3

LEMMA ConcatPlaces ==
  ASSUME NEW s, IsList(s), NEW u, IsList(u), NEW c, Follows(s, u, c)
  PROVE  /\ \A n \in DOMAIN s : n \in DOMAIN c /\ c[n] = s[n]
         /\ \A m \in DOMAIN u : Len(s) + m \in DOMAIN c /\ c[Len(s) + m] = u[m]
<1>1. /\ DOMAIN s = 1 .. Len(s) /\ DOMAIN u = 1 .. Len(u) /\ DOMAIN c = 1 .. Len(c)
      /\ Len(s) \in Nat /\ Len(u) \in Nat /\ Len(c) = Len(s) + Len(u)
      /\ \A k \in 1 .. Len(s) : c[k] = s[k]
      /\ \A k \in 1 .. Len(u) : c[Len(s) + k] = u[k]
  BY DEF Follows, IsList
<1> QED
  BY <1>1

LEMMA RowsExtend ==
  ASSUME NEW rows, NEW D, NEW adv, RowsUpTo(rows, D, adv),
         NEW some \in SUBSET D, NEW new, NextRows(new, some, adv),
         NEW next2, Advanced(some, D, adv, next2),
         NEW c, c = rows \o new
  PROVE  RowsUpTo(c, D, next2)
<1>1. IsList(rows) /\ IsList(new) /\ \A i \in D : adv[i] \in Nat
  BY DEF RowsUpTo, NextRows
<1>2. Follows(rows, new, c) /\ IsList(c)
  <2>1. Follows(rows, new, c)
    BY <1>1, ConcatLists
  <2> QED
    BY <2>1 DEF Follows
<1>3. /\ \A n \in DOMAIN rows : n \in DOMAIN c /\ c[n] = rows[n]
      /\ \A m \in DOMAIN new : Len(rows) + m \in DOMAIN c /\ c[Len(rows) + m] = new[m]
  BY <1>1, <1>2, ConcatPlaces
<1>4. \A n \in DOMAIN c : \/ n \in DOMAIN rows /\ c[n] = rows[n]
                          \/ \E m \in DOMAIN new : n = Len(rows) + m /\ c[n] = new[m]
  BY <1>1, <1>2, ConcatOrigin
<1>5. \A i \in D : next2[i] \in Nat /\ adv[i] <= next2[i] /\ (i \in some => next2[i] = adv[i] + 1)
                   /\ (i \notin some => next2[i] = adv[i])
  BY <1>1 DEF Advanced
<1>6. ASSUME NEW n \in DOMAIN c
      PROVE  c[n].member \in D /\ c[n].step \in 0 .. next2[c[n].member] - 1
  <2>1. CASE n \in DOMAIN rows /\ c[n] = rows[n]
    <3>1. PICK i, s : i = rows[n].member /\ s = rows[n].step
      OBVIOUS
    <3>2. i \in D /\ s \in 0 .. adv[i] - 1
      BY <2>1, <3>1 DEF RowsUpTo
    <3>3. s \in 0 .. next2[i] - 1
      BY <1>1, <1>5, <3>2
    <3> QED
      BY <2>1, <3>1, <3>2, <3>3
  <2>2. ASSUME NEW m \in DOMAIN new, c[n] = new[m]
        PROVE  c[n].member \in D /\ c[n].step \in 0 .. next2[c[n].member] - 1
    <3>1. PICK i, s : i = new[m].member /\ s = new[m].step
      OBVIOUS
    <3>2. i \in some /\ i \in D /\ s = adv[i]
      BY <3>1 DEF NextRows
    <3>3. s \in 0 .. next2[i] - 1
      BY <1>1, <1>5, <3>2
    <3> QED
      BY <2>2, <3>1, <3>2, <3>3
  <2> QED
    BY <1>4, <2>1, <2>2
<1>7. ASSUME NEW i \in D, NEW s \in 0 .. next2[i] - 1
      PROVE  \E n \in DOMAIN c : c[n].member = i /\ c[n].step = s
  <2>1. CASE s \in 0 .. adv[i] - 1
    <3>1. PICK n \in DOMAIN rows : rows[n].member = i /\ rows[n].step = s
      BY <2>1 DEF RowsUpTo
    <3> QED
      BY <1>3, <3>1
  <2>2. CASE s \notin 0 .. adv[i] - 1
    <3>1. i \in some /\ s = adv[i]
      BY <1>1, <1>5, <2>2
    <3>2. PICK m \in DOMAIN new : new[m].member = i
      BY <3>1 DEF NextRows
    <3>3. new[m].step = s
      BY <3>1, <3>2 DEF NextRows
    <3> QED
      BY <1>3, <3>2, <3>3
  <2> QED
    BY <2>1, <2>2
<1>8. ASSUME NEW n \in DOMAIN rows, NEW m \in DOMAIN new
      PROVE  rows[n].member # new[m].member \/ rows[n].step # new[m].step
  <2>1. PICK i, s : i = rows[n].member /\ s = rows[n].step
    OBVIOUS
  <2>2. i \in D /\ s \in 0 .. adv[i] - 1
    BY <2>1 DEF RowsUpTo
  <2>3. s # adv[i]
    BY <1>1, <2>2
  <2>4. new[m].step = adv[new[m].member]
    BY DEF NextRows
  <2> QED
    BY <2>1, <2>3, <2>4
<1>9. ASSUME NEW m \in DOMAIN c, NEW n \in DOMAIN c, m # n
      PROVE  c[m].member # c[n].member \/ c[m].step # c[n].step
  <2>1. CASE m \in DOMAIN rows /\ c[m] = rows[m] /\ n \in DOMAIN rows /\ c[n] = rows[n]
    BY <1>9, <2>1 DEF RowsUpTo
  <2>2. ASSUME m \in DOMAIN rows /\ c[m] = rows[m], NEW k \in DOMAIN new, c[n] = new[k]
        PROVE  c[m].member # c[n].member \/ c[m].step # c[n].step
    BY <1>8, <2>2
  <2>3. ASSUME n \in DOMAIN rows /\ c[n] = rows[n], NEW k \in DOMAIN new, c[m] = new[k]
        PROVE  c[m].member # c[n].member \/ c[m].step # c[n].step
    <3>1. rows[n].member # new[k].member \/ rows[n].step # new[k].step
      BY <1>8, <2>3
    <3> QED
      BY <2>3, <3>1
  <2>4. ASSUME NEW j \in DOMAIN new, NEW k \in DOMAIN new, m = Len(rows) + j, n = Len(rows) + k,
               c[m] = new[j], c[n] = new[k]
        PROVE  c[m].member # c[n].member \/ c[m].step # c[n].step
    <3>1. j # k
      BY <1>9, <2>4
    <3> QED
      BY <2>4, <3>1 DEF NextRows
  <2> QED
    BY <1>4, <2>1, <2>2, <2>3, <2>4
<1> QED
  BY <1>2, <1>5, <1>6, <1>7, <1>9 DEF RowsUpTo
-----------------------------------------------------------------------------
(* The replay of a member: what it advanced with, and its history.         *)
Replayed(how, m, a, h) ==
  /\ IsList(a) /\ Len(a) <= Len(m.continuation) /\ h = m.prompt \o a
  /\ how # "control" => \A s \in 1 .. Len(a) : a[s] = m.continuation[s]
  /\ how = "control" => h = FreeRun(m.prompt, Len(a))

(* The rows of ms predict from the frozen history.                         *)
FrozenRow(ms, row) ==
  row.history = ms[row.member].prompt \o SubSeq(ms[row.member].continuation, 1, row.step)

Frozen(ms, rows) == \A n \in DOMAIN rows : FrozenRow(ms, rows[n])

(* A plan that ran to its end.                                             *)
Whole(how, ms, capt) ==
  /\ RowsUpTo(capt.rows, DOMAIN ms, [i \in DOMAIN ms |-> Len(ms[i].continuation)])
  /\ how # "control" => Frozen(ms, capt.rows)
  /\ how = "control" => \A i \in DOMAIN ms :
       ms[i].prompt \o capt.advances[i] = FreeRun(ms[i].prompt, Len(ms[i].continuation))

FixShape ==
  /\ plans \in PlanLists /\ call \in 1 .. Target /\ DOMAIN captures = DOMAIN plans
  /\ trace = [on |-> trace.on, steps |-> trace.steps]
  /\ error # "history"

Going ==
  /\ DOMAIN requests = DOMAIN Members
  /\ DOMAIN replay = {"rows", "advances"} /\ DOMAIN replay.advances = DOMAIN Members
  /\ \A i \in DOMAIN Members :
       /\ Replayed(mode, Members[i], replay.advances[i], requests[i].history)
       /\ requests[i].computed \in Nat /\ DOMAIN requests[i] = {"history", "computed"}
  /\ RowsUpTo(replay.rows, DOMAIN Members, [i \in DOMAIN Members |-> Len(replay.advances[i])])
  /\ mode # "control" => Frozen(Members, replay.rows)

(* Plans are published one after the other, each of them whole.            *)
Published ==
  /\ \A j \in 1 .. Target : j < call \/ (j = call /\ fixPc \in {"linked", "done"}) =>
       captures[j] # <<>> /\ OutputOf(j) \in disk
  /\ \A k \in 1 .. Target : captures[k] # <<>> =>
       /\ \A j \in 1 .. k : OutputOf(j) \in disk /\ captures[j] # <<>>
       /\ Whole(mode, plans[k], captures[k])

(* The first n executed tokens after the prompt are in the trace.          *)
TracedTo(m, steps, n) ==
  /\ IsList(steps) /\ Len(steps) = n
  /\ \A k \in 1 .. n : steps[k].tokens = IF k = 1 THEN m.prompt ELSE <<m.continuation[k - 1]>>

TraceInv ==
  /\ fixPc = "running" => "output" \in fixEnv
  /\ mode = "trace" /\ fixPc \in {"new", "call", "running", "linked", "done"} =>
       Len(plans) = 1 /\ Len(plans[1]) = 1 /\ "trace" \in fixEnv
  /\ mode = "trace" /\ fixPc \in {"call", "running", "linked", "done"} => trace.on
  /\ mode = "trace" /\ fixPc \in {"preflight", "new", "call"} => trace.steps = <<>>
  /\ mode = "trace" /\ fixPc = "running" =>
       TracedTo(plans[1][1], trace.steps, Len(replay.advances[1]))
  /\ mode = "trace" /\ fixPc \in {"linked", "done"} =>
       TracedTo(plans[1][1], trace.steps, Len(plans[1][1].continuation))

FixInv == FixShape /\ (fixPc = "running" => Going) /\ Published /\ TraceInv

(* The plans are lists of members with a prompt and a continuation.        *)
MemberShape(m) ==
  /\ IsList(m.prompt) /\ Len(m.prompt) \in Nat \ {0}
  /\ IsList(m.continuation) /\ Len(m.continuation) \in Nat \ {0}

PlanShape(ms) ==
  /\ IsList(ms) /\ Len(ms) \in Nat /\ DOMAIN ms = 1 .. Len(ms)
  /\ \A i \in 1 .. Len(ms) : MemberShape(ms[i])

LEMMA NonEmptyList ==
  ASSUME NEW s, IsList(s), s # <<>>
  PROVE  Len(s) \in Nat \ {0} /\ DOMAIN s = 1 .. Len(s)
BY DEF IsList

LEMMA PlansShape ==
  ASSUME NEW list \in PlanLists
  PROVE  /\ IsList(list) /\ Len(list) \in Nat \ {0} /\ DOMAIN list = 1 .. Len(list)
         /\ \A k \in 1 .. Len(list) : PlanShape(list[k])
<1>1. IsList(list) /\ list # <<>>
  BY PlansNonEmpty
<1>2. Len(list) \in Nat \ {0} /\ DOMAIN list = 1 .. Len(list)
  BY <1>1, NonEmptyList
<1>3. ASSUME NEW k \in 1 .. Len(list) PROVE PlanShape(list[k])
  <2>1. IsList(list[k])
    BY <1>2, PlansNonEmpty
  <2>2. Len(list[k]) \in Nat /\ DOMAIN list[k] = 1 .. Len(list[k])
    BY <2>1 DEF IsList
  <2>3. ASSUME NEW i \in 1 .. Len(list[k]) PROVE MemberShape(list[k][i])
    <3>1. /\ IsList(list[k][i].prompt) /\ list[k][i].prompt # <<>>
          /\ IsList(list[k][i].continuation) /\ list[k][i].continuation # <<>>
      BY <1>2, <2>2, PlansNonEmpty
    <3> QED
      BY <3>1, NonEmptyList DEF MemberShape
  <2> QED
    BY <2>1, <2>2, <2>3 DEF PlanShape
<1> QED
  BY <1>1, <1>2, <1>3

(* A member advances by one token.                                         *)
LEMMA ReplayedNext ==
  ASSUME NEW how, NEW m, MemberShape(m), NEW a, NEW h, Replayed(how, m, a, h),
         Len(a) < Len(m.continuation), NEW e,
         e = IF how = "control" THEN Predict(h) ELSE m.continuation[Len(a) + 1]
  PROVE  Replayed(how, m, Append(a, e), Append(h, e))
<1> DEFINE b == Append(a, e)
<1>1. IsList(a) /\ Len(a) <= Len(m.continuation) /\ h = m.prompt \o a
  BY DEF Replayed
<1>2. /\ Len(a) \in Nat /\ IsList(b) /\ Len(b) = Len(a) + 1
      /\ \A n \in 1 .. Len(a) : b[n] = a[n]
      /\ b[Len(a) + 1] = e
  BY <1>1, AppendList
<1>3. Append(h, e) = m.prompt \o b
  <2>1. PICK p : p = m.prompt
    OBVIOUS
  <2>2. IsList(p)
    BY <2>1 DEF MemberShape
  <2> HIDE DEF b
  <2>3. \A d : Append(p \o a, d) = p \o Append(a, d)
    <3> TAKE d
    <3> QED
      BY ONLY <1>1, <2>2, AppendConcat
  <2> QED
    BY <1>1, <2>1, <2>3, Zenon DEF b
<1> HIDE DEF b
<1>4. Len(m.continuation) \in Nat
  BY DEF MemberShape
<1>5. ASSUME how # "control", NEW s \in 1 .. Len(b) PROVE b[s] = m.continuation[s]
  <2>1. CASE s \in 1 .. Len(a)
    BY <1>2, <1>5, <2>1 DEF Replayed
  <2>2. CASE s = Len(a) + 1
    BY <1>2, <1>5, <2>2
  <2> QED
    BY <1>2, <2>1, <2>2
<1>6. ASSUME how = "control" PROVE Append(h, e) = FreeRun(m.prompt, Len(b))
  <2>1. h = FreeRun(m.prompt, Len(a)) /\ e = Predict(h)
    BY <1>6 DEF Replayed
  <2>2. FreeRun(m.prompt, Len(a) + 1)
          = Append(FreeRun(m.prompt, Len(a)), Predict(FreeRun(m.prompt, Len(a))))
    BY <1>2, FreeStep
  <2> QED
    BY <1>2, <2>1, <2>2, Zenon
<1>7. Replayed(how, m, b, Append(h, e))
  <2>1. Len(b) <= Len(m.continuation)
    BY <1>2, <1>4
  <2> QED
    BY <1>2, <1>3, <1>5, <1>6, <2>1, Zenon DEF Replayed
<1> QED
  BY <1>7 DEF b

LEMMA ReplayedStart ==
  ASSUME NEW how, NEW m, MemberShape(m)
  PROVE  Replayed(how, m, <<>>, m.prompt)
<1>1. IsList(<<>>) /\ Len(<<>>) = 0
  BY DEF IsList
<1>2. m.prompt \o <<>> = m.prompt
  BY DEF MemberShape, IsList
<1>3. FreeRun(m.prompt, 0) = m.prompt
  BY FreeStep
<1> QED
  BY <1>1, <1>2, <1>3 DEF Replayed, MemberShape

(* What a replayed history holds.                                          *)
HistoryShape(how, m, a, h) ==
  /\ IsList(a) /\ Len(a) \in Nat /\ IsList(h) /\ Len(h) = Len(m.prompt) + Len(a)
  /\ how # "control" => a = SubSeq(m.continuation, 1, Len(a))

LEMMA ReplayedHistory ==
  ASSUME NEW how, NEW m, MemberShape(m), NEW a, NEW h, Replayed(how, m, a, h)
  PROVE  HistoryShape(how, m, a, h)
<1>1. IsList(a) /\ h = m.prompt \o a /\ Len(a) \in Nat
  BY AppendList DEF Replayed
<1>2. IsList(h) /\ Len(h) = Len(m.prompt) + Len(a)
  BY <1>1, ConcatLists DEF MemberShape, Follows
<1>3. ASSUME how # "control" PROVE a = SubSeq(m.continuation, 1, Len(a))
  <2> DEFINE u == SubSeq(m.continuation, 1, Len(a))
  <2>1. IsList(u) /\ Len(u) = Len(a) /\ \A n \in 1 .. Len(a) : u[n] = m.continuation[n]
    BY <1>1, PrefixList DEF MemberShape, Replayed
  <2>2. \A n \in 1 .. Len(a) : a[n] = m.continuation[n]
    BY <1>3 DEF Replayed
  <2> HIDE DEF u
  <2>3. a = u
    BY <1>1, <2>1, <2>2, ListsEqual
  <2> QED
    BY <2>3 DEF u
<1> QED
  BY <1>1, <1>2, <1>3 DEF HistoryShape

(* Nothing is replayed yet.                                                *)
LEMMA FixInvInit == FixInit => FixInv
<1> SUFFICES ASSUME FixInit PROVE FixInv
  OBVIOUS
<1>1. plans \in PlanLists /\ Target \in Nat \ {0} /\ DOMAIN plans = 1 .. Target
  BY PlansShape DEF FixInit, Target
<1>2. FixShape
  BY <1>1 DEF FixInit, FixShape
<1>3. Published
  BY <1>1 DEF FixInit, Published
<1>4. TraceInv
  BY DEF FixInit, TraceInv
<1> QED
  BY <1>2, <1>3, <1>4 DEF FixInit, FixInv

(* The plan that runs.                                                     *)
LEMMA MembersShape ==
  ASSUME FixInv
  PROVE  /\ Target \in Nat \ {0} /\ DOMAIN plans = 1 .. Target /\ call \in 1 .. Target
         /\ PlanShape(Members) /\ DOMAIN Members = 1 .. Len(Members) /\ Len(Members) \in Nat
         /\ \A i \in DOMAIN Members : MemberShape(Members[i])
<1>1. plans \in PlanLists /\ call \in 1 .. Target
  BY DEF FixInv, FixShape
<1>2. Target \in Nat \ {0} /\ DOMAIN plans = 1 .. Target /\ PlanShape(Members)
  BY <1>1, PlansShape DEF Target, Members
<1> QED
  BY <1>1, <1>2 DEF PlanShape

(* Stopping keeps what was published.                                      *)
LEMMA StopInv ==
  ASSUME FixInv, NEW why, why # "history", Stop(why),
         UNCHANGED <<mode, plans, call, trace, captures>>, disk \subseteq disk'
  PROVE  FixInv'
<1>1. FixShape'
  BY DEF FixInv, FixShape, Stop, Target
<1>2. Published'
  BY DEF FixInv, Published, Stop, Target, OutputOf
<1>3. TraceInv' /\ fixPc' = "failed"
  BY DEF FixInv, TraceInv, Stop
<1> QED
  BY <1>1, <1>2, <1>3 DEF FixInv

LEMMA PreflightInv == FixInv /\ Preflight => FixInv'
<1> SUFFICES ASSUME FixInv, Preflight PROVE FixInv'
  OBVIOUS
<1>1. UNCHANGED <<mode, plans, call, requests, replayPreempts, replay, trace, disk, captures>>
      /\ fixPc = "preflight"
  BY DEF Preflight
<1>2. CASE Stop("preflight")
  BY <1>1, <1>2, StopInv
<1>3. CASE /\ ~(mode = "trace" /\ ~TraceAllowed) /\ UNCHANGED error
           /\ fixEnv' = {"plan"} \cup (IF mode = "trace" THEN {"trace"} ELSE {}) /\ fixPc' = "new"
  <2>1. FixShape'
    BY <1>1, <1>3 DEF FixInv, FixShape, Target
  <2>2. Published'
    BY <1>1, <1>3 DEF FixInv, Published, Target, OutputOf
  <2>3. TraceInv'
    BY <1>1, <1>3 DEF FixInv, TraceInv, TraceAllowed
  <2> QED
    BY <1>3, <2>1, <2>2, <2>3 DEF FixInv
<1> QED
  BY <1>2, <1>3 DEF Preflight

LEMMA NewEngineInv == FixInv /\ NewEngine => FixInv'
<1> SUFFICES ASSUME FixInv, NewEngine PROVE FixInv'
  OBVIOUS
<1>1. UNCHANGED <<mode, plans, call, fixEnv, requests, replayPreempts, replay, disk, captures>>
      /\ fixPc = "new"
  BY DEF NewEngine
<1>2. CASE Stop("engine") /\ UNCHANGED trace
  BY <1>1, <1>2, StopInv
<1>3. CASE trace' = [trace EXCEPT !.on = "trace" \in fixEnv] /\ fixPc' = "call" /\ UNCHANGED error
  <2>1. trace' = [on |-> trace'.on, steps |-> trace'.steps] /\ trace'.steps = trace.steps
        /\ ("trace" \in fixEnv => trace'.on)
    BY <1>3 DEF FixInv, FixShape
  <2>2. FixShape'
    BY <1>1, <1>3, <2>1 DEF FixInv, FixShape, Target
  <2>3. Published'
    BY <1>1, <1>3 DEF FixInv, Published, Target, OutputOf
  <2>4. TraceInv'
    BY <1>1, <1>3, <2>1 DEF FixInv, TraceInv
  <2> QED
    BY <1>3, <2>2, <2>3, <2>4 DEF FixInv
<1> QED
  BY <1>2, <1>3 DEF NewEngine

LEMMA StartCallInv == FixInv /\ StartCall => FixInv'
<1> SUFFICES ASSUME FixInv, StartCall PROVE FixInv'
  OBVIOUS
<1>1. UNCHANGED <<mode, plans, call, trace, captures>> /\ fixPc = "call"
      /\ fixEnv' = fixEnv \cup {"plan", "output"} \cup (IF mode = "control" THEN {"control"} ELSE {})
  BY DEF StartCall
<1>2. CASE Stop("admission") /\ UNCHANGED <<requests, replay, disk>>
  BY <1>1, <1>2, StopInv
<1>3. CASE Stop("not_fresh") /\ UNCHANGED <<requests, replay, disk>>
  BY <1>1, <1>3, StopInv
<1>4. ASSUME disk' = disk \cup {<<"stage", call>>}, NEW cached \in BOOLEAN,
             requests' = [i \in DOMAIN Members |->
                      [history |-> Members[i].prompt,
                       computed |-> IF cached /\ call > 1 THEN Len(Members[i].prompt) - 1 ELSE 0]],
             replay' = [rows |-> <<>>, advances |-> [i \in DOMAIN Members |-> <<>>]],
             fixPc' = "running", UNCHANGED error
      PROVE  FixInv'
  <2>1. Members' = Members /\ \A i \in DOMAIN Members : MemberShape(Members[i])
    BY <1>1, MembersShape DEF Members
  <2>2. FixShape'
    BY <1>1, <1>4 DEF FixInv, FixShape, Target
  <2>3. Published'
    BY <1>1, <1>4 DEF FixInv, Published, Target, OutputOf
  <2>4. Going'
    <3>1. DOMAIN requests' = DOMAIN Members /\ DOMAIN replay'.advances = DOMAIN Members
          /\ replay'.rows = <<>> /\ DOMAIN replay' = {"rows", "advances"}
      BY <1>4
    <3>2. ASSUME NEW i \in DOMAIN Members
          PROVE  /\ Replayed(mode, Members[i], replay'.advances[i], requests'[i].history)
                 /\ requests'[i].computed \in Nat /\ DOMAIN requests'[i] = {"history", "computed"}
      <4>1. replay'.advances[i] = <<>> /\ requests'[i].history = Members[i].prompt
        BY <1>4
      <4>2. requests'[i].computed \in {0, Len(Members[i].prompt) - 1}
        BY <1>4
      <4>3. Len(Members[i].prompt) \in Nat \ {0}
        BY <2>1 DEF MemberShape
      <4>4. Replayed(mode, Members[i], <<>>, Members[i].prompt)
        BY <2>1, ReplayedStart
      <4>5. DOMAIN requests'[i] = {"history", "computed"}
        BY <1>4
      <4> QED
        BY <4>1, <4>2, <4>3, <4>4, <4>5
    <3>3. RowsUpTo(<<>>, DOMAIN Members, [i \in DOMAIN Members |-> Len(replay'.advances[i])])
      <4> DEFINE adv == [i \in DOMAIN Members |-> Len(replay'.advances[i])]
      <4>1. \A i \in DOMAIN Members : adv[i] = 0
        BY <1>4
      <4>2. IsList(<<>>)
        BY DEF IsList
      <4> HIDE DEF adv
      <4>3. RowsUpTo(<<>>, DOMAIN Members, adv)
        BY <4>1, <4>2 DEF RowsUpTo
      <4> QED
        BY <4>3 DEF adv
    <3>4. Frozen(Members, <<>>)
      BY DEF Frozen
    <3> QED
      BY <1>1, <2>1, <3>1, <3>2, <3>3, <3>4, Zenon DEF Going
  <2>5. TraceInv'
    <3>1. mode = "trace" => TracedTo(plans[1][1], trace.steps, 0) /\ Len(replay'.advances[1]) = 0
      <4> SUFFICES ASSUME mode = "trace"
                   PROVE  TracedTo(plans[1][1], trace.steps, 0) /\ Len(replay'.advances[1]) = 0
        OBVIOUS
      <4>1. Len(plans) = 1 /\ Len(plans[1]) = 1 /\ trace.steps = <<>>
        BY <1>1 DEF FixInv, TraceInv
      <4>2. call = 1 /\ 1 \in DOMAIN Members
        BY <4>1, MembersShape DEF Target, Members
      <4>3. IsList(<<>>)
        BY DEF IsList
      <4> QED
        BY <1>4, <4>1, <4>2, <4>3 DEF TracedTo
    <3> QED
      BY <1>1, <1>4, <3>1 DEF FixInv, TraceInv
  <2> QED
    BY <2>2, <2>3, <2>4, <2>5 DEF FixInv
<1> QED
  BY <1>2, <1>3, <1>4 DEF StartCall

LEMMA PreemptReplayedInv == FixInv /\ PreemptReplayed => FixInv'
<1> SUFFICES ASSUME FixInv, PreemptReplayed PROVE FixInv'
  OBVIOUS
<1>1. UNCHANGED <<fixPc, mode, plans, call, fixEnv, replay, trace, disk, captures, error>>
      /\ fixPc = "running"
  BY DEF PreemptReplayed
<1>2. PICK k \in Unreplayed : requests' = [requests EXCEPT ![k].computed = 0]
  BY DEF PreemptReplayed
<1>3. Members' = Members /\ Going
  BY <1>1 DEF Members, FixInv
<1>4. /\ DOMAIN requests' = DOMAIN Members
      /\ \A i \in DOMAIN Members : /\ requests'[i].history = requests[i].history
                                   /\ requests'[i].computed \in {requests[i].computed, 0}
                                   /\ DOMAIN requests'[i] = {"history", "computed"}
  <2>1. /\ DOMAIN requests = DOMAIN Members /\ k \in DOMAIN Members
        /\ \A i \in DOMAIN Members : DOMAIN requests[i] = {"history", "computed"}
    BY <1>2, <1>3 DEF Going, Unreplayed
  <2>2. \A i \in DOMAIN requests : requests'[i] = IF i = k THEN [requests[k] EXCEPT !.computed = 0]
                                                  ELSE requests[i]
    BY <1>2
  <2>3. [requests[k] EXCEPT !.computed = 0].history = requests[k].history
    OBVIOUS
  <2>4. [requests[k] EXCEPT !.computed = 0].computed = 0
        /\ DOMAIN [requests[k] EXCEPT !.computed = 0] = {"history", "computed"}
    BY <2>1
  <2> QED
    BY <1>2, <2>1, <2>2, <2>3, <2>4
<1>5. Going'
  <2>1. ASSUME NEW i \in DOMAIN Members
        PROVE  /\ Replayed(mode, Members[i], replay.advances[i], requests'[i].history)
               /\ requests'[i].computed \in Nat /\ DOMAIN requests'[i] = {"history", "computed"}
    BY <1>3, <1>4 DEF Going
  <2> QED
    BY <1>1, <1>3, <1>4, <2>1 DEF Going
<1>6. FixShape' /\ Published' /\ TraceInv'
  BY <1>1 DEF FixInv, FixShape, Published, TraceInv, Target, OutputOf
<1> QED
  BY <1>5, <1>6 DEF FixInv
(* A request that still has tokens to replay agrees with its plan.         *)
LEMMA PlanMatches ==
  ASSUME FixInv, Going, NEW i \in Unreplayed
  PROVE  /\ MatchesPlan(i) /\ i \in DOMAIN Members /\ MemberShape(Members[i])
         /\ Replayed(mode, Members[i], replay.advances[i], requests[i].history)
         /\ Generated(i) = Len(replay.advances[i]) /\ Len(replay.advances[i]) \in Nat
         /\ Len(replay.advances[i]) < Len(Members[i].continuation)
         /\ Len(requests[i].history) = Len(Members[i].prompt) + Len(replay.advances[i])
<1>1. i \in DOMAIN Members /\ Generated(i) < Len(Members[i].continuation)
  BY DEF Unreplayed, Going
<1>2. MemberShape(Members[i]) /\ Len(Members[i].prompt) \in Nat
  BY <1>1, MembersShape DEF MemberShape
<1>3. Replayed(mode, Members[i], replay.advances[i], requests[i].history)
  BY <1>1 DEF Going
<1>4. /\ Len(replay.advances[i]) \in Nat
      /\ Len(requests[i].history) = Len(Members[i].prompt) + Len(replay.advances[i])
  <2>1. HistoryShape(mode, Members[i], replay.advances[i], requests[i].history)
    BY <1>2, <1>3, ReplayedHistory
  <2> QED
    BY <2>1 DEF HistoryShape
<1>5. Generated(i) = Len(replay.advances[i])
  BY <1>2, <1>4 DEF Generated
<1>6. requests[i].history = History(i)
  BY <1>3 DEF Replayed, History
<1> QED
  BY <1>1, <1>2, <1>3, <1>4, <1>5, <1>6 DEF MatchesPlan

(* The numbers of a bounded set, in order.                                 *)
Listing(order, S) ==
  /\ IsList(order)
  /\ \A n \in DOMAIN order : order[n] \in S
  /\ \A d \in S : \E n \in DOMAIN order : order[n] = d
  /\ \A m, n \in DOMAIN order : m # n => order[m] # order[n]

LEMMA InOrderLists ==
  ASSUME NEW N \in Nat, NEW S \in SUBSET (1 .. N)
  PROVE  Listing(InOrder(S), S)
<1>1. IsFiniteSet(S)
  <2>1. IsFiniteSet(1 .. N)
    BY FS_Interval
  <2> QED
    BY <2>1, FS_Subset
<1>2. StrictOrder(Ascending(S), S)
  BY DEF StrictOrder, Ascending
<1> DEFINE c == Cardinality(S)
           order == InOrder(S)
<1>3. /\ c \in Nat /\ order \in [1 .. c -> S]
      /\ \A i, j \in 1 .. c : i # j => order[i] # order[j]
      /\ \A d \in S : \E i \in 1 .. c : order[i] = d
  BY <1>1, <1>2, EnumerateBijective DEF InOrder
<1> HIDE DEF order, c
<1>4. order = [n \in 1 .. c |-> order[n]]
  BY <1>3
<1>5. IsList(order)
  BY <1>3, <1>4, TupleIsList
<1> QED
  BY <1>3, <1>5 DEF Listing, order

(* The rows of a step, one for each request that sampled.                  *)
LEMMA StepRows ==
  ASSUME FixInv, Going, NEW S \in SUBSET Unreplayed, NEW order, Listing(order, S),
         NEW new, new = [n \in DOMAIN order |-> RowOf(order[n])]
  PROVE  /\ NextRows(new, S, [i \in DOMAIN Members |-> Len(replay.advances[i])])
         /\ mode # "control" => Frozen(Members, new)
<1> DEFINE adv == [i \in DOMAIN Members |-> Len(replay.advances[i])]
<1>1. DOMAIN new = DOMAIN order
  OBVIOUS
<1>2. /\ IsList(order)
      /\ \A n \in DOMAIN order : order[n] \in S
      /\ \A d \in S : \E n \in DOMAIN order : order[n] = d
      /\ \A m, n \in DOMAIN order : m # n => order[m] # order[n]
  BY DEF Listing
<1>3. \A n \in DOMAIN new : new[n].member = order[n] /\ new[n].step = Generated(order[n])
                            /\ new[n].history = requests[order[n]].history
  BY DEF RowOf
<1>4. IsList(new)
  <2>1. Len(order) \in Nat /\ DOMAIN order = 1 .. Len(order)
    BY <1>2 DEF IsList
  <2>2. new = [n \in 1 .. Len(order) |-> new[n]]
    BY <2>1
  <2> QED
    BY <2>1, <2>2, TupleIsList, Zenon
<1>5. \A i \in S : adv[i] = Generated(i) /\ i \in DOMAIN Members
  <2> TAKE i \in S
  <2>1. i \in DOMAIN Members /\ Generated(i) = Len(replay.advances[i])
    BY PlanMatches
  <2> QED
    BY <2>1
<1>6. NextRows(new, S, adv)
  <2> HIDE DEF adv
  <2> QED
    BY <1>1, <1>2, <1>3, <1>4, <1>5 DEF NextRows
<1>7. ASSUME mode # "control" PROVE Frozen(Members, new)
  <2> SUFFICES ASSUME NEW n \in DOMAIN new PROVE FrozenRow(Members, new[n])
    BY DEF Frozen
  <2>1. PICK i \in S : i = order[n] /\ i \in Unreplayed
    BY <1>1, <1>2
  <2>2. /\ Replayed(mode, Members[i], replay.advances[i], requests[i].history)
        /\ MemberShape(Members[i]) /\ Generated(i) = Len(replay.advances[i])
    BY <2>1, PlanMatches
  <2>3. replay.advances[i] = SubSeq(Members[i].continuation, 1, Generated(i))
    <3>1. HistoryShape(mode, Members[i], replay.advances[i], requests[i].history)
      BY <2>2, ReplayedHistory
    <3> QED
      BY <1>7, <2>2, <3>1, Zenon DEF HistoryShape
  <2>4. requests[i].history = Members[i].prompt \o replay.advances[i]
    BY <2>2 DEF Replayed
  <2>5. new[n].member = i /\ new[n].step = Generated(i) /\ new[n].history = requests[i].history
    BY <1>3, <2>1
  <2> QED
    BY <2>3, <2>4, <2>5, Zenon DEF FrozenRow
<1> QED
  BY <1>6, <1>7

(* The rows of two lists are frozen if those of each are.                  *)
LEMMA FrozenConcat ==
  ASSUME NEW ms, NEW s, NEW u, IsList(s), IsList(u), Frozen(ms, s), Frozen(ms, u)
  PROVE  Frozen(ms, s \o u)
<1> DEFINE c == s \o u
<1>1. Follows(s, u, c)
  BY ConcatLists
<1> HIDE DEF c
<1>2. \A n \in DOMAIN c : \/ n \in DOMAIN s /\ c[n] = s[n]
                          \/ \E m \in DOMAIN u : n = Len(s) + m /\ c[n] = u[m]
  BY <1>1, ConcatOrigin
<1>3. ASSUME NEW n \in DOMAIN c PROVE FrozenRow(ms, c[n])
  <2>1. CASE n \in DOMAIN s /\ c[n] = s[n]
    BY <2>1 DEF Frozen
  <2>2. CASE \E m \in DOMAIN u : n = Len(s) + m /\ c[n] = u[m]
    BY <2>2 DEF Frozen
  <2> QED
    BY <1>2, <2>1, <2>2
<1>4. Frozen(ms, c)
  BY <1>3 DEF Frozen
<1> QED
  BY <1>4 DEF c
(* What a step that is executed does.                                      *)
Stepped(chunks, sampling, order) ==
  /\ replay' = [rows |-> replay.rows \o [n \in DOMAIN order |-> RowOf(order[n])],
                advances |-> [i \in DOMAIN Members |->
                  IF i \in sampling THEN Append(replay.advances[i], Advance(i, Predicted(i)))
                  ELSE replay.advances[i]]]
  /\ requests' = [i \in DOMAIN requests |->
       IF i \notin DOMAIN chunks THEN requests[i]
       ELSE [history |-> IF i \in sampling
                         THEN Append(requests[i].history, Executed(i, Predicted(i)))
                         ELSE requests[i].history,
             computed |-> requests[i].computed + chunks[i]]]

(* A member after the step.                                                *)
LEMMA SteppedMember ==
  ASSUME FixInv, Going, NEW chunks, DOMAIN chunks \subseteq Unreplayed,
         \A i \in DOMAIN chunks : chunks[i] \in Nat,
         NEW sampling \in SUBSET (DOMAIN chunks), NEW order, Stepped(chunks, sampling, order),
         NEW i \in DOMAIN Members
  PROVE  /\ Replayed(mode, Members[i], replay'.advances[i], requests'[i].history)
         /\ requests'[i].computed \in Nat /\ DOMAIN requests'[i] = {"history", "computed"}
         /\ Len(replay.advances[i]) \in Nat
         /\ i \in sampling => Len(replay'.advances[i]) = Len(replay.advances[i]) + 1
         /\ i \notin sampling => Len(replay'.advances[i]) = Len(replay.advances[i])
<1>1. /\ DOMAIN requests = DOMAIN Members /\ MemberShape(Members[i])
      /\ Replayed(mode, Members[i], replay.advances[i], requests[i].history)
      /\ requests[i].computed \in Nat /\ DOMAIN requests[i] = {"history", "computed"}
  BY MembersShape DEF Going
<1>2. IsList(replay.advances[i]) /\ Len(replay.advances[i]) \in Nat
  <2>1. HistoryShape(mode, Members[i], replay.advances[i], requests[i].history)
    BY <1>1, ReplayedHistory
  <2> QED
    BY <2>1 DEF HistoryShape
<1>3. CASE i \in sampling
  <2> DEFINE e == Advance(i, Predicted(i))
  <2>1. i \in DOMAIN chunks /\ i \in Unreplayed
    BY <1>3
  <2>2. /\ replay'.advances[i] = Append(replay.advances[i], e)
        /\ requests'[i].history = Append(requests[i].history, e)
        /\ requests'[i].computed = requests[i].computed + chunks[i]
        /\ DOMAIN requests'[i] = {"history", "computed"}
    BY <1>1, <1>3, <2>1 DEF Stepped, Executed
  <2>3. Len(replay.advances[i]) < Len(Members[i].continuation)
        /\ Generated(i) = Len(replay.advances[i])
    BY <2>1, PlanMatches
  <2>4. e = IF mode = "control" THEN Predict(requests[i].history)
            ELSE Members[i].continuation[Len(replay.advances[i]) + 1]
    BY <2>3 DEF Advance, Predicted
  <2> HIDE DEF e
  <2>5. Replayed(mode, Members[i], Append(replay.advances[i], e), Append(requests[i].history, e))
    BY <1>1, <2>3, <2>4, ReplayedNext
  <2>6. Len(Append(replay.advances[i], e)) = Len(replay.advances[i]) + 1
    BY <1>2, AppendList
  <2>7. requests'[i].computed \in Nat
    BY <1>1, <2>1, <2>2
  <2>8. Replayed(mode, Members[i], replay'.advances[i], requests'[i].history)
    BY <2>2, <2>5, Zenon
  <2> QED
    BY <1>2, <1>3, <2>2, <2>6, <2>7, <2>8
<1>4. CASE i \notin sampling
  <2>1. /\ replay'.advances[i] = replay.advances[i]
        /\ requests'[i].history = requests[i].history
        /\ DOMAIN requests'[i] = {"history", "computed"}
    BY <1>1, <1>4 DEF Stepped
  <2>2. requests'[i].computed \in Nat
    BY <1>1, <1>4 DEF Stepped
  <2> QED
    BY <1>1, <1>2, <1>4, <2>1, <2>2
<1> QED
  BY <1>3, <1>4

(* The session after the step.                                             *)
LEMMA SteppedGoing ==
  ASSUME FixInv, Going, NEW chunks, DOMAIN chunks \subseteq Unreplayed,
         \A i \in DOMAIN chunks : chunks[i] \in Nat,
         NEW sampling \in SUBSET (DOMAIN chunks), NEW order, Listing(order, sampling),
         Stepped(chunks, sampling, order), UNCHANGED <<mode, plans, call>>
  PROVE  Going'
<1> DEFINE adv == [i \in DOMAIN Members |-> Len(replay.advances[i])]
           adv2 == [i \in DOMAIN Members |-> Len(replay'.advances[i])]
           new == [n \in DOMAIN order |-> RowOf(order[n])]
<1>1. Members' = Members
  BY DEF Members
<1>2. DOMAIN requests' = DOMAIN Members /\ DOMAIN replay'.advances = DOMAIN Members
      /\ replay'.rows = replay.rows \o new /\ DOMAIN replay' = {"rows", "advances"}
  BY DEF Stepped, Going
<1>3. \A i \in DOMAIN Members :
         /\ Replayed(mode, Members[i], replay'.advances[i], requests'[i].history)
         /\ requests'[i].computed \in Nat /\ DOMAIN requests'[i] = {"history", "computed"}
  BY SteppedMember
<1>4. RowsUpTo(replay.rows, DOMAIN Members, adv)
  BY DEF Going
<1>5. NextRows(new, sampling, adv) /\ (mode # "control" => Frozen(Members, new))
  <2>1. sampling \in SUBSET Unreplayed
    OBVIOUS
  <2> QED
    BY <2>1, StepRows
<1>6. sampling \in SUBSET DOMAIN Members
  BY DEF Unreplayed, Going
<1>7. Advanced(sampling, DOMAIN Members, adv, adv2)
  <2>1. \A i \in DOMAIN Members :
          /\ Len(replay.advances[i]) \in Nat
          /\ i \in sampling => Len(replay'.advances[i]) = Len(replay.advances[i]) + 1
          /\ i \notin sampling => Len(replay'.advances[i]) = Len(replay.advances[i])
    BY SteppedMember
  <2>2. \A i \in DOMAIN Members : adv[i] = Len(replay.advances[i]) /\ adv2[i] = Len(replay'.advances[i])
    OBVIOUS
  <2> HIDE DEF adv, adv2
  <2> QED
    BY <2>1, <2>2 DEF Advanced
<1>8. IsList(replay.rows) /\ IsList(new)
  BY <1>4, <1>5 DEF RowsUpTo, NextRows
<1> HIDE DEF adv, adv2, new
<1>9. RowsUpTo(replay'.rows, DOMAIN Members, adv2)
  BY <1>2, <1>4, <1>5, <1>6, <1>7, RowsExtend
<1>10. ASSUME mode # "control" PROVE Frozen(Members, replay'.rows)
  <2>1. Frozen(Members, replay.rows)
    BY <1>10 DEF Going
  <2>2. Frozen(Members, replay.rows \o new)
    BY <1>5, <1>8, <1>10, <2>1, FrozenConcat
  <2> QED
    BY <1>2, <2>2, Zenon
<1> QED
  BY <1>1, <1>2, <1>3, <1>9, <1>10, Zenon DEF Going, adv2

(* The trace of one more executed step.                                    *)
LEMMA TraceExtends ==
  ASSUME NEW m, NEW steps, NEW n \in Nat, TracedTo(m, steps, n), NEW tokens, NEW first,
         tokens = IF n = 0 THEN m.prompt ELSE <<m.continuation[n]>>,
         NEW longer, longer = Append(steps, [tokens |-> tokens, first |-> first])
  PROVE  TracedTo(m, longer, n + 1)
<1>1. IsList(longer) /\ Len(longer) = n + 1 /\ \A k \in 1 .. n : longer[k] = steps[k]
  BY AppendList DEF TracedTo
<1>2. longer[n + 1].tokens = tokens
  BY AppendList DEF TracedTo
<1>3. ASSUME NEW k \in 1 .. n + 1
      PROVE  longer[k].tokens = IF k = 1 THEN m.prompt ELSE <<m.continuation[k - 1]>>
  <2>1. CASE k \in 1 .. n
    BY <1>1, <2>1 DEF TracedTo
  <2>2. CASE k = n + 1
    <3>1. k - 1 = n /\ (k = 1 <=> n = 0)
      BY <2>2
    <3> QED
      BY <1>2, <2>2, <3>1, Zenon
  <2>3. k \in 1 .. n \/ k = n + 1
    OBVIOUS
  <2> QED
    BY <2>1, <2>2, <2>3, Zenon
<1> QED
  BY <1>1, <1>3 DEF TracedTo
(* A traced step executes the whole prompt or one token, and samples.      *)
TraceReads(chunk, inputs) ==
  /\ chunk \in Nat \ {0} /\ chunk <= Remaining(1)
  /\ inputs = SubSeq(requests[1].history, requests[1].computed + 1, requests[1].computed + chunk)
  /\ TraceAccepts(inputs, requests[1].computed)

TraceTakes(chunk, inputs) ==
  /\ Samples(1, chunk)
  /\ inputs = IF Len(replay.advances[1]) = 0 THEN plans[1][1].prompt
              ELSE <<plans[1][1].continuation[Len(replay.advances[1])]>>

LEMMA TracedStep ==
  ASSUME FixInv, Going, 1 \in Unreplayed, Len(plans) = 1, Len(plans[1]) = 1,
         TracedTo(plans[1][1], trace.steps, Len(replay.advances[1])),
         NEW chunk, NEW inputs, TraceReads(chunk, inputs)
  PROVE  TraceTakes(chunk, inputs)
<1> DEFINE m == plans[1][1]
           n == Len(replay.advances[1])
           h == requests[1].history
           c == requests[1].computed
<1> USE DEF TraceReads, TraceTakes
<1>1. Members = plans[1] /\ 1 \in DOMAIN Members /\ Members[1] = m
  BY MembersShape DEF Target, Members
<1>2. /\ MemberShape(m) /\ n \in Nat /\ Len(h) = Len(m.prompt) + n
  BY <1>1, PlanMatches
<1>3. IsList(h) /\ c \in Nat
  <2>1. Replayed(mode, m, replay.advances[1], h) /\ c \in Nat
    BY <1>1 DEF Going
  <2>2. HistoryShape(mode, m, replay.advances[1], h)
    BY <1>2, <2>1, ReplayedHistory
  <2> QED
    BY <2>1, <2>2 DEF HistoryShape
<1>4. Len(trace.steps) = n
  BY DEF TracedTo
<1>5. Len(m.prompt) \in Nat \ {0}
  BY <1>2 DEF MemberShape
<1>6. Remaining(1) = Len(h) - c
  BY DEF Remaining
<1>7. CASE n = 0
  <2>1. inputs = m.prompt /\ c = 0
    BY <1>4, <1>7 DEF TraceAccepts
  <2>2. Len(inputs) = chunk
    <3>1. c + chunk <= Len(h)
      <4> DEFINE d == Len(h)
                 r == Remaining(1)
      <4>1. d \in Nat /\ c \in Nat /\ chunk \in Nat /\ r = d - c /\ chunk <= r
        <5>1. d = Len(m.prompt) + n /\ n \in Nat /\ Len(m.prompt) \in Nat
          BY <1>2, <1>5
        <5> HIDE DEF d, n, m
        <5>2. d \in Nat
          BY <5>1
        <5> QED
          BY <1>3, <1>6, <5>2 DEF d
      <4> HIDE DEF d, r, c
      <4>2. c + chunk <= d
        BY <4>1
      <4> QED
        BY <4>2 DEF d
    <3>2. Len(SubSeq(h, c + 1, c + chunk)) = chunk
      <4> HIDE DEF h, c
      <4> QED
        BY <1>3, <3>1, SubList
    <3> QED
      BY <3>2
  <2>3. chunk = Remaining(1)
    BY <1>2, <1>5, <1>6, <1>7, <2>1, <2>2
  <2> QED
    BY <1>7, <2>1, <2>3 DEF Samples
<1>8. CASE n # 0
  <2>1. inputs = <<m.continuation[n]>> /\ c = Len(m.prompt) + n - 1
    BY <1>4, <1>8 DEF TraceAccepts
  <2>2. chunk = Remaining(1)
    BY <1>2, <1>5, <1>6, <2>1
  <2> QED
    BY <1>8, <2>1, <2>2 DEF Samples
<1> QED
  BY <1>7, <1>8

LEMMA ReplayStepInv == FixInv /\ ReplayStep => FixInv'
<1> SUFFICES ASSUME FixInv, ReplayStep PROVE FixInv'
  OBVIOUS
<1>1. UNCHANGED <<mode, plans, call, fixEnv, replayPreempts, disk, captures>> /\ fixPc = "running"
  BY DEF ReplayStep
<1>2. Going
  BY <1>1 DEF FixInv
<1> DEFINE sampling(chunks) == {i \in DOMAIN chunks : Samples(i, chunks[i])}
           inputs(chunks) == SubSeq(requests[1].history, requests[1].computed + 1,
                                    requests[1].computed + chunks[1])
<1>3. PICK chunks \in ChunkPlans :
        /\ \A i \in DOMAIN chunks : chunks[i] <= Remaining(i)
        /\ IF trace.on /\ ActiveCall /\ ~TraceAccepts(inputs(chunks), requests[1].computed)
           THEN Stop("trace") /\ UNCHANGED <<requests, replay, trace>>
           ELSE /\ trace' = IF trace.on THEN Traced(inputs(chunks), requests[1].computed) ELSE trace
                /\ IF \A i \in sampling(chunks) : MatchesPlan(i)
                   THEN /\ Stepped(chunks, sampling(chunks), InOrder(sampling(chunks)))
                        /\ UNCHANGED <<fixPc, error>>
                   ELSE Stop("history") /\ UNCHANGED <<requests, replay>>
  BY DEF ReplayStep, Stepped
<1>4. /\ DOMAIN chunks \subseteq Unreplayed /\ DOMAIN chunks # {}
      /\ \A i \in DOMAIN chunks : chunks[i] \in Nat \ {0}
  <2>1. PICK planned \in (SUBSET Unreplayed) \ {{}} : chunks \in [planned -> 1 .. MaxChunk]
    BY DEF ChunkPlans
  <2>2. MaxChunk \in Nat
    BY PlansNonEmpty
  <2> QED
    BY <2>1, <2>2
<1>5. CASE Stop("trace") /\ UNCHANGED <<requests, replay, trace>>
  BY <1>1, <1>5, StopInv
<1>6. \A i \in sampling(chunks) : MatchesPlan(i)
  <2>1. \A i \in Unreplayed : MatchesPlan(i)
    BY <1>2, PlanMatches
  <2> QED
    BY <1>4, <2>1
<1>7. ASSUME ~(trace.on /\ ActiveCall /\ ~TraceAccepts(inputs(chunks), requests[1].computed)),
             trace' = IF trace.on THEN Traced(inputs(chunks), requests[1].computed) ELSE trace,
             Stepped(chunks, sampling(chunks), InOrder(sampling(chunks))), UNCHANGED <<fixPc, error>>
      PROVE  FixInv'
  <2> DEFINE some == sampling(chunks)
  <2>1. some \in SUBSET DOMAIN chunks /\ \A i \in DOMAIN chunks : chunks[i] \in Nat
    BY <1>4
  <2>2. Listing(InOrder(some), some)
    <3>1. Len(Members) \in Nat /\ some \subseteq 1 .. Len(Members)
      BY <1>2, <1>4, MembersShape DEF Unreplayed, Going
    <3> HIDE DEF some
    <3> QED
      BY <3>1, InOrderLists
  <2>3. Going'
    <3> HIDE DEF some
    <3> QED
      BY <1>1, <1>2, <1>4, <1>7, <2>1, <2>2, SteppedGoing DEF some
  <2>4. FixShape'
    BY <1>1, <1>7 DEF FixInv, FixShape, Target, Traced
  <2>5. Published'
    BY <1>1, <1>7 DEF FixInv, Published, Target, OutputOf
  <2>6. TraceInv'
    <3>1. CASE mode # "trace"
      BY <1>1, <1>7, <3>1 DEF FixInv, TraceInv
    <3>2. CASE mode = "trace"
      <4> DEFINE n == Len(replay.advances[1])
                 tokens == inputs(chunks)
      <4>1. /\ Len(plans) = 1 /\ Len(plans[1]) = 1 /\ "trace" \in fixEnv /\ trace.on
            /\ "output" \in fixEnv
            /\ TracedTo(plans[1][1], trace.steps, n)
        BY <1>1, <3>2 DEF FixInv, TraceInv
      <4>2. DOMAIN Members = {1}
        BY <4>1, MembersShape DEF Target, Members
      <4>3. 1 \in DOMAIN chunks /\ 1 \in Unreplayed
        BY <1>2, <1>4, <4>2 DEF Unreplayed, Going
      <4>4. ActiveCall /\ TraceAccepts(tokens, requests[1].computed)
        BY <1>7, <4>1 DEF ActiveCall
      <4>5. /\ Samples(1, chunks[1])
            /\ tokens = IF n = 0 THEN plans[1][1].prompt ELSE <<plans[1][1].continuation[n]>>
        <5>1. chunks[1] \in Nat \ {0} /\ chunks[1] <= Remaining(1)
          BY <1>3, <1>4, <4>3
        <5>2. TraceReads(chunks[1], tokens)
          BY <4>4, <5>1 DEF TraceReads
        <5> HIDE DEF tokens
        <5>3. TraceTakes(chunks[1], tokens)
          BY <1>2, <4>1, <4>3, <5>2, TracedStep
        <5> QED
          BY <5>3, Zenon DEF TraceTakes
      <4>6. n \in Nat /\ Len(replay'.advances[1]) = n + 1
        <5>1. 1 \in some /\ 1 \in DOMAIN Members
          BY <4>2, <4>3, <4>5
        <5>2. Stepped(chunks, some, InOrder(some))
          BY <1>7
        <5>3. /\ Len(replay.advances[1]) \in Nat
              /\ 1 \in some => Len(replay'.advances[1]) = Len(replay.advances[1]) + 1
          <6> HIDE DEF some
          <6> QED
            BY <1>2, <1>4, <2>1, <5>1, <5>2, SteppedMember
        <5> QED
          BY <5>1, <5>3
      <4>7. trace'.steps = Append(trace.steps, [tokens |-> tokens, first |-> requests[1].computed])
            /\ trace'.on
        <5>1. trace' = [trace EXCEPT !.steps =
                          Append(@, [tokens |-> tokens, first |-> requests[1].computed])]
          BY <1>7, <4>1, <4>4 DEF Traced
        <5> QED
          BY <4>1, <5>1 DEF FixInv, FixShape
      <4> HIDE DEF tokens, n
      <4>8. TracedTo(plans[1][1], trace'.steps, n + 1)
        BY <4>1, <4>5, <4>6, <4>7, TraceExtends
      <4> QED
        BY <1>1, <1>7, <3>2, <4>1, <4>6, <4>7, <4>8 DEF TraceInv
    <3> QED
      BY <3>1, <3>2
  <2> QED
    BY <2>3, <2>4, <2>5, <2>6 DEF FixInv
<1> QED
  BY <1>3, <1>5, <1>6, <1>7
LEMMA ReplayStepFailsInv == FixInv /\ ReplayStepFails => FixInv'
<1> SUFFICES ASSUME FixInv, ReplayStepFails PROVE FixInv'
  OBVIOUS
<1> QED
  BY StopInv DEF ReplayStepFails

(* When nothing is left to replay, the session holds the whole plan.       *)
LEMMA AllReplayed ==
  ASSUME FixInv, Going, Unreplayed = {}
  PROVE  /\ Whole(mode, Members, replay)
         /\ \A i \in DOMAIN Members : Len(replay.advances[i]) = Len(Members[i].continuation)
<1>1. ASSUME NEW i \in DOMAIN Members
      PROVE  /\ Len(replay.advances[i]) = Len(Members[i].continuation)
             /\ mode = "control" => Members[i].prompt \o replay.advances[i]
                                      = FreeRun(Members[i].prompt, Len(Members[i].continuation))
  <2>1. /\ MemberShape(Members[i]) /\ i \in DOMAIN requests
        /\ Replayed(mode, Members[i], replay.advances[i], requests[i].history)
    BY MembersShape DEF Going
  <2>2. HistoryShape(mode, Members[i], replay.advances[i], requests[i].history)
    BY <2>1, ReplayedHistory
  <2>3. ~(Generated(i) < Len(Members[i].continuation))
    BY <2>1 DEF Unreplayed
  <2>4. Len(replay.advances[i]) <= Len(Members[i].continuation)
    BY <2>1 DEF Replayed
  <2>5. Len(replay.advances[i]) = Len(Members[i].continuation)
    <3>1. Len(replay.advances[i]) \in Nat
          /\ Len(requests[i].history) = Len(Members[i].prompt) + Len(replay.advances[i])
      BY <2>2 DEF HistoryShape
    <3>2. Len(Members[i].prompt) \in Nat /\ Len(Members[i].continuation) \in Nat
      BY <2>1 DEF MemberShape
    <3> QED
      BY <2>3, <2>4, <3>1, <3>2 DEF Generated
  <2>6. ASSUME mode = "control"
        PROVE  Members[i].prompt \o replay.advances[i]
                 = FreeRun(Members[i].prompt, Len(Members[i].continuation))
    BY <2>1, <2>5, <2>6, Zenon DEF Replayed
  <2> QED
    BY <2>5, <2>6
<1>2. [i \in DOMAIN Members |-> Len(replay.advances[i])]
        = [i \in DOMAIN Members |-> Len(Members[i].continuation)]
  BY <1>1
<1>3. /\ RowsUpTo(replay.rows, DOMAIN Members, [i \in DOMAIN Members |-> Len(replay.advances[i])])
      /\ mode # "control" => Frozen(Members, replay.rows)
  BY DEF Going
<1>4. RowsUpTo(replay.rows, DOMAIN Members, [i \in DOMAIN Members |-> Len(Members[i].continuation)])
  BY <1>2, <1>3, Zenon
<1> QED
  BY <1>1, <1>3, <1>4 DEF Whole

LEMMA FinishCallInv == FixInv /\ FinishCall => FixInv'
<1> SUFFICES ASSUME FixInv, FinishCall PROVE FixInv'
  OBVIOUS
<1>1. UNCHANGED <<mode, plans, call, fixEnv, requests, replayPreempts, replay, trace>>
      /\ fixPc = "running" /\ Unreplayed = {}
  BY DEF FinishCall
<1>2. CASE Stop("finish") /\ UNCHANGED <<disk, captures>>
  BY <1>1, <1>2, StopInv
<1>3. ASSUME disk' = disk \cup {OutputOf(call)}, captures' = [captures EXCEPT ![call] = replay],
             fixPc' = "linked", UNCHANGED error
      PROVE  FixInv'
  <2>1. /\ Going /\ Whole(mode, Members, replay)
        /\ \A i \in DOMAIN Members : Len(replay.advances[i]) = Len(Members[i].continuation)
    BY <1>1, AllReplayed DEF FixInv
  <2>2. /\ Target \in Nat \ {0} /\ DOMAIN plans = 1 .. Target /\ call \in 1 .. Target
        /\ DOMAIN captures = 1 .. Target /\ Target' = Target
    BY <1>1, MembersShape DEF FixInv, FixShape, Target
  <2>3. FixShape'
    BY <1>1, <1>3 DEF FixInv, FixShape, Target
  <2>4. /\ captures'[call] = replay /\ OutputOf(call) \in disk'
        /\ \A k \in 1 .. Target : k # call => captures'[k] = captures[k]
    BY <1>3, <2>2
  <2>5. replay # <<>>
    <3>1. "rows" \in DOMAIN replay
      BY <2>1 DEF Going
    <3> QED
      BY <3>1
  <2>6. \A k : OutputOf(k)' = OutputOf(k) /\ (OutputOf(k) \in disk => OutputOf(k) \in disk')
    BY <1>3 DEF OutputOf
  <2>7. Published'
    <3>1. \A j \in 1 .. Target : j < call => captures[j] # <<>> /\ OutputOf(j) \in disk
      BY DEF FixInv, Published
    <3>2. ASSUME NEW j \in 1 .. Target, j < call \/ j = call
          PROVE  captures'[j] # <<>> /\ OutputOf(j) \in disk'
      BY <2>4, <2>5, <2>6, <3>1, <3>2
    <3>3. ASSUME NEW k \in 1 .. Target, captures'[k] # <<>>
          PROVE  /\ \A j \in 1 .. k : OutputOf(j) \in disk' /\ captures'[j] # <<>>
                 /\ Whole(mode, plans[k], captures'[k])
      <4>1. CASE k = call
        <5>1. Whole(mode, plans[k], captures'[k])
          BY <2>1, <2>4, <4>1 DEF Members
        <5>2. \A j \in 1 .. k : j \in 1 .. Target /\ (j < call \/ j = call)
          BY <2>2, <4>1
        <5> QED
          BY <3>2, <5>1, <5>2
      <4>2. CASE k # call
        <5>1. captures'[k] = captures[k] /\ captures[k] # <<>>
          BY <2>4, <3>3, <4>2
        <5>2. /\ \A j \in 1 .. k : OutputOf(j) \in disk /\ captures[j] # <<>>
              /\ Whole(mode, plans[k], captures[k])
          BY <5>1 DEF FixInv, Published
        <5>3. \A j \in 1 .. k : j \in 1 .. Target
          BY <2>2
        <5>4. ASSUME NEW j \in 1 .. k PROVE OutputOf(j) \in disk' /\ captures'[j] # <<>>
          BY <2>4, <2>5, <2>6, <5>2, <5>3
        <5> QED
          BY <5>1, <5>2, <5>4
      <4> QED
        BY <4>1, <4>2
    <3>4. Published' = (/\ \A j \in 1 .. Target : j < call \/ (j = call /\ fixPc' \in {"linked", "done"}) =>
                             captures'[j] # <<>> /\ OutputOf(j) \in disk'
                        /\ \A k \in 1 .. Target : captures'[k] # <<>> =>
                             /\ \A j \in 1 .. k : OutputOf(j) \in disk' /\ captures'[j] # <<>>
                             /\ Whole(mode, plans[k], captures'[k]))
      BY <1>1, <2>2, <2>6 DEF Published
    <3> QED
      BY <3>2, <3>3, <3>4
  <2>8. TraceInv'
    <3>1. ASSUME mode = "trace"
          PROVE  TracedTo(plans[1][1], trace.steps, Len(plans[1][1].continuation))
      <4>1. /\ Len(plans) = 1 /\ Len(plans[1]) = 1
            /\ TracedTo(plans[1][1], trace.steps, Len(replay.advances[1]))
        BY <1>1, <3>1 DEF FixInv, TraceInv
      <4>2. Members = plans[1] /\ 1 \in DOMAIN Members
        BY <4>1, MembersShape DEF Target, Members
      <4>3. Len(replay.advances[1]) = Len(plans[1][1].continuation)
        BY <2>1, <4>2
      <4> QED
        BY <4>1, <4>3, Zenon
    <3> QED
      BY <1>1, <1>3, <3>1 DEF FixInv, TraceInv
  <2> QED
    BY <1>3, <2>3, <2>7, <2>8 DEF FixInv
<1> QED
  BY <1>2, <1>3 DEF FinishCall

LEMMA NextCallInv == FixInv /\ NextCall => FixInv'
<1> SUFFICES ASSUME FixInv, NextCall PROVE FixInv'
  OBVIOUS
<1>1. UNCHANGED <<mode, plans, fixEnv, replayPreempts, trace, captures>> /\ fixPc = "linked"
  BY DEF NextCall
<1>2. CASE Stop("cleanup") /\ UNCHANGED <<disk, call>>
  BY <1>1, <1>2, StopInv
<1>3. ASSUME disk' = disk \ {<<"stage", call>>},
             fixPc' = IF call = Target THEN "done" ELSE "call",
             call' = IF call = Target THEN call ELSE call + 1, UNCHANGED error
      PROVE  FixInv'
  <2>1. /\ Target \in Nat \ {0} /\ DOMAIN plans = 1 .. Target /\ call \in 1 .. Target
        /\ Target' = Target
    BY <1>1, MembersShape DEF Target
  <2>2. \A k : OutputOf(k)' = OutputOf(k) /\ (OutputOf(k) \in disk => OutputOf(k) \in disk')
    BY <1>3 DEF OutputOf
  <2>3. FixShape'
    BY <1>1, <1>3, <2>1 DEF FixInv, FixShape
  <2>4. Published'
    <3>1. ASSUME NEW j \in 1 .. Target,
                 j < call' \/ (j = call' /\ fixPc' \in {"linked", "done"})
          PROVE  captures[j] # <<>> /\ OutputOf(j) \in disk
      <4>1. j < call \/ j = call
        BY <1>3, <2>1, <3>1
      <4> QED
        BY <1>1, <4>1 DEF FixInv, Published
    <3>2. \A k \in 1 .. Target : captures[k] # <<>> =>
            /\ \A j \in 1 .. k : OutputOf(j) \in disk /\ captures[j] # <<>>
            /\ Whole(mode, plans[k], captures[k])
      BY DEF FixInv, Published
    <3> QED
      BY <1>1, <2>1, <2>2, <3>1, <3>2 DEF Published
  <2>5. TraceInv'
    <3>1. mode = "trace" => call = Target
      BY <1>1, <2>1 DEF FixInv, TraceInv, Target
    <3> QED
      BY <1>1, <1>3, <3>1 DEF FixInv, TraceInv
  <2>6. fixPc' # "running"
    BY <1>3
  <2> QED
    BY <2>3, <2>4, <2>5, <2>6 DEF FixInv
<1> QED
  BY <1>2, <1>3 DEF NextCall

LEMMA FixInvStep == FixInv /\ [FixNext]_fixVars => FixInv'
<1> SUFFICES ASSUME FixInv, [FixNext]_fixVars PROVE FixInv'
  OBVIOUS
<1>1. CASE UNCHANGED fixVars
  <2>1. UNCHANGED <<fixPc, mode, plans, call, fixEnv, requests, replay, trace, disk, captures, error>>
    BY <1>1 DEF fixVars
  <2>2. Members' = Members /\ Target' = Target
    BY <2>1 DEF Members, Target
  <2>3. FixShape' /\ Published' /\ TraceInv'
    BY <2>1, <2>2 DEF FixInv, FixShape, Published, TraceInv, OutputOf
  <2>4. (fixPc = "running" => Going)'
    BY <2>1, <2>2 DEF FixInv, Going
  <2> QED
    BY <2>3, <2>4 DEF FixInv
<1> QED
  BY <1>1, PreflightInv, NewEngineInv, StartCallInv, PreemptReplayedInv, ReplayStepInv,
     ReplayStepFailsInv, FinishCallInv, NextCallInv DEF FixNext
-----------------------------------------------------------------------------
(* What the invariant says of the evidence.                                *)

(* A prefix grows by the next element.                                     *)
LEMMA PrefixGrows ==
  ASSUME NEW s, IsList(s), NEW k \in Nat, k + 1 <= Len(s)
  PROVE  Append(SubSeq(s, 1, k), s[k + 1]) = SubSeq(s, 1, k + 1)
<1> DEFINE a == SubSeq(s, 1, k)
           b == SubSeq(s, 1, k + 1)
           c == Append(a, s[k + 1])
<1>0. Len(s) \in Nat /\ k <= Len(s) /\ k + 1 \in Nat
  BY DEF IsList
<1>1. IsList(a) /\ Len(a) = k /\ \A n \in 1 .. k : a[n] = s[n]
  BY <1>0, PrefixList
<1>2. IsList(b) /\ Len(b) = k + 1 /\ \A n \in 1 .. k + 1 : b[n] = s[n]
  BY <1>0, PrefixList
<1> HIDE DEF a, b
<1>3. IsList(c) /\ Len(c) = k + 1 /\ (\A n \in 1 .. k : c[n] = a[n]) /\ c[k + 1] = s[k + 1]
  BY <1>1, AppendList
<1> HIDE DEF c
<1>4. \A n \in 1 .. Len(c) : c[n] = b[n]
  BY <1>1, <1>2, <1>3
<1>5. c = b
  BY <1>2, <1>3, <1>4, ListsEqual
<1> QED
  BY <1>5 DEF a, b, c

(* One element after a list.                                               *)
LEMMA ConcatOne ==
  ASSUME NEW s, IsList(s), NEW e
  PROVE  s \o <<e>> = Append(s, e)
<1>1. s = [n \in 1 .. Len(s) |-> s[n]] /\ Len(s) \in Nat
  BY DEF IsList
<1> DEFINE T == {s[n] : n \in 1 .. Len(s)} \cup {e}
<1>2. e \in T /\ \A n \in 1 .. Len(s) : s[n] \in T
  OBVIOUS
<1> HIDE DEF T
<1>3. s \in Seq(T)
  BY <1>1, <1>2
<1> QED
  BY <1>2, <1>3

(* The tokens of a whole trace, one after the other.                       *)
LEMMA TraceFlattens ==
  ASSUME NEW m, MemberShape(m), NEW steps, TracedTo(m, steps, Len(m.continuation))
  PROVE  FlattenSeq([n \in DOMAIN steps |-> steps[n].tokens])
           = m.prompt \o SubSeq(m.continuation, 1, Len(m.continuation) - 1)
<1> DEFINE ss == [n \in DOMAIN steps |-> steps[n].tokens]
           N == Len(m.continuation)
           p == m.prompt
           c == m.continuation
<1>1. N \in Nat \ {0} /\ IsList(p) /\ IsList(c)
  BY DEF MemberShape
<1>2. DOMAIN steps = 1 .. N
  BY <1>1 DEF TracedTo, IsList
<1>3. Len(ss) = N /\ \A k \in 1 .. N : ss[k] = IF k = 1 THEN p ELSE <<c[k - 1]>>
  <2>1. ss = [k \in 1 .. N |-> steps[k].tokens]
    BY <1>2
  <2>2. Len(ss) = N
    BY <1>1, <2>1
  <2> QED
    BY <2>1, <2>2 DEF TracedTo
<1> HIDE DEF ss
<1>4. PICK g : IsFlat(g, ss, N) /\ FlattenSeq(ss) = g[N]
  <2> DEFINE h == CHOOSE g : IsFlat(g, ss, N)
  <2>1. IsFlat(h, ss, N)
    BY <1>1, FlatExists, Zenon
  <2>2. FlattenSeq(ss) = h[N]
    <3>1. ~(Len(ss) = 0)
      BY <1>1, <1>3
    <3> QED
      BY <1>3, <3>1, Zenon DEF FlattenSeq, IsFlat
  <2> QED
    BY <2>1, <2>2
<1>5. \A i \in 1 .. N : g[i] = IF i = 1 THEN ss[i] ELSE g[i - 1] \o ss[i]
  BY <1>4 DEF IsFlat
<1> HIDE DEF N, p, c
<1> DEFINE S == {k \in Nat : k + 1 <= N => g[k + 1] = p \o SubSeq(c, 1, k)}
<1>6. 0 \in S
  <2>1. g[1] = p
    BY <1>1, <1>3, <1>5
  <2>2. SubSeq(c, 1, 0) = <<>>
    BY <1>1 DEF SubSeq
  <2>3. p \o <<>> = p
    BY <1>1 DEF IsList
  <2>4. p \o SubSeq(c, 1, 0) = p
    BY <2>2, <2>3, Zenon
  <2>5. g[0 + 1] = p
    BY <2>1
  <2>6. g[0 + 1] = p \o SubSeq(c, 1, 0)
    BY <2>4, <2>5, Zenon
  <2> QED
    BY <2>6
<1>7. ASSUME NEW k \in Nat, k \in S PROVE k + 1 \in S
  <2> SUFFICES ASSUME (k + 1) + 1 <= N PROVE g[(k + 1) + 1] = p \o SubSeq(c, 1, k + 1)
    OBVIOUS
  <2> DEFINE a == SubSeq(c, 1, k)
  <2>1. k + 1 <= N /\ (k + 1) + 1 \in 1 .. N /\ ((k + 1) + 1) - 1 = k + 1 /\ (k + 1) + 1 # 1
    BY <1>1
  <2>2. g[k + 1] = p \o a
    BY <1>7, <2>1
  <2>3. g[(k + 1) + 1] = g[k + 1] \o <<c[k + 1]>>
    <3>1. ss[(k + 1) + 1] = <<c[k + 1]>>
      BY <1>3, <2>1
    <3>2. g[(k + 1) + 1] = g[k + 1] \o ss[(k + 1) + 1]
      BY <1>5, <2>1
    <3> QED
      BY <3>1, <3>2
  <2>4. IsList(a) /\ k <= Len(c)
    <3>1. k <= Len(c)
      BY <1>1, <2>1 DEF N, c
    <3> QED
      BY <1>1, <3>1, PrefixList
  <2>5. Append(a, c[k + 1]) = SubSeq(c, 1, k + 1)
    <3>1. k + 1 <= Len(c)
      BY <2>1 DEF N, c
    <3> QED
      BY <1>1, <3>1, PrefixGrows
  <2> HIDE DEF a
  <2>6. IsList(p \o a)
    <3>1. Follows(p, a, p \o a)
      BY <1>1, <2>4, ConcatLists
    <3> QED
      BY <3>1, Zenon DEF Follows
  <2>7. (p \o a) \o <<c[k + 1]>> = Append(p \o a, c[k + 1])
    BY <2>6, ConcatOne
  <2>8. Append(p \o a, c[k + 1]) = p \o Append(a, c[k + 1])
    BY <1>1, <2>4, AppendConcat
  <2> QED
    BY <2>2, <2>3, <2>5, <2>7, <2>8, Zenon
<1>8. S = Nat
  <2>1. S \in SUBSET Nat
    OBVIOUS
  <2> HIDE DEF S
  <2> QED
    BY <1>6, <1>7, <2>1, SetInduction
<1>9. N - 1 \in S /\ (N - 1) + 1 = N
  <2>1. N - 1 \in Nat /\ (N - 1) + 1 = N
    BY <1>1
  <2> HIDE DEF S
  <2> QED
    BY <1>8, <2>1
<1>10. g[N] = p \o SubSeq(c, 1, N - 1)
  <2>1. g[(N - 1) + 1] = p \o SubSeq(c, 1, N - 1)
    BY <1>1, <1>9
  <2> QED
    BY <1>9, <2>1
<1> QED
  BY <1>4, <1>10 DEF ss, N, p, c

(* A complete set of rows has one row for each step of each member.        *)
LEMMA OneRow ==
  ASSUME NEW rows, NEW D, NEW adv, RowsUpTo(rows, D, adv), NEW i \in D, NEW s \in 1 .. adv[i]
  PROVE  Cardinality({n \in DOMAIN rows : rows[n].member = i /\ rows[n].step = s - 1}) = 1
<1>1. s - 1 \in 0 .. adv[i] - 1
  BY DEF RowsUpTo
<1>2. PICK k \in DOMAIN rows : rows[k].member = i /\ rows[k].step = s - 1
  BY <1>1 DEF RowsUpTo
<1>3. ASSUME NEW n \in DOMAIN rows, rows[n].member = i, rows[n].step = s - 1 PROVE n = k
  BY <1>2, <1>3 DEF RowsUpTo
<1>4. {n \in DOMAIN rows : rows[n].member = i /\ rows[n].step = s - 1} = {k}
  BY <1>2, <1>3
<1> QED
  BY <1>4, FS_Singleton

(* The invariant implies the promises of a replay and of its captures.     *)
LEMMA FixInvSafe ==
  FixInv => /\ ReplayIsFrozen /\ ReplayNeverDiverges /\ ControlIsFree /\ TraceCoversCall
            /\ CapturesAreComplete
<1> SUFFICES ASSUME FixInv
             PROVE  /\ ReplayIsFrozen /\ ReplayNeverDiverges /\ ControlIsFree /\ TraceCoversCall
                    /\ CapturesAreComplete
  OBVIOUS
<1>1. DOMAIN plans = 1 .. Target
  BY MembersShape
<1>2. \A k \in DOMAIN plans : captures[k] # <<>> =>
        /\ \A j \in 1 .. k : OutputOf(j) \in disk /\ captures[j] # <<>>
        /\ Whole(mode, plans[k], captures[k])
  BY <1>1 DEF FixInv, Published
<1>3. ReplayIsFrozen
  <2>1. ASSUME mode # "control", NEW k \in DOMAIN plans, captures[k] # <<>>,
               NEW n \in DOMAIN captures[k].rows
        PROVE  FrozenRow(plans[k], captures[k].rows[n])
    BY <1>2, <2>1 DEF Whole, Frozen
  <2> QED
    BY <2>1, Zenon DEF ReplayIsFrozen, FrozenRow
<1>4. ReplayNeverDiverges
  BY DEF FixInv, FixShape, ReplayNeverDiverges
<1>5. ControlIsFree
  BY <1>2 DEF ControlIsFree, Whole
<1>6. TraceCoversCall
  <2> SUFFICES ASSUME fixPc = "done", mode = "trace"
               PROVE  FlattenSeq([n \in DOMAIN trace.steps |-> trace.steps[n].tokens])
                        = plans[1][1].prompt
                          \o SubSeq(plans[1][1].continuation, 1, Len(plans[1][1].continuation) - 1)
    BY DEF TraceCoversCall
  <2>1. /\ Len(plans) = 1 /\ Len(plans[1]) = 1
        /\ TracedTo(plans[1][1], trace.steps, Len(plans[1][1].continuation))
    BY DEF FixInv, TraceInv
  <2>2. MemberShape(plans[1][1])
    BY <2>1, MembersShape DEF Target, Members
  <2> QED
    BY <2>1, <2>2, TraceFlattens
<1>7. CapturesAreComplete
  <2> SUFFICES ASSUME NEW k \in DOMAIN plans, captures[k] # <<>>,
                      NEW i \in DOMAIN plans[k], NEW s \in 1 .. Len(plans[k][i].continuation)
               PROVE  Cardinality({n \in DOMAIN captures[k].rows :
                        captures[k].rows[n].member = i /\ captures[k].rows[n].step = s - 1}) = 1
    BY <1>2 DEF CapturesAreComplete
  <2> DEFINE adv == [j \in DOMAIN plans[k] |-> Len(plans[k][j].continuation)]
  <2>1. RowsUpTo(captures[k].rows, DOMAIN plans[k], adv)
    BY <1>2 DEF Whole
  <2>2. s \in 1 .. adv[i]
    OBVIOUS
  <2> HIDE DEF adv
  <2> QED
    BY <2>1, <2>2, OneRow
<1> QED
  BY <1>3, <1>4, <1>5, <1>6, <1>7
-----------------------------------------------------------------------------
(* Request-major order: the rows of the first request, then of the next.   *)

At(i, k) == (i - 1) * Tokens + k

LEMMA AtFacts ==
  ASSUME NEW i \in Inputs, NEW k \in 1 .. Tokens
  PROVE  /\ Requests \in Nat \ {0} /\ Tokens \in Nat \ {0} /\ Requests * Tokens \in Nat
         /\ (i - 1) * Tokens \in Nat /\ i * Tokens = (i - 1) * Tokens + Tokens
         /\ i * Tokens <= Requests * Tokens
         /\ At(i, k) \in 1 .. Requests * Tokens
         /\ At(i, k) \in (i - 1) * Tokens + 1 .. i * Tokens
<1>1. Requests \in Nat \ {0} /\ Tokens \in Nat \ {0} /\ i \in 1 .. Requests
  BY CallShape DEF Inputs
<1>2. Requests * Tokens \in Nat /\ (i - 1) * Tokens \in Nat /\ i * Tokens \in Nat
  BY <1>1
<1>3. i * Tokens = (i - 1) * Tokens + Tokens
  BY <1>1
<1>4. i * Tokens <= Requests * Tokens
  <2>1. CASE i = Requests
    BY <1>2, <2>1
  <2>2. CASE i < Requests
    <3>1. i * Tokens + Tokens <= Requests * Tokens
      BY <1>1, <2>2, ProductMonotone
    <3> QED
      BY <1>1, <1>2, <3>1
  <2> QED
    BY <1>1, <2>1, <2>2
<1>5. At(i, k) = (i - 1) * Tokens + k
  BY DEF At
<1> DEFINE a == (i - 1) * Tokens
           b == i * Tokens
           c == Requests * Tokens
<1>6. a \in Nat /\ b = a + Tokens /\ b <= c /\ c \in Nat /\ At(i, k) = a + k
  BY <1>2, <1>3, <1>4, <1>5
<1> HIDE DEF a, b, c
<1>7. At(i, k) \in 1 .. c /\ At(i, k) \in a + 1 .. b
  BY <1>1, <1>6
<1> QED
  BY <1>1, <1>2, <1>3, <1>4, <1>7 DEF a, b, c

(* The rows of earlier requests come before.                               *)
LEMMA AtOrder ==
  ASSUME NEW i \in Inputs, NEW j \in Inputs, i < j
  PROVE  i * Tokens <= (j - 1) * Tokens
<1>1. Tokens \in Nat \ {0} /\ i \in Nat /\ j - 1 \in Nat /\ i <= j - 1
  BY CallShape DEF Inputs
<1>2. CASE i = j - 1
  BY <1>1, <1>2
<1>3. CASE i < j - 1
  <2>1. i * Tokens \in Nat /\ (j - 1) * Tokens \in Nat /\ i * Tokens + Tokens <= (j - 1) * Tokens
    BY <1>1, <1>3, ProductMonotone
  <2> QED
    BY <1>1, <2>1
<1> QED
  BY <1>1, <1>2, <1>3

(* Every place is of some row of some request.                             *)
LEMMA AtCovers ==
  ASSUME NEW n \in 1 .. Requests * Tokens
  PROVE  \E i \in Inputs : \E k \in 1 .. Tokens : n = At(i, k)
<1>1. Requests \in Nat \ {0} /\ Tokens \in Nat \ {0}
  BY CallShape
<1>2. Requests * Tokens \in Nat /\ n - 1 \in Nat /\ n - 1 < Requests * Tokens
  <2>1. Requests * Tokens \in Nat
    BY <1>1
  <2> QED
    BY <2>1
<1> DEFINE q == (n - 1) \div Tokens
<1>3. q \in Nat /\ q * Tokens <= n - 1 /\ n - 1 < (q + 1) * Tokens
  BY <1>1, <1>2, DivProperties
<1> HIDE DEF q
<1>4. q < Requests
  <2> SUFFICES ASSUME q >= Requests PROVE FALSE
    BY <1>1, <1>3
  <2>1. CASE q = Requests
    BY <1>2, <1>3, <2>1
  <2>2. CASE Requests < q
    <3>1. Requests * Tokens + Tokens <= q * Tokens /\ q * Tokens \in Nat
      BY <1>1, <1>3, <2>2, ProductMonotone
    <3> QED
      BY <1>1, <1>2, <1>3, <3>1
  <2> QED
    BY <1>1, <1>3, <2>1, <2>2
<1>5. q + 1 \in Inputs
  BY <1>1, <1>3, <1>4 DEF Inputs
<1>6. (q + 1) * Tokens = q * Tokens + Tokens /\ q * Tokens \in Nat
  BY <1>1, <1>3
<1> DEFINE k == n - q * Tokens
<1>7. k \in 1 .. Tokens /\ n = q * Tokens + k
  BY <1>1, <1>2, <1>3, <1>6
<1>8. n = At(q + 1, k)
  <2>1. (q + 1) - 1 = q
    BY <1>3
  <2> QED
    BY <1>7, <2>1 DEF At
<1> HIDE DEF k
<1> QED
  BY <1>5, <1>7, <1>8

(* A place tells its row and its request.                                  *)
LEMMA AtUnique ==
  ASSUME NEW i \in Inputs, NEW j \in Inputs, NEW k \in 1 .. Tokens, NEW l \in 1 .. Tokens
  PROVE  /\ At(i, k) = At(j, l) => i = j /\ k = l
         /\ At(i, k) <= At(j, l) => i <= j
         /\ At(i, k) < At(j, l) /\ i = j => k < l
<1>1. /\ At(i, k) \in Nat /\ At(j, l) \in Nat /\ i \in Nat /\ j \in Nat
      /\ At(i, k) = (i - 1) * Tokens + k /\ At(j, l) = (j - 1) * Tokens + l
      /\ (i - 1) * Tokens \in Nat /\ (j - 1) * Tokens \in Nat
      /\ At(i, k) <= i * Tokens /\ At(j, l) <= j * Tokens
      /\ i * Tokens \in Nat /\ j * Tokens \in Nat
  <2>1. i \in Nat /\ j \in Nat
    BY CallShape DEF Inputs
  <2>2. At(i, k) = (i - 1) * Tokens + k /\ At(j, l) = (j - 1) * Tokens + l
    BY DEF At
  <2>3. /\ (i - 1) * Tokens \in Nat /\ At(i, k) \in (i - 1) * Tokens + 1 .. i * Tokens
        /\ Tokens \in Nat /\ i * Tokens = (i - 1) * Tokens + Tokens
    BY AtFacts
  <2>4. /\ (j - 1) * Tokens \in Nat /\ At(j, l) \in (j - 1) * Tokens + 1 .. j * Tokens
        /\ j * Tokens = (j - 1) * Tokens + Tokens
    BY AtFacts
  <2> QED
    BY <2>1, <2>2, <2>3, <2>4
<1>2. i < j => At(i, k) < At(j, l)
  <2> SUFFICES ASSUME i < j PROVE At(i, k) < At(j, l)
    OBVIOUS
  <2>1. i * Tokens <= (j - 1) * Tokens
    BY AtOrder
  <2> QED
    BY <1>1, <2>1
<1>3. j < i => At(j, l) < At(i, k)
  <2> SUFFICES ASSUME j < i PROVE At(j, l) < At(i, k)
    OBVIOUS
  <2>1. j * Tokens <= (i - 1) * Tokens
    BY AtOrder
  <2> QED
    BY <1>1, <2>1
<1>4. i = j => (At(i, k) = At(j, l) => k = l) /\ (At(i, k) < At(j, l) => k < l)
  BY <1>1
<1>5. i < j \/ j < i \/ i = j
  BY <1>1
<1> QED
  BY <1>1, <1>2, <1>3, <1>4, <1>5

(* ss has one list of Tokens elements for each request; f has them all, in *)
(* request-major order.                                                    *)
PerRequest(ss) ==
  /\ IsList(ss) /\ Len(ss) = Requests
  /\ \A i \in Inputs : IsList(ss[i]) /\ Len(ss[i]) = Tokens

Laid(ss, f) ==
  /\ IsList(f) /\ Len(f) = Requests * Tokens
  /\ \A i \in Inputs : \A k \in 1 .. Tokens : f[At(i, k)] = ss[i][k]

LEMMA FlattenLays ==
  ASSUME NEW ss, PerRequest(ss)
  PROVE  Laid(ss, FlattenSeq(ss))
<1>1. /\ Requests \in Nat \ {0} /\ Tokens \in Nat \ {0} /\ Len(ss) = Requests
      /\ \A i \in Inputs : IsList(ss[i]) /\ Len(ss[i]) = Tokens
  BY CallShape DEF PerRequest
<1>2. PICK g : IsFlat(g, ss, Requests) /\ FlattenSeq(ss) = g[Requests]
  <2> DEFINE h == CHOOSE g : IsFlat(g, ss, Requests)
  <2>1. IsFlat(h, ss, Requests)
    BY <1>1, FlatExists, Zenon
  <2>2. FlattenSeq(ss) = h[Requests]
    <3>1. ~(Len(ss) = 0)
      BY <1>1
    <3> QED
      BY <1>1, <3>1, Zenon DEF FlattenSeq, IsFlat
  <2> QED
    BY <2>1, <2>2
<1>3. \A i \in Inputs : g[i] = IF i = 1 THEN ss[i] ELSE g[i - 1] \o ss[i]
  BY <1>2 DEF IsFlat, Inputs
<1> DEFINE OK(i) == /\ IsList(g[i]) /\ Len(g[i]) = i * Tokens
                    /\ \A j \in 1 .. i : \A k \in 1 .. Tokens : g[i][At(j, k)] = ss[j][k]
           S == {i \in Nat : i + 1 <= Requests => OK(i + 1)}
<1>4. 0 \in S
  <2>1. 1 \in Inputs /\ g[1] = ss[1]
    BY <1>1, <1>3 DEF Inputs
  <2>2. IsList(g[1]) /\ Len(g[1]) = 1 * Tokens
    BY <1>1, <2>1
  <2>3. \A k \in 1 .. Tokens : At(1, k) = k
    BY <1>1 DEF At
  <2>4. \A j \in 1 .. 1 : j = 1
    OBVIOUS
  <2>5. OK(1)
    BY <2>1, <2>2, <2>3, <2>4
  <2> HIDE DEF OK
  <2> QED
    BY <2>5
<1>5. ASSUME NEW i \in Nat, i \in S PROVE i + 1 \in S
  <2> SUFFICES ASSUME (i + 1) + 1 <= Requests PROVE OK((i + 1) + 1)
    OBVIOUS
  <2> DEFINE a == i + 1
             b == (i + 1) + 1
             c == g[a] \o ss[b]
  <2>1. /\ a \in Inputs /\ b \in Inputs /\ b - 1 = a /\ b # 1 /\ OK(a)
        /\ 1 .. b = (1 .. a) \cup {b} /\ 1 .. a \subseteq Inputs
    BY <1>1, <1>5 DEF Inputs
  <2>2. g[b] = c
    BY <1>3, <2>1
  <2>3. IsList(ss[b]) /\ Len(ss[b]) = Tokens
    BY <1>1, <2>1
  <2> HIDE DEF a, b
  <2>4. Follows(g[a], ss[b], c)
    BY <2>1, <2>3, ConcatLists
  <2> HIDE DEF c
  <2>5. /\ IsList(c) /\ Len(c) = a * Tokens + Tokens
        /\ \A n \in 1 .. a * Tokens : c[n] = g[a][n]
        /\ \A n \in 1 .. Tokens : c[a * Tokens + n] = ss[b][n]
    <3>1. Len(g[a]) = a * Tokens
      BY <2>1
    <3> HIDE DEF OK
    <3> QED
      BY <2>3, <2>4, <3>1 DEF Follows
  <2>6. b * Tokens = a * Tokens + Tokens /\ (b - 1) * Tokens = a * Tokens
    <3>1. (b - 1) * Tokens = a * Tokens
      BY <2>1
    <3>2. \A k \in 1 .. Tokens : b * Tokens = (b - 1) * Tokens + Tokens
      BY <2>1, AtFacts
    <3>3. 1 \in 1 .. Tokens
      BY <1>1
    <3> QED
      BY <3>1, <3>2, <3>3
  <2>7. ASSUME NEW j \in 1 .. b, NEW k \in 1 .. Tokens PROVE c[At(j, k)] = ss[j][k]
    <3>1. CASE j = b
      <4>1. At(j, k) = a * Tokens + k
        BY <2>6, <3>1 DEF At
      <4> QED
        BY <2>5, <3>1, <4>1
    <3>2. CASE j # b
      <4>1. j \in 1 .. a /\ j \in Inputs
        BY <2>1, <2>7, <3>2
      <4>2. At(j, k) \in (j - 1) * Tokens + 1 .. j * Tokens /\ (j - 1) * Tokens \in Nat
            /\ j * Tokens = (j - 1) * Tokens + Tokens
        BY <4>1, AtFacts
      <4>3. j < b
        BY <2>1, <4>1 DEF Inputs
      <4>4. j * Tokens <= (b - 1) * Tokens
        BY <2>1, <4>1, <4>3, AtOrder
      <4>5. At(j, k) \in 1 .. a * Tokens
        <5> DEFINE p == At(j, k)
                   u == (j - 1) * Tokens
                   w == j * Tokens
                   z == a * Tokens
        <5>1. p \in u + 1 .. w /\ u \in Nat /\ w = u + Tokens /\ Tokens \in Nat /\ w <= z /\ z \in Int
          <6>1. z \in Int
            BY <1>1, <2>1 DEF Inputs
          <6> QED
            BY <1>1, <2>6, <4>2, <4>4, <6>1
        <5> HIDE DEF p, u, w, z
        <5>2. p \in 1 .. z
          BY <5>1
        <5> QED
          BY <5>2 DEF p, z
      <4>6. g[a][At(j, k)] = ss[j][k]
        BY <2>1, <4>1
      <4> QED
        BY <2>5, <4>5, <4>6
    <3> QED
      BY <3>1, <3>2
  <2>8. g[b] = c /\ Len(c) = b * Tokens /\ IsList(c)
    BY <2>2, <2>5, <2>6 DEF c
  <2>9. OK(b)
    BY <2>7, <2>8
  <2> QED
    BY <2>9 DEF b
<1>6. S = Nat
  <2>1. S \in SUBSET Nat
    OBVIOUS
  <2> HIDE DEF S
  <2> QED
    BY <1>4, <1>5, <2>1, SetInduction
<1>7. OK(Requests)
  <2>1. Requests - 1 \in S /\ (Requests - 1) + 1 = Requests
    <3>1. Requests - 1 \in Nat /\ (Requests - 1) + 1 = Requests
      BY <1>1
    <3> HIDE DEF S
    <3> QED
      BY <1>6, <3>1
  <2>2. OK((Requests - 1) + 1)
    <3> HIDE DEF OK
    <3> QED
      BY <1>1, <2>1
  <2> HIDE DEF OK
  <2> QED
    BY <2>1, <2>2
<1> QED
  BY <1>2, <1>7 DEF Laid, Inputs
-----------------------------------------------------------------------------
(* What a capture spools, and the artifact it writes.                      *)

SpoolRow(c, i, k, tok) ==
  [id |-> RequestId(c, i), step |-> k - 1, token |-> tok, logits |-> <<c, i, k - 1>>]

(* The spool of request i has the rows of the tokens sampled so far.       *)
Spooled(c, i, spool, toks) ==
  /\ IsList(spool) /\ IsList(toks) /\ Len(spool) = Len(toks) /\ Len(toks) <= Tokens
  /\ \A k \in 1 .. Len(toks) : spool[k] = SpoolRow(c, i, k, toks[k])

LineAt(c, i, k, tok) ==
  [kind |-> "row", index |-> At(i, k) - 1, position |-> i, id |-> RequestId(c, i),
   token |-> tok, step |-> k - 1, logits |-> <<c, i, k - 1>>]

(* The outputs of a call whose requests all finished.                      *)
OutputsOf(c, outs) ==
  /\ outs = [i \in Inputs |-> [id |-> RequestId(c, i), tokens |-> outs[i].tokens]]
  /\ \A i \in Inputs : IsList(outs[i].tokens) /\ Len(outs[i].tokens) = Tokens

RowsWhole(rows, c, outs) ==
  /\ IsList(rows) /\ Len(rows) = Requests * Tokens
  /\ \A i \in Inputs : \A k \in 1 .. Tokens :
       rows[At(i, k)] = LineAt(c, i, k, outs[i].tokens[k])

(* The artifact that shows the outputs of call c.                          *)
WholeArtifact(lines, c, outs) ==
  /\ IsList(lines) /\ Len(lines) = Requests * Tokens + 2
  /\ lines[1] = [kind |-> "header", call |-> c, requests |-> Bindings(c)]
  /\ lines[Len(lines)] = [kind |-> "trailer", count |-> Requests * Tokens]
  /\ RowsWhole(BodyRows(lines), c, outs)

(* The row of the logits tensor that is read for a request is its own.     *)
LEMMA TensorRowIsOwn ==
  ASSUME NEW c, NEW planned \in SUBSET Inputs, NEW i \in planned
  PROVE  LogitsTensor(c, planned)[TensorRow(planned, i)] = <<c, i, Len(sampled[i])>>
<1>1. planned \subseteq Int /\ IsFiniteSet(planned)
  <2>1. Requests \in Nat
    BY CallShape
  <2>2. IsFiniteSet(1 .. Requests)
    BY <2>1, FS_Interval
  <2>3. IsFiniteSet(planned)
    BY <2>2, FS_Subset DEF Inputs
  <2> QED
    BY <2>1, <2>3 DEF Inputs
<1> DEFINE R == Ascending(planned)
           order == InOrder(planned)
           N == Cardinality(planned)
<1>2. StrictOrder(R, planned)
  BY <1>1 DEF StrictOrder, Ascending
<1>3. /\ N \in Nat /\ order \in [1 .. N -> planned]
      /\ \A d \in planned : \E k \in 1 .. N : order[k] = d
      /\ \A k \in 1 .. N : Cardinality(Predecessors(planned, R, order[k])) = k - 1
  <2> HIDE DEF R
  <2> QED
    BY <1>1, <1>2, EnumerateBijective DEF InOrder, R
<1>4. PICK k \in 1 .. N : order[k] = i
  BY <1>3
<1>5. TensorRow(planned, i) = k
  <2> DEFINE P == Predecessors(planned, R, i)
  <2>1. {j \in planned : j <= i} = P \cup {i} /\ i \notin P
    <3>1. \A j \in planned : <<j, i>> \in R <=> j < i
      BY DEF Ascending
    <3>2. \A j : j \in P <=> j \in planned /\ j < i
      BY <3>1 DEF Predecessors
    <3> HIDE DEF P
    <3>3. \A j \in planned : j <= i <=> j < i \/ j = i
      BY <1>1
    <3>4. i \notin P
      BY <1>1, <3>2
    <3>5. \A j : j \in {m \in planned : m <= i} <=> j \in P \cup {i}
      BY <3>2, <3>3
    <3> QED
      BY <3>4, <3>5
  <2>2. IsFiniteSet(P)
    <3>1. P \subseteq planned
      BY DEF Predecessors
    <3> HIDE DEF P
    <3> QED
      BY <1>1, <3>1, FS_Subset
  <2>3. Cardinality(P) = k - 1
    BY <1>3, <1>4
  <2> HIDE DEF P
  <2>4. Cardinality(P \cup {i}) = Cardinality(P) + 1
    BY <2>1, <2>2, FS_AddElement
  <2>5. TensorRow(planned, i) = Cardinality(P \cup {i})
    BY <2>1, Zenon DEF TensorRow
  <2> HIDE DEF N
  <2> QED
    BY <1>3, <2>3, <2>4, <2>5
<1>6. DOMAIN order = 1 .. N
  BY <1>3
<1> HIDE DEF order, N
<1>7. LogitsTensor(c, planned)[k] = <<c, order[k], Len(sampled[order[k]])>>
  BY <1>6 DEF LogitsTensor, order
<1> QED
  BY <1>4, <1>5, <1>7

LEMMA OneList ==
  ASSUME NEW e
  PROVE  IsList(<<e>>) /\ Len(<<e>>) = 1 /\ <<e>>[1] = e
<1>1. PICK f : f = <<e>>
  OBVIOUS
<1>2. f = [n \in 1 .. 1 |-> f[n]] /\ Len(f) = 1 /\ f[1] = e
  BY <1>1
<1>3. IsList(f)
  BY <1>2, TupleIsList
<1> QED
  BY <1>1, <1>2, <1>3

(* A header, a body and a trailer.                                         *)
FrameOf(h, body, e, lines) ==
  /\ IsList(lines) /\ Len(body) \in Nat /\ Len(lines) = Len(body) + 2
  /\ lines[1] = h /\ lines[Len(lines)] = e
  /\ \A n \in 1 .. Len(body) : lines[n + 1] = body[n]

LEMMA Framed ==
  ASSUME NEW h, NEW body, IsList(body), NEW e, NEW lines, lines = <<h>> \o body \o <<e>>
  PROVE  FrameOf(h, body, e, lines)
<1> DEFINE a == <<h>> \o body
<1>1. Follows(<<h>>, body, a)
  BY OneList, ConcatLists
<1>2. /\ IsList(a) /\ Len(body) \in Nat /\ Len(a) = Len(body) + 1 /\ a[1] = h
      /\ \A n \in 1 .. Len(body) : a[1 + n] = body[n]
  BY <1>1, OneList DEF Follows
<1> HIDE DEF a
<1>3. Follows(a, <<e>>, a \o <<e>>)
  BY <1>2, OneList, ConcatLists
<1>4. lines = a \o <<e>>
  BY DEF a
<1>5. Follows(a, <<e>>, lines)
  BY <1>3, <1>4, Zenon
<1>6. /\ IsList(lines) /\ Len(lines) = Len(a) + 1
      /\ \A n \in 1 .. Len(a) : lines[n] = a[n]
      /\ lines[Len(a) + 1] = e
  BY <1>5, OneList DEF Follows
<1>7. lines[1] = h /\ Len(lines) = Len(body) + 2 /\ lines[Len(lines)] = e
  BY <1>2, <1>6
<1>8. ASSUME NEW n \in 1 .. Len(body) PROVE lines[n + 1] = body[n]
  <2>1. n + 1 \in 1 .. Len(a) /\ n + 1 = 1 + n
    BY <1>2
  <2> QED
    BY <1>2, <1>6, <2>1
<1> QED
  BY <1>2, <1>6, <1>7, <1>8 DEF FrameOf

(* The b elements of s after the a-th.                                     *)
PartOf(s, a, b, u) ==
  IsList(u) /\ Len(u) = b /\ \A n \in 1 .. b : u[n] = s[a + n]

LEMMA SubPart ==
  ASSUME NEW s, IsList(s), NEW a \in Nat, NEW b \in Nat, a + b <= Len(s),
         NEW u, u = SubSeq(s, a + 1, a + b)
  PROVE  PartOf(s, a, b, u)
BY SubList DEF PartOf

(* All spools are full.                                                    *)
FullSpools(c, spools, outs) ==
  /\ DOMAIN spools = Inputs
  /\ \A i \in Inputs : Len(outs[i].tokens) = Tokens /\ Spooled(c, i, spools[i], outs[i].tokens)

(* The rows of the body, request by request.                               *)
LEMMA BodyOrderLays ==
  ASSUME NEW c, NEW outs, FullSpools(c, capture.spools, outs)
  PROVE  /\ IsList(BodyOrder) /\ Len(BodyOrder) = Requests * Tokens
         /\ \A i \in Inputs : \A k \in 1 .. Tokens : BodyOrder[At(i, k)] = <<i, k>>
<1> DEFINE ss == [i \in Inputs |-> [k \in DOMAIN capture.spools[i] |-> <<i, k>>]]
<1>1. Tokens \in Nat \ {0} /\ Requests \in Nat \ {0}
  BY CallShape
<1>2. \A i \in Inputs : DOMAIN capture.spools[i] = 1 .. Tokens
  <2> SUFFICES ASSUME NEW i \in Inputs PROVE DOMAIN capture.spools[i] = 1 .. Tokens
    OBVIOUS
  <2>1. IsList(capture.spools[i]) /\ Len(capture.spools[i]) = Tokens
    BY DEF FullSpools, Spooled
  <2> QED
    BY <2>1 DEF IsList
<1>3. ss = [i \in 1 .. Requests |-> ss[i]] /\ \A i \in Inputs : ss[i] = [k \in 1 .. Tokens |-> <<i, k>>]
  BY <1>2 DEF Inputs
<1> HIDE DEF ss
<1>4. ASSUME NEW i \in Inputs
      PROVE  IsList(ss[i]) /\ Len(ss[i]) = Tokens /\ \A k \in 1 .. Tokens : ss[i][k] = <<i, k>>
  <2>1. PICK f : f = ss[i]
    OBVIOUS
  <2>2. f = [k \in 1 .. Tokens |-> <<i, k>>]
    BY <1>3, <2>1
  <2>3. f = [k \in 1 .. Tokens |-> f[k]] /\ \A k \in 1 .. Tokens : f[k] = <<i, k>>
    BY <2>2
  <2>4. IsList(f) /\ Len(f) = Tokens
    BY <1>1, <2>3, TupleIsList
  <2> QED
    BY <2>1, <2>3, <2>4
<1>5. IsList(ss) /\ Len(ss) = Requests
  BY <1>1, <1>3, TupleIsList
<1>6. PerRequest(ss)
  BY <1>4, <1>5 DEF PerRequest
<1>7. Laid(ss, FlattenSeq(ss))
  BY <1>6, FlattenLays
<1>8. BodyOrder = FlattenSeq(ss)
  BY DEF BodyOrder, ss
<1> QED
  BY <1>4, <1>7, <1>8 DEF Laid

(* The artifact of full spools shows the outputs.                          *)
LEMMA ArtifactShows ==
  ASSUME NEW outs, FullSpools(capture.call, capture.spools, outs)
  PROVE  WholeArtifact(ArtifactLines, capture.call, outs)
<1> DEFINE c == capture.call
           RT == Requests * Tokens
           order == BodyOrder
           body == [n \in DOMAIN order |->
                      LET row == capture.spools[order[n][1]][order[n][2]]
                      IN [kind |-> "row", index |-> n - 1, position |-> order[n][1], id |-> row.id,
                          token |-> row.token, step |-> row.step, logits |-> row.logits]]
           h == [kind |-> "header", call |-> c, requests |-> Bindings(c)]
           e == [kind |-> "trailer", count |-> Len(order)]
           lines == ArtifactLines
<1>1. /\ IsList(order) /\ Len(order) = RT
      /\ \A i \in Inputs : \A k \in 1 .. Tokens : order[At(i, k)] = <<i, k>>
  BY BodyOrderLays
<1>2. RT \in Nat /\ DOMAIN order = 1 .. RT
  <2>1. RT \in Nat
    BY CallShape
  <2> QED
    BY <1>1, <2>1 DEF IsList
<1>3. lines = <<h>> \o body \o <<e>>
  BY DEF ArtifactLines
<1>4. ASSUME NEW i \in Inputs, NEW k \in 1 .. Tokens
      PROVE  At(i, k) \in 1 .. RT /\ body[At(i, k)] = LineAt(c, i, k, outs[i].tokens[k])
  <2> DEFINE n == At(i, k)
             row == capture.spools[i][k]
  <2>1. n \in 1 .. RT
    BY AtFacts
  <2>2. order[n] = <<i, k>> /\ order[n][1] = i /\ order[n][2] = k
    BY <1>1
  <2>3. row = SpoolRow(c, i, k, outs[i].tokens[k])
    BY DEF FullSpools, Spooled
  <2>4. /\ row.id = RequestId(c, i) /\ row.token = outs[i].tokens[k] /\ row.step = k - 1
        /\ row.logits = <<c, i, k - 1>>
    BY <2>3 DEF SpoolRow
  <2> HIDE DEF order, row, n
  <2>5. body[n] = [kind |-> "row", index |-> n - 1, position |-> order[n][1],
                   id |-> capture.spools[order[n][1]][order[n][2]].id,
                   token |-> capture.spools[order[n][1]][order[n][2]].token,
                   step |-> capture.spools[order[n][1]][order[n][2]].step,
                   logits |-> capture.spools[order[n][1]][order[n][2]].logits]
    BY <1>2, <2>1
  <2> HIDE DEF body
  <2>6. body[n] = [kind |-> "row", index |-> n - 1, position |-> i, id |-> row.id,
                   token |-> row.token, step |-> row.step, logits |-> row.logits]
    <3>1. PICK x, y : x = order[n][1] /\ y = order[n][2]
      OBVIOUS
    <3>2. x = i /\ y = k
      BY <2>2, <3>1
    <3>3. body[n] = [kind |-> "row", index |-> n - 1, position |-> x, id |-> capture.spools[x][y].id,
                     token |-> capture.spools[x][y].token, step |-> capture.spools[x][y].step,
                     logits |-> capture.spools[x][y].logits]
      BY <2>5, <3>1, Zenon
    <3> QED
      BY <3>2, <3>3, Zenon DEF row
  <2> QED
    BY <2>1, <2>4, <2>6 DEF LineAt, n
<1>5. IsList(body) /\ Len(body) = RT
  <2>1. body = [n \in 1 .. RT |-> body[n]]
    <3> HIDE DEF order
    <3> QED
      BY <1>2
  <2> HIDE DEF body, RT
  <2> QED
    BY <1>2, <2>1, TupleIsList
<1> HIDE DEF body, order, lines, h, e
<1>6. /\ IsList(lines) /\ Len(lines) = RT + 2 /\ lines[1] = h /\ lines[Len(lines)] = e
      /\ \A n \in 1 .. RT : lines[n + 1] = body[n]
  <2>1. FrameOf(h, body, e, lines)
    BY <1>3, <1>5, Framed
  <2> QED
    BY <1>5, <2>1 DEF FrameOf
<1>7. RowsWhole(BodyRows(lines), c, outs)
  <2> DEFINE rows == BodyRows(lines)
  <2>1. rows = SubSeq(lines, 1 + 1, 1 + RT)
    <3>1. Len(lines) - 1 = 1 + RT /\ 2 = 1 + 1
      BY <1>2, <1>6
    <3> HIDE DEF RT
    <3> QED
      BY <3>1, Zenon DEF BodyRows
  <2> HIDE DEF rows, RT
  <2>2. PartOf(lines, 1, RT, rows)
    <3>1. 1 + RT <= Len(lines)
      BY <1>2, <1>6
    <3> QED
      BY <1>2, <1>6, <2>1, <3>1, SubPart
  <2>3. IsList(rows) /\ Len(rows) = RT /\ \A n \in 1 .. RT : rows[n] = lines[1 + n]
    BY <2>2, Zenon DEF PartOf
  <2>4. ASSUME NEW i \in Inputs, NEW k \in 1 .. Tokens
        PROVE  rows[At(i, k)] = LineAt(c, i, k, outs[i].tokens[k])
    <3>1. PICK n : n = At(i, k)
      OBVIOUS
    <3>2. n \in 1 .. RT /\ body[n] = LineAt(c, i, k, outs[i].tokens[k])
      BY <1>4, <3>1, Zenon
    <3>3. lines[1 + n] = body[n]
      <4>1. 1 + n = n + 1 /\ lines[n + 1] = body[n]
        BY <1>2, <1>6, <3>2
      <4> QED
        BY <4>1
    <3> QED
      BY <2>3, <3>1, <3>2, <3>3, Zenon
  <2> QED
    BY <2>3, <2>4 DEF RowsWhole, rows, RT
<1> QED
  BY <1>1, <1>2, <1>6, <1>7 DEF WholeArtifact, h, e, lines
(* The fields of a row.                                                    *)
RowShows(r, c, i, k, n, tok) ==
  /\ r.kind = "row" /\ r.index = n - 1 /\ r.position = i /\ r.id = RequestId(c, i)
  /\ r.token = tok /\ r.step = k - 1 /\ r.logits = <<c, i, k - 1>>

LEMMA RowAt ==
  ASSUME NEW rows, NEW c, NEW outs, RowsWhole(rows, c, outs),
         NEW i \in Inputs, NEW k \in 1 .. Tokens
  PROVE  RowShows(rows[At(i, k)], c, i, k, At(i, k), outs[i].tokens[k])
<1>1. PICK r : r = rows[At(i, k)]
  OBVIOUS
<1>2. r = LineAt(c, i, k, outs[i].tokens[k])
  BY <1>1 DEF RowsWhole
<1>3. RowShows(r, c, i, k, At(i, k), outs[i].tokens[k])
  BY <1>2 DEF LineAt, RowShows
<1> QED
  BY <1>1, <1>3

LEMMA RowOrigin ==
  ASSUME NEW rows, NEW c, NEW outs, RowsWhole(rows, c, outs), NEW n \in 1 .. Requests * Tokens
  PROVE  \E i \in Inputs : \E k \in 1 .. Tokens :
           n = At(i, k) /\ RowShows(rows[n], c, i, k, n, outs[i].tokens[k])
<1>1. PICK i \in Inputs, k \in 1 .. Tokens : n = At(i, k)
  BY AtCovers
<1> QED
  BY <1>1, RowAt

(* The rows of a request are an interval, and so are those before them.    *)
LEMMA Positions ==
  ASSUME NEW rows, NEW c, NEW outs, RowsWhole(rows, c, outs), NEW n \in 1 .. Requests * Tokens
  PROVE  /\ rows[n].position \in Inputs
         /\ \A i \in Inputs : rows[n].position = i <=> n \in (i - 1) * Tokens + 1 .. i * Tokens
         /\ \A p \in 1 .. Requests + 1 : rows[n].position < p <=> n <= (p - 1) * Tokens
<1>1. PICK j \in Inputs, l \in 1 .. Tokens : n = At(j, l) /\ rows[n].position = j
  BY RowOrigin DEF RowShows
<1>2. /\ Requests \in Nat \ {0} /\ Tokens \in Nat \ {0} /\ Requests * Tokens \in Nat
      /\ (j - 1) * Tokens \in Nat /\ j * Tokens = (j - 1) * Tokens + Tokens
      /\ j * Tokens <= Requests * Tokens
      /\ n \in (j - 1) * Tokens + 1 .. j * Tokens
  BY <1>1, AtFacts
<1>3. j \in 1 .. Requests
  BY DEF Inputs
<1>4. ASSUME NEW i \in Inputs PROVE j = i <=> n \in (i - 1) * Tokens + 1 .. i * Tokens
  <2>1. (i - 1) * Tokens \in Nat /\ i * Tokens = (i - 1) * Tokens + Tokens /\ i \in 1 .. Requests
    <3>1. 1 \in 1 .. Tokens
      BY <1>2
    <3> QED
      BY <3>1, AtFacts DEF Inputs
  <2>2. j < i => j * Tokens <= (i - 1) * Tokens
    BY AtOrder
  <2>3. i < j => i * Tokens <= (j - 1) * Tokens
    BY AtOrder
  <2>4. j < i \/ i < j \/ i = j
    BY <1>3, <2>1
  <2> DEFINE a == (i - 1) * Tokens
             b == i * Tokens
             d == (j - 1) * Tokens
             e == j * Tokens
  <2>5. /\ a \in Nat /\ b = a + Tokens /\ d \in Nat /\ e = d + Tokens /\ n \in d + 1 .. e
        /\ (j < i => e <= a) /\ (i < j => b <= d) /\ (i = j => a = d /\ b = e)
    BY <1>2, <2>1, <2>2, <2>3
  <2> HIDE DEF a, b, d, e
  <2>6. j = i <=> n \in a + 1 .. b
    BY <1>2, <1>3, <2>1, <2>4, <2>5
  <2> QED
    BY <2>6 DEF a, b
<1>5. ASSUME NEW p \in 1 .. Requests + 1 PROVE j < p <=> n <= (p - 1) * Tokens
  <2>1. j < p => j * Tokens <= (p - 1) * Tokens
    <3>1. CASE p \in Inputs
      BY <3>1, AtOrder
    <3>2. CASE p = Requests + 1
      <4>1. p - 1 = Requests
        BY <1>2, <3>2
      <4> QED
        BY <1>2, <4>1
    <3> QED
      BY <1>2, <3>1, <3>2 DEF Inputs
  <2>2. p <= j => (p - 1) * Tokens <= (j - 1) * Tokens
    <3> SUFFICES ASSUME p <= j PROVE (p - 1) * Tokens <= (j - 1) * Tokens
      OBVIOUS
    <3>1. p \in Inputs
      BY <1>2, <1>3 DEF Inputs
    <3>2. 1 \in 1 .. Tokens
      BY <1>2
    <3>3. (p - 1) * Tokens \in Nat /\ p * Tokens = (p - 1) * Tokens + Tokens
      BY <3>1, <3>2, AtFacts
    <3>4. CASE p = j
      BY <1>2, <3>4
    <3>5. CASE p < j
      <4>1. p * Tokens <= (j - 1) * Tokens
        BY <3>1, <3>5, AtOrder
      <4> QED
        BY <1>2, <3>3, <4>1
    <3> QED
      BY <1>3, <3>4, <3>5
  <2>3. (p - 1) * Tokens \in Int
    BY <1>2
  <2> DEFINE q == (p - 1) * Tokens
             d == (j - 1) * Tokens
             e == j * Tokens
  <2>4. q \in Int /\ d \in Nat /\ e = d + Tokens /\ n \in d + 1 .. e /\ (j < p => e <= q) /\ (p <= j => q <= d)
    BY <1>2, <2>1, <2>2, <2>3
  <2> HIDE DEF q, d, e
  <2>5. j < p <=> n <= q
    BY <1>2, <1>3, <2>4
  <2> QED
    BY <2>5 DEF q
<1> QED
  BY <1>1, <1>4, <1>5

(* The numbers of an interval, in order.                                   *)
LEMMA IntervalInOrder ==
  ASSUME NEW a \in Nat, NEW b \in Nat
  PROVE  InOrder(a + 1 .. a + b) = [k \in 1 .. b |-> a + k]
<1> DEFINE I == a + 1 .. a + b
           R == Ascending(I)
           order == InOrder(I)
           N == Cardinality(I)
<1>1. I \subseteq Int /\ IsFiniteSet(I) /\ N = b
  BY FS_Interval
<1>2. StrictOrder(R, I)
  BY <1>1 DEF StrictOrder, Ascending
<1>3. /\ order \in [1 .. b -> I]
      /\ \A k \in 1 .. b : Cardinality(Predecessors(I, R, order[k])) = k - 1
  <2> HIDE DEF R, I
  <2>1. /\ order \in [1 .. N -> I]
        /\ \A k \in 1 .. N : Cardinality(Predecessors(I, R, order[k])) = k - 1
    BY <1>1, <1>2, EnumerateBijective DEF InOrder, R
  <2> QED
    BY <1>1, <2>1
<1>4. ASSUME NEW k \in 1 .. b PROVE order[k] = a + k
  <2>1. PICK d : d = order[k]
    OBVIOUS
  <2>2. d \in I /\ Cardinality(Predecessors(I, R, d)) = k - 1
    BY <1>3, <2>1
  <2>3. Predecessors(I, R, d) = a + 1 .. d - 1
    <3>1. \A e \in I : <<e, d>> \in R <=> e < d
      BY <2>2 DEF Ascending
    <3>2. \A e : e \in Predecessors(I, R, d) <=> e \in I /\ e < d
      BY <3>1 DEF Predecessors
    <3>3. \A e : e \in I /\ e < d <=> e \in a + 1 .. d - 1
      BY <2>2
    <3> HIDE DEF I, R
    <3> QED
      BY <3>2, <3>3
  <2>4. Cardinality(a + 1 .. d - 1) = d - 1 - a
    <3>1. d \in a + 1 .. a + b
      BY <2>2
    <3>2. Cardinality(a + 1 .. d - 1) = IF a + 1 > d - 1 THEN 0 ELSE (d - 1) - (a + 1) + 1
      BY <3>1, FS_Interval
    <3> QED
      BY <3>1, <3>2
  <2> HIDE DEF R, order
  <2>5. d - 1 - a = k - 1
    BY <2>2, <2>3, <2>4
  <2>6. d = a + k
    BY <2>2, <2>5
  <2> QED
    BY <2>1, <2>6
<1> HIDE DEF order
<1> QED
  BY <1>3, <1>4 DEF order
(* What a list of rows of RT places is.                                    *)
LEMMA RowsDomain ==
  ASSUME NEW rows, NEW c, NEW outs, RowsWhole(rows, c, outs)
  PROVE  /\ Requests * Tokens \in Nat /\ Len(rows) = Requests * Tokens
         /\ DOMAIN rows = 1 .. Requests * Tokens
<1>1. Requests * Tokens \in Nat
  BY CallShape
<1>2. IsList(rows) /\ Len(rows) = Requests * Tokens
  BY DEF RowsWhole
<1> QED
  BY <1>1, <1>2 DEF IsList

(* The rows of one request before a row of it: its earlier steps.          *)
LEMMA EarlierRows ==
  ASSUME NEW rows, NEW c, NEW outs, RowsWhole(rows, c, outs),
         NEW i \in Inputs, NEW k \in 1 .. Tokens, NEW n, n = At(i, k)
  PROVE  Cardinality({m \in 1 .. n - 1 : rows[m].position = rows[n].position}) = k - 1
<1> DEFINE a == (i - 1) * Tokens
           E == {m \in 1 .. n - 1 : rows[m].position = rows[n].position}
<1>1. a \in Nat /\ n = a + k /\ n \in 1 .. Requests * Tokens /\ i * Tokens = a + Tokens
  BY AtFacts DEF At
<1>2. k \in 1 .. Tokens /\ Tokens \in Nat /\ Requests * Tokens \in Nat
  BY CallShape, RowsDomain
<1>3. rows[n].position = i
  BY RowAt DEF RowShows
<1>4. \A m \in 1 .. n - 1 : rows[m].position = i <=> m \in a + 1 .. i * Tokens
  <2> SUFFICES ASSUME NEW m \in 1 .. n - 1
               PROVE  rows[m].position = i <=> m \in a + 1 .. i * Tokens
    OBVIOUS
  <2>1. m \in 1 .. Requests * Tokens
    <3> HIDE DEF a
    <3> QED
      BY <1>1, <1>2
  <2> QED
    BY <2>1, Positions
<1> HIDE DEF a
<1>5. \A m : m \in E <=> m \in a + 1 .. n - 1
  BY <1>1, <1>2, <1>3, <1>4
<1> HIDE DEF E
<1>6. E = a + 1 .. n - 1
  BY <1>5
<1>7. Cardinality(a + 1 .. n - 1) = IF a + 1 > n - 1 THEN 0 ELSE (n - 1) - (a + 1) + 1
  BY <1>1, <1>2, FS_Interval
<1>8. Cardinality(E) = k - 1
  BY <1>1, <1>2, <1>6, <1>7
<1> QED
  BY <1>8 DEF E

(* The tokens of a request, collected from the rows.                       *)
LEMMA RowTokens ==
  ASSUME NEW rows, NEW c, NEW outs, RowsWhole(rows, c, outs), OutputsOf(c, outs), NEW i \in Inputs,
         NEW mine, mine = InOrder({n \in DOMAIN rows : rows[n].position = i})
  PROVE  [k \in DOMAIN mine |-> rows[mine[k]].token] = outs[i].tokens
<1> DEFINE a == (i - 1) * Tokens
           S == {n \in DOMAIN rows : rows[n].position = i}
           toks == outs[i].tokens
<1>1. Tokens \in Nat \ {0} /\ Requests * Tokens \in Nat /\ DOMAIN rows = 1 .. Requests * Tokens
  BY CallShape, RowsDomain
<1>2. a \in Nat /\ i * Tokens = a + Tokens /\ i * Tokens <= Requests * Tokens
  <2>1. 1 \in 1 .. Tokens
    BY <1>1
  <2> QED
    BY <2>1, AtFacts
<1>3. \A n \in 1 .. Requests * Tokens : rows[n].position = i <=> n \in a + 1 .. i * Tokens
  BY Positions
<1> HIDE DEF a
<1>4. \A n : n \in S <=> n \in a + 1 .. a + Tokens
  BY <1>1, <1>2, <1>3
<1> HIDE DEF S
<1>5. S = a + 1 .. a + Tokens
  BY <1>4
<1>6. mine = [k \in 1 .. Tokens |-> a + k]
  <2>1. mine = InOrder(a + 1 .. a + Tokens)
    BY <1>5 DEF S
  <2> QED
    BY <1>1, <1>2, <2>1, IntervalInOrder
<1>7. ASSUME NEW k \in 1 .. Tokens PROVE rows[a + k].token = toks[k]
  <2>1. a + k = At(i, k)
    BY DEF At, a
  <2> QED
    BY <2>1, RowAt DEF RowShows
<1>8. IsList(toks) /\ Len(toks) = Tokens
  BY DEF OutputsOf
<1>9. toks = [k \in 1 .. Tokens |-> toks[k]]
  <2> HIDE DEF toks
  <2> QED
    BY <1>8 DEF IsList
<1>10. [k \in DOMAIN mine |-> rows[mine[k]].token] = [k \in 1 .. Tokens |-> rows[a + k].token]
  BY <1>6
<1> HIDE DEF toks
<1> QED
  BY <1>7, <1>9, <1>10 DEF toks

(* The producer's check passes.                                            *)
LEMMA SelfAccepts ==
  ASSUME NEW lines, NEW c, NEW outs, WholeArtifact(lines, c, outs), OutputsOf(c, outs)
  PROVE  SelfCheck(lines, c, outs)
<1> DEFINE rows == BodyRows(lines)
           RT == Requests * Tokens
<1>1. RowsWhole(rows, c, outs) /\ IsList(lines) /\ Len(lines) = RT + 2
  BY DEF WholeArtifact
<1>2. /\ lines[1] = [kind |-> "header", call |-> c, requests |-> Bindings(c)]
      /\ lines[Len(lines)] = [kind |-> "trailer", count |-> RT]
  BY DEF WholeArtifact
<1>3. RT \in Nat /\ Len(rows) = RT /\ DOMAIN rows = 1 .. RT
  BY <1>1, RowsDomain
<1>4. rows = SubSeq(lines, 2, Len(lines) - 1)
  BY DEF BodyRows
<1> HIDE DEF rows
<1>5. Last(lines) = [kind |-> "trailer", count |-> Len(rows)]
  BY <1>2, <1>3 DEF Last
<1>6. ASSUME NEW i \in Inputs, NEW mine, mine = InOrder({n \in DOMAIN rows : rows[n].position = i})
      PROVE  [k \in DOMAIN mine |-> rows[mine[k]].token] = outs[i].tokens
  BY <1>1, <1>6, RowTokens
<1>7. ASSUME NEW n \in 1 .. RT
      PROVE  /\ rows[n].kind = "row" /\ rows[n].index = n - 1
             /\ n > 1 => rows[n - 1].position <= rows[n].position
             /\ rows[n].position \in Inputs /\ rows[n].id = outs[rows[n].position].id
             /\ rows[n].step = Cardinality({m \in 1 .. n - 1 : rows[m].position = rows[n].position})
  <2>1. PICK i \in Inputs, k \in 1 .. Tokens :
          n = At(i, k) /\ RowShows(rows[n], c, i, k, n, outs[i].tokens[k])
    BY <1>1, RowOrigin
  <2>2. outs[i].id = RequestId(c, i)
    BY DEF OutputsOf
  <2>3. ASSUME n > 1 PROVE rows[n - 1].position <= rows[n].position
    <3>1. n - 1 \in 1 .. RT
      BY <1>3, <2>3
    <3>2. PICK j \in Inputs, l \in 1 .. Tokens :
            n - 1 = At(j, l) /\ RowShows(rows[n - 1], c, j, l, n - 1, outs[j].tokens[l])
      BY <1>1, <3>1, RowOrigin
    <3>3. At(j, l) <= At(i, k)
      BY <1>3, <2>1, <3>2
    <3> QED
      BY <2>1, <3>2, <3>3, AtUnique DEF RowShows
  <2>4. Cardinality({m \in 1 .. n - 1 : rows[m].position = rows[n].position}) = k - 1
    BY <1>1, <2>1, EarlierRows
  <2> QED
    BY <2>1, <2>2, <2>3, <2>4 DEF RowShows
<1>8. \A n \in DOMAIN rows :
        /\ rows[n].kind = "row" /\ rows[n].index = n - 1
        /\ n > 1 => rows[n - 1].position <= rows[n].position
        /\ rows[n].position \in Inputs /\ rows[n].id = outs[rows[n].position].id
        /\ rows[n].step = Cardinality({m \in 1 .. n - 1 : rows[m].position = rows[n].position})
  BY <1>3, <1>7
<1>9. \A i \in Inputs :
        [k \in DOMAIN InOrder({n \in DOMAIN rows : rows[n].position = i}) |->
           rows[InOrder({n \in DOMAIN rows : rows[n].position = i})[k]].token] = outs[i].tokens
  BY <1>6
<1> QED
  BY <1>2, <1>5, <1>8, <1>9, Zenon DEF SelfCheck, BodyRows, rows
(* The rows of the requests before the p-th.                               *)
LEMMA RowsBefore ==
  ASSUME NEW rows, NEW c, NEW outs, RowsWhole(rows, c, outs), NEW p \in 1 .. Requests + 1
  PROVE  Cardinality({n \in DOMAIN rows : rows[n].position < p}) = (p - 1) * Tokens
<1> DEFINE B == {n \in DOMAIN rows : rows[n].position < p}
           b == (p - 1) * Tokens
<1>1. /\ Requests \in Nat \ {0} /\ Tokens \in Nat \ {0} /\ Requests * Tokens \in Nat
      /\ DOMAIN rows = 1 .. Requests * Tokens
  BY CallShape, RowsDomain
<1>2. b \in Nat
  BY <1>1
<1>3. b <= Requests * Tokens
  <2>1. CASE p = Requests + 1
    <3>1. p - 1 = Requests
      BY <1>1, <2>1
    <3> QED
      BY <1>1, <3>1
  <2>2. CASE p \in Inputs
    <3>1. 1 \in 1 .. Tokens
      BY <1>1
    <3>2. /\ (p - 1) * Tokens \in Nat /\ p * Tokens = (p - 1) * Tokens + Tokens
          /\ p * Tokens <= Requests * Tokens
      BY <2>2, <3>1, AtFacts
    <3> QED
      BY <1>1, <3>2
  <2> QED
    BY <1>1, <2>1, <2>2 DEF Inputs
<1>4. \A n \in 1 .. Requests * Tokens : rows[n].position < p <=> n <= b
  BY Positions
<1> HIDE DEF b
<1>5. \A n : n \in B <=> n \in 1 .. b
  BY <1>1, <1>2, <1>3, <1>4
<1> HIDE DEF B
<1>6. B = 1 .. b
  BY <1>5
<1>7. Cardinality(1 .. b) = b
  BY <1>2, FS_Interval
<1>8. Cardinality(B) = b
  BY <1>6, <1>7
<1> QED
  BY <1>8 DEF B, b

(* The consumer's parser accepts.                                          *)
LEMMA ParserAccepts ==
  ASSUME NEW lines, NEW c, NEW outs, WholeArtifact(lines, c, outs), OutputsOf(c, outs)
  PROVE  ConsumerAccepts(lines, c, outs)
<1> DEFINE rows == BodyRows(lines)
           RT == Requests * Tokens
           Before(p) == Cardinality({n \in DOMAIN rows : rows[n].position < p})
<1>1. RowsWhole(rows, c, outs) /\ IsList(lines) /\ Len(lines) = RT + 2
  BY DEF WholeArtifact
<1>2. /\ lines[1] = [kind |-> "header", call |-> c, requests |-> Bindings(c)]
      /\ lines[Len(lines)] = [kind |-> "trailer", count |-> RT]
  BY DEF WholeArtifact
<1>3. RT \in Nat /\ Len(rows) = RT /\ DOMAIN rows = 1 .. RT /\ Requests \in Nat /\ Tokens \in Nat
  BY <1>1, RowsDomain, CallShape
<1>4. DOMAIN outs = Inputs /\ \A i \in Inputs : outs[i].id = RequestId(c, i) /\ Len(outs[i].tokens) = Tokens
  BY DEF OutputsOf
<1>5. lines # <<>> /\ lines[1].kind = "header" /\ lines[1].call = c
  <2>1. Len(lines) # Len(<<>>)
    BY <1>1, <1>3
  <2> QED
    BY <1>2, <2>1
<1>6. lines[1].requests = [i \in DOMAIN outs |-> [position |-> i, id |-> outs[i].id]]
  BY <1>2, <1>4 DEF Bindings
<1> HIDE DEF rows
<1>7. Last(lines).kind = "trailer" /\ Last(lines).count = Len(rows)
  BY <1>2, <1>3 DEF Last
<1>8. \A p \in 1 .. Requests + 1 : Before(p) = (p - 1) * Tokens
  BY <1>1, RowsBefore
<1> HIDE DEF Before
<1>9. ASSUME NEW n \in DOMAIN rows
      PROVE  LET p == rows[n].position
             IN /\ rows[n].kind = "row" /\ rows[n].index = n - 1
                /\ p \in DOMAIN outs /\ rows[n].id = outs[p].id
                /\ rows[n].step = n - 1 - Before(p)
                /\ rows[n].step < Len(outs[p].tokens)
                /\ rows[n].token = outs[p].tokens[rows[n].step + 1]
  <2>1. PICK i \in Inputs, k \in 1 .. Tokens :
          n = At(i, k) /\ RowShows(rows[n], c, i, k, n, outs[i].tokens[k])
    BY <1>1, <1>3, RowOrigin
  <2>2. Before(i) = (i - 1) * Tokens
    <3>1. i \in 1 .. Requests + 1
      BY <1>3 DEF Inputs
    <3> QED
      BY <1>8, <3>1
  <2>3. (i - 1) * Tokens \in Nat /\ n = (i - 1) * Tokens + k
    BY <2>1, AtFacts DEF At
  <2>4. k - 1 = n - 1 - Before(i) /\ k - 1 < Tokens /\ (k - 1) + 1 = k
    <3> DEFINE a == (i - 1) * Tokens
    <3>1. a \in Nat /\ n = a + k /\ Before(i) = a
      BY <2>2, <2>3
    <3> HIDE DEF a
    <3> QED
      BY <1>3, <3>1
  <2>5. rows[n].position = i /\ rows[n].kind = "row" /\ rows[n].index = n - 1 /\ rows[n].id = RequestId(c, i)
        /\ rows[n].token = outs[i].tokens[k] /\ rows[n].step = k - 1
    BY <2>1 DEF RowShows
  <2>6. Before(rows[n].position) = Before(i)
    BY <2>5
  <2> HIDE DEF rows
  <2> QED
    BY <1>4, <2>4, <2>5, <2>6
<1>10. ASSUME NEW i \in DOMAIN outs PROVE Before(i + 1) - Before(i) = Len(outs[i].tokens)
  <2>1. i \in 1 .. Requests /\ i \in Inputs
    BY <1>4 DEF Inputs
  <2>2. i \in 1 .. Requests + 1 /\ i + 1 \in 1 .. Requests + 1 /\ (i + 1) - 1 = i
    BY <1>3, <2>1
  <2>3. Before(i + 1) = ((i + 1) - 1) * Tokens /\ Before(i) = (i - 1) * Tokens
    BY <1>8, <2>2
  <2>4. Before(i + 1) = i * Tokens
    BY <2>2, <2>3
  <2>5. i * Tokens - (i - 1) * Tokens = Tokens
    BY <1>3, <2>1
  <2> QED
    BY <1>4, <2>1, <2>3, <2>4, <2>5
<1> QED
  BY <1>5, <1>6, <1>7, <1>9, <1>10, Zenon DEF ConsumerAccepts, rows, Before

(* What the consumer returns: the rows of its call, request by request.    *)
LEMMA CapturedIsExact ==
  ASSUME NEW lines, NEW c, NEW outs, WholeArtifact(lines, c, outs)
  PROVE  Captured(lines) = FlattenSeq([i \in Inputs |-> [k \in 1 .. Tokens |-> <<c, i, k - 1>>]])
<1> DEFINE rows == BodyRows(lines)
           RT == Requests * Tokens
           ss == [i \in Inputs |-> [k \in 1 .. Tokens |-> <<c, i, k - 1>>]]
           flat == FlattenSeq(ss)
           got == Captured(lines)
<1>1. RowsWhole(rows, c, outs)
  BY DEF WholeArtifact
<1>2. RT \in Nat /\ DOMAIN rows = 1 .. RT /\ Requests \in Nat /\ Tokens \in Nat
  BY <1>1, RowsDomain, CallShape
<1>3. ss = [i \in 1 .. Requests |-> ss[i]]
  BY DEF Inputs
<1>4. ASSUME NEW i \in Inputs
      PROVE  IsList(ss[i]) /\ Len(ss[i]) = Tokens /\ \A k \in 1 .. Tokens : ss[i][k] = <<c, i, k - 1>>
  <2>1. PICK f : f = [k \in 1 .. Tokens |-> <<c, i, k - 1>>]
    OBVIOUS
  <2>2. f = [k \in 1 .. Tokens |-> f[k]] /\ \A k \in 1 .. Tokens : f[k] = <<c, i, k - 1>>
    BY <2>1
  <2>3. IsList(f) /\ Len(f) = Tokens
    BY <1>2, <2>2, TupleIsList
  <2>4. ss[i] = f
    BY <2>1
  <2> QED
    BY <2>2, <2>3, <2>4
<1> HIDE DEF ss
<1>5. IsList(ss) /\ Len(ss) = Requests
  BY <1>2, <1>3, TupleIsList
<1>6. Laid(ss, flat)
  BY <1>4, <1>5, FlattenLays DEF PerRequest
<1>7. got = [n \in 1 .. RT |-> rows[n].logits]
  <2> HIDE DEF RT
  <2> QED
    BY <1>2 DEF Captured
<1> HIDE DEF rows, flat, got
<1>8. flat = [n \in 1 .. RT |-> flat[n]]
  <2>1. IsList(flat) /\ Len(flat) = RT
    BY <1>6 DEF Laid
  <2> HIDE DEF RT
  <2> QED
    BY <1>2, <2>1 DEF IsList
<1>9. ASSUME NEW n \in 1 .. RT PROVE rows[n].logits = flat[n]
  <2>1. PICK i \in Inputs, k \in 1 .. Tokens :
          n = At(i, k) /\ RowShows(rows[n], c, i, k, n, outs[i].tokens[k])
    BY <1>1, RowOrigin
  <2>2. flat[n] = ss[i][k] /\ ss[i][k] = <<c, i, k - 1>>
    BY <1>4, <1>6, <2>1 DEF Laid
  <2> QED
    BY <2>1, <2>2 DEF RowShows
<1> HIDE DEF RT
<1>10. got = flat
  BY <1>7, <1>8, <1>9
<1> QED
  BY <1>10 DEF got, flat, ss
-----------------------------------------------------------------------------
(* A capture shows its own call.                                           *)

SpoolsExact(c, spools, toks) ==
  /\ DOMAIN toks = Inputs /\ DOMAIN spools = Inputs
  /\ \A i \in Inputs : Spooled(c, i, spools[i], toks[i])

Shows(c, lines, outs) == WholeArtifact(lines, c, outs) /\ OutputsOf(c, outs)

RowsOfCall(c) == FlattenSeq([i \in Inputs |-> [k \in 1 .. Tokens |-> <<c, i, k - 1>>]])

ThreadExact(t) ==
  /\ thread[t].pc = "stepping" => SpoolsExact(capture.call, capture.spools, sampled)
  /\ thread[t].pc = "generated" =>
       Shows(thread[t].call, dirs[thread[t].call].artifact, Outputs(thread[t].call))
  /\ thread[t].pc = "reading" =>
       Shows(thread[t].call, dirs[thread[t].call].artifact, thread[t].result)
  /\ thread[t].pc = "ok" => thread[t].result = RowsOfCall(thread[t].call)

CapExact == \A t \in Threads : ThreadExact(t)

(* What a step of one thread leaves to the others.                         *)
LEMMA OthersKeep ==
  ASSUME CapOwned, CapExact, NEW t \in Threads, NEW pc, NEW k, NEW r, ThreadMoves(t, pc, k, r),
         NEW c, \A d \in CallIds \ {c} : dirs'[d] = dirs[d],
         \A s \in Threads \ {t} : thread[s].pc \in Working => thread[s].call # c,
         \/ UNCHANGED <<capture, sampled>>
         \/ \A s \in Threads \ {t} : thread[s].pc \notin Holding
  PROVE  \A s \in Threads \ {t} : ThreadExact(s)'
<1> SUFFICES ASSUME NEW s \in Threads, s # t PROVE ThreadExact(s)'
  OBVIOUS
<1>1. thread'[s] = thread[s]
  BY DEF ThreadMoves
<1>2. ThreadExact(s)
  BY DEF CapExact
<1>3. thread[s].pc \in Working => dirs'[thread[s].call] = dirs[thread[s].call]
  BY WorkingCall
<1>4. thread[s].pc \in Holding => UNCHANGED <<capture, sampled>>
  OBVIOUS
<1>5. UNCHANGED sampled => Outputs(thread[s].call)' = Outputs(thread'[s].call)
  BY DEF Outputs
<1>6. thread[s].pc = "stepping" => SpoolsExact(capture'.call, capture'.spools, sampled')
  BY <1>2, <1>4 DEF ThreadExact, Holding
<1>7. thread[s].pc = "generated" =>
        Shows(thread[s].call, dirs'[thread[s].call].artifact, Outputs(thread[s].call)')
  BY <1>1, <1>2, <1>3, <1>4, <1>5 DEF ThreadExact, Holding, Working
<1>8. thread[s].pc = "reading" =>
        Shows(thread[s].call, dirs'[thread[s].call].artifact, thread[s].result)
  BY <1>2, <1>3 DEF ThreadExact, Working
<1>9. thread[s].pc = "ok" => thread[s].result = RowsOfCall(thread[s].call)
  BY <1>2 DEF ThreadExact
<1> QED
  BY <1>1, <1>6, <1>7, <1>8, <1>9, Zenon DEF ThreadExact

(* The other threads at work have calls of their own.                      *)
LEMMA OthersElsewhere ==
  ASSUME CapOwned, NEW t \in Threads
  PROVE  \A s \in Threads \ {t} : thread[s].pc \in Working => thread[s].call # thread[t].call
BY DEF CapOwned, OwnCalls

LEMMA ExactInit == CapInit => CapExact
BY DEF CapInit, CapExact, ThreadExact
(* A step after which its thread has nothing to show.                      *)
LEMMA QuietStep ==
  ASSUME CapOwned, CapExact, NEW t \in Threads, NEW pc, NEW k, NEW r, ThreadMoves(t, pc, k, r),
         NEW c, \A d \in CallIds \ {c} : dirs'[d] = dirs[d],
         \A s \in Threads \ {t} : thread[s].pc \in Working => thread[s].call # c,
         \/ UNCHANGED <<capture, sampled>>
         \/ \A s \in Threads \ {t} : thread[s].pc \notin Holding,
         pc \notin {"stepping", "generated", "reading", "ok"}
  PROVE  CapExact'
<1>1. \A s \in Threads \ {t} : ThreadExact(s)'
  BY OthersKeep
<1>2. ThreadExact(t)'
  BY DEF ThreadExact, ThreadMoves
<1> QED
  BY <1>1, <1>2 DEF CapExact

LEMMA BeginExact ==
  ASSUME CapOwned, CapExact, NEW t \in Threads, Begin(t)
  PROVE  CapExact'
<1>1. PICK pc : pc \in {"locking", "err"} /\ ThreadMoves(t, pc, nonce + 1, <<>>)
  <2>1. PICK created \in BOOLEAN :
          thread' = [thread EXCEPT ![t] = [pc |-> IF created THEN "locking" ELSE "err",
                                           call |-> nonce + 1, result |-> <<>>]]
    BY DEF Begin
  <2>2. ThreadMoves(t, IF created THEN "locking" ELSE "err", nonce + 1, <<>>)
    BY <2>1, SetThread DEF CapOwned, CapShape
  <2> QED
    BY <2>2
<1>2. \A d \in CallIds \ {nonce + 1} : dirs'[d] = dirs[d]
  BY DEF Begin, CapOwned, CapShape, DirShape
<1>3. \A s \in Threads : thread[s].call # nonce + 1
  BY CaptureShape DEF CapOwned, CapShape
<1>4. UNCHANGED <<capture, sampled>>
  BY DEF Begin
<1> QED
  BY <1>1, <1>2, <1>3, <1>4, QuietStep

LEMMA InstallExact ==
  ASSUME CapOwned, CapExact, NEW t \in Threads, Install(t)
  PROVE  CapExact'
<1> DEFINE c == thread[t].call
<1>1. PICK pc : pc \in {"poisoned", "occupied", "prepare"} /\ ThreadMoves(t, pc, c, thread[t].result)
  <2>1. PICK pc \in {"poisoned", "occupied", "prepare"} : thread' = [thread EXCEPT ![t].pc = pc]
    BY DEF Install, Returned
  <2> QED
    BY <2>1, SetPc DEF CapOwned, CapShape
<1>2. \A d \in CallIds \ {c} : dirs'[d] = dirs[d]
  BY DEF Install, CapOwned, CapShape, DirShape
<1>3. UNCHANGED <<capture, sampled>>
  BY DEF Install
<1>4. \A s \in Threads \ {t} : thread[s].pc \in Working => thread[s].call # c
  BY OthersElsewhere
<1>5. pc \notin {"stepping", "generated", "reading", "ok"}
  BY <1>1
<1> HIDE DEF c
<1> QED
  BY <1>1, <1>2, <1>3, <1>4, <1>5, QuietStep

LEMMA UnwindExact ==
  ASSUME CapOwned, CapExact, NEW t \in Threads, NEW how \in {"err", "panic"},
         thread[t].pc \in Holding, Unwind(t, how)
  PROVE  CapExact'
<1> DEFINE c == thread[t].call
<1>1. ThreadMoves(t, how, c, thread[t].result)
  BY SetPc DEF Unwind, Returned, CapOwned, CapShape
<1>2. \A d \in CallIds \ {c} : dirs'[d] = dirs[d]
  BY DEF Unwind, CapOwned, CapShape, DirShape
<1>3. \A s \in Threads \ {t} : thread[s].pc \notin Holding
  BY OneHolder
<1>4. \A s \in Threads \ {t} : thread[s].pc \in Working => thread[s].call # c
  BY OthersElsewhere
<1>5. how \notin {"stepping", "generated", "reading", "ok"}
  OBVIOUS
<1> HIDE DEF c
<1> QED
  BY <1>1, <1>2, <1>3, <1>4, <1>5, QuietStep

LEMMA PrepareExact ==
  ASSUME CapOwned, CapExact, NEW t \in Threads, PrepareCapture(t)
  PROVE  CapExact'
<1> DEFINE c == thread[t].call
<1>1. thread[t].pc = "prepare" /\ captureEnv = c /\ \A s \in Threads \ {t} : thread[s].pc \notin Holding
  BY OneHolder DEF Holding, PrepareCapture
<1>2. /\ thread' = [thread EXCEPT ![t].pc = "stepping"]
      /\ dirs' = [dirs EXCEPT ![c].files = {0} \cup Inputs]
      /\ capture' = [call |-> c, spools |-> [i \in Inputs |-> <<>>], published |-> FALSE]
      /\ sampled' = [i \in Inputs |-> <<>>]
  BY <1>1 DEF PrepareCapture
<1>3. ThreadMoves(t, "stepping", c, thread[t].result)
  BY <1>2, SetPc DEF CapOwned, CapShape
<1>4. \A d \in CallIds \ {c} : dirs'[d] = dirs[d]
  BY <1>2 DEF CapOwned, CapShape, DirShape
<1>5. \A s \in Threads \ {t} : ThreadExact(s)'
  BY <1>1, <1>3, <1>4, OthersElsewhere, OthersKeep
<1>6. SpoolsExact(capture'.call, capture'.spools, sampled')
  <2>1. IsList(<<>>) /\ Len(<<>>) = 0 /\ 0 <= Tokens
    BY CallShape DEF IsList
  <2>2. \A i \in Inputs : Spooled(c, i, <<>>, <<>>)
    BY <2>1 DEF Spooled
  <2> QED
    BY <1>2, <2>2 DEF SpoolsExact
<1>7. ThreadExact(t)'
  BY <1>3, <1>6 DEF ThreadExact, ThreadMoves
<1> QED
  BY <1>5, <1>7 DEF CapExact

(* A recorded row continues the spool of its request.                      *)
LEMMA SpoolGrows ==
  ASSUME NEW c, NEW i \in Inputs, NEW spool, NEW toks, Spooled(c, i, spool, toks), Len(toks) < Tokens,
         NEW tok, NEW row, row = SpoolRow(c, i, Len(toks) + 1, tok)
  PROVE  Spooled(c, i, Append(spool, row), Append(toks, tok))
<1> DEFINE s2 == Append(spool, row)
           t2 == Append(toks, tok)
           n == Len(toks)
<1>1. /\ IsList(spool) /\ IsList(toks) /\ Len(spool) = n /\ Tokens \in Nat
      /\ \A k \in 1 .. n : spool[k] = SpoolRow(c, i, k, toks[k])
  BY CallShape DEF Spooled
<1>2. /\ n \in Nat /\ IsList(s2) /\ Len(s2) = n + 1 /\ s2[n + 1] = row
      /\ \A k \in 1 .. n : s2[k] = spool[k]
  BY <1>1, AppendList
<1>3. IsList(t2) /\ Len(t2) = n + 1 /\ t2[n + 1] = tok /\ \A k \in 1 .. n : t2[k] = toks[k]
  BY <1>1, AppendList
<1> HIDE DEF s2, t2, n
<1>4. ASSUME NEW k \in 1 .. n + 1 PROVE s2[k] = SpoolRow(c, i, k, t2[k])
  <2>1. CASE k = n + 1
    BY <1>2, <1>3, <2>1 DEF n
  <2>2. CASE k \in 1 .. n
    BY <1>1, <1>2, <1>3, <2>2
  <2> QED
    BY <1>2, <2>1, <2>2
<1>5. n + 1 <= Tokens
  BY <1>1, <1>2 DEF n
<1>6. Spooled(c, i, s2, t2)
  BY <1>2, <1>3, <1>4, <1>5 DEF Spooled
<1> QED
  BY <1>6 DEF s2, t2

LEMMA RecordExact ==
  ASSUME CapOwned, CapExact, NEW t \in Threads, RecordRows(t)
  PROVE  CapExact'
<1> DEFINE c == capture.call
<1>1. PICK planned \in SUBSET StillSampling, token \in Vocabulary :
        /\ sampled' = [i \in Inputs |-> IF i \in planned THEN Append(sampled[i], token) ELSE sampled[i]]
        /\ capture' = [capture EXCEPT !.spools =
             [i \in Inputs |-> IF i \in planned THEN Append(@[i], HostRow(c, planned, i, token))
                               ELSE @[i]]]
  BY DEF RecordRows
<1>2. thread[t].pc = "stepping" /\ UNCHANGED <<thread, dirs>>
  BY DEF RecordRows
<1>3. SpoolsExact(c, capture.spools, sampled)
  BY <1>2 DEF CapExact, ThreadExact
<1>4. /\ capture'.call = c
      /\ capture'.spools = [i \in Inputs |-> IF i \in planned
                              THEN Append(capture.spools[i], HostRow(c, planned, i, token))
                              ELSE capture.spools[i]]
  BY <1>1 DEF CapOwned, CapShape, CaptureShaped
<1>5. planned \subseteq Inputs /\ \A i \in planned : Len(sampled[i]) < Tokens
  BY DEF StillSampling
<1>6. ASSUME NEW i \in Inputs PROVE Spooled(c, i, capture'.spools[i], sampled'[i])
  <2>1. Spooled(c, i, capture.spools[i], sampled[i])
    BY <1>3 DEF SpoolsExact
  <2>2. CASE i \notin planned
    BY <1>1, <1>4, <2>1, <2>2
  <2>3. CASE i \in planned
    <3>1. HostRow(c, planned, i, token) = SpoolRow(c, i, Len(sampled[i]) + 1, token)
      <4>1. LogitsTensor(c, planned)[TensorRow(planned, i)] = <<c, i, Len(sampled[i])>>
        BY <1>5, <2>3, TensorRowIsOwn
      <4>2. Len(sampled[i]) \in Nat
        BY <2>1 DEF Spooled, IsList
      <4>3. (Len(sampled[i]) + 1) - 1 = Len(sampled[i])
        BY <4>2
      <4> QED
        BY <4>1, <4>3, Zenon DEF HostRow, SpoolRow
    <3>2. Spooled(c, i, Append(capture.spools[i], HostRow(c, planned, i, token)),
                  Append(sampled[i], token))
      BY <1>5, <2>1, <2>3, <3>1, SpoolGrows
    <3> QED
      BY <1>1, <1>4, <2>3, <3>2
  <2> QED
    BY <2>2, <2>3
<1>7. SpoolsExact(capture'.call, capture'.spools, sampled')
  BY <1>1, <1>4, <1>6 DEF SpoolsExact
<1>8. ThreadExact(t)'
  BY <1>2, <1>7 DEF ThreadExact
<1>9. ThreadMoves(t, thread[t].pc, thread[t].call, thread[t].result)
  BY <1>2 DEF ThreadMoves, CapOwned, CapShape, ThreadShape
<1>10. \A s \in Threads \ {t} : thread[s].pc \notin Holding
  BY <1>2, OneHolder DEF Holding
<1>11. \A d \in CallIds \ {thread[t].call} : dirs'[d] = dirs[d]
  BY <1>2
<1>12. \A s \in Threads \ {t} : ThreadExact(s)'
  BY <1>9, <1>10, <1>11, OthersElsewhere, OthersKeep
<1> QED
  BY <1>8, <1>12 DEF CapExact

(* A call whose requests all finished has full spools.                     *)
LEMMA FinishedSpools ==
  ASSUME SpoolsExact(capture.call, capture.spools, sampled), StillSampling = {}
  PROVE  /\ FullSpools(capture.call, capture.spools, Outputs(capture.call))
         /\ OutputsOf(capture.call, Outputs(capture.call))
<1> DEFINE c == capture.call
           outs == Outputs(c)
<1>1. outs = [i \in Inputs |-> [id |-> RequestId(c, i), tokens |-> sampled[i]]]
  BY DEF Outputs
<1>2. ASSUME NEW i \in Inputs
      PROVE  /\ outs[i].tokens = sampled[i] /\ IsList(sampled[i]) /\ Len(sampled[i]) = Tokens
             /\ Spooled(c, i, capture.spools[i], sampled[i])
  <2>1. outs[i].tokens = sampled[i]
    BY <1>1
  <2>2. Spooled(c, i, capture.spools[i], sampled[i])
    BY DEF SpoolsExact
  <2>3. IsList(sampled[i]) /\ Len(sampled[i]) <= Tokens /\ Len(sampled[i]) \in Nat
    BY <2>2 DEF Spooled, IsList
  <2>4. ~(Len(sampled[i]) < Tokens)
    BY DEF StillSampling
  <2> QED
    BY <2>1, <2>2, <2>3, <2>4, CallShape
<1> HIDE DEF outs
<1>3. OutputsOf(c, outs)
  BY <1>1, <1>2 DEF OutputsOf
<1>4. FullSpools(c, capture.spools, outs)
  BY <1>2 DEF FullSpools, SpoolsExact
<1> QED
  BY <1>3, <1>4 DEF outs

LEMMA FinishExact ==
  ASSUME CapOwned, CapExact, NEW t \in Threads, FinishCapture(t)
  PROVE  CapExact'
<1> DEFINE c == thread[t].call
<1>1. c \in CallIds /\ thread[t].pc = "stepping" /\ thread[t].pc \in Holding /\ capture.call = c
  BY WorkingCall, OneHolder DEF Working, Holding, FinishCapture
<1>2. CASE Unwind(t, "err")
  BY <1>1, <1>2, UnwindExact
<1>3. CASE /\ dirs' = [dirs EXCEPT ![c] = [exists |-> TRUE, files |-> {}, artifact |-> ArtifactLines]]
           /\ capture' = [capture EXCEPT !.published = TRUE]
           /\ thread' = [thread EXCEPT ![t].pc = "generated"]
           /\ UNCHANGED <<lock, captureEnv, nonce, sampled, preserved>>
  <2>1. ThreadMoves(t, "generated", c, thread[t].result)
    BY <1>3, SetPc DEF CapOwned, CapShape
  <2>2. /\ \A d \in CallIds \ {c} : dirs'[d] = dirs[d]
        /\ dirs'[c].artifact = ArtifactLines
    <3>1. DirMoves(c, TRUE, {}, ArtifactLines)
      BY <1>1, <1>3, SetDir DEF CapOwned, CapShape
    <3> QED
      BY <3>1 DEF DirMoves
  <2>3. SpoolsExact(capture.call, capture.spools, sampled) /\ StillSampling = {}
    BY <1>1 DEF CapExact, ThreadExact, FinishCapture
  <2>4. FullSpools(c, capture.spools, Outputs(c)) /\ OutputsOf(c, Outputs(c))
    BY <1>1, <2>3, FinishedSpools
  <2>5. WholeArtifact(ArtifactLines, c, Outputs(c))
    BY <1>1, <2>4, ArtifactShows
  <2>6. Shows(c, dirs'[c].artifact, Outputs(c))
    BY <2>2, <2>4, <2>5 DEF Shows
  <2>7. \A s \in Threads \ {t} : thread[s].pc \notin Holding
    BY <1>1, OneHolder
  <2>8. \A s \in Threads \ {t} : thread[s].pc \in Working => thread[s].call # c
    BY OthersElsewhere
  <2>9. thread'[t].pc = "generated" /\ thread'[t].call = c
    BY <2>1 DEF ThreadMoves
  <2>10. Shows(c, dirs'[c].artifact, [i \in Inputs |-> [id |-> RequestId(c, i), tokens |-> sampled'[i]]])
    BY <1>3, <2>6 DEF Outputs
  <2> HIDE DEF c
  <2>11. ThreadExact(t)'
    BY <2>9, <2>10 DEF ThreadExact, Outputs
  <2>12. \A s \in Threads \ {t} : ThreadExact(s)'
    BY <2>1, <2>2, <2>7, <2>8, OthersKeep
  <2> QED
    BY <2>11, <2>12 DEF CapExact
<1> QED
  BY <1>1, <1>2, <1>3 DEF FinishCapture

LEMMA DropExact ==
  ASSUME CapOwned, CapExact, NEW t \in Threads, DropEnvironment(t)
  PROVE  CapExact'
<1> DEFINE c == thread[t].call
<1>1. /\ thread[t].pc = "generated" /\ thread[t].pc \in Holding /\ UNCHANGED dirs
      /\ thread' = [thread EXCEPT ![t].pc = "reading", ![t].result = Outputs(c)]
  BY DEF DropEnvironment, Holding
<1>2. ThreadMoves(t, "reading", c, Outputs(c))
  BY <1>1, SetPcResult DEF CapOwned, CapShape
<1>3. Shows(c, dirs[c].artifact, Outputs(c))
  BY <1>1 DEF CapExact, ThreadExact
<1>4. \A s \in Threads \ {t} : thread[s].pc \notin Holding
  BY <1>1, OneHolder
<1>5. \A s \in Threads \ {t} : thread[s].pc \in Working => thread[s].call # c
  BY OthersElsewhere
<1>6. PICK r : r = Outputs(c)
  OBVIOUS
<1>7. \A d \in CallIds \ {c} : dirs'[d] = dirs[d]
  BY <1>1
<1>8. thread'[t].pc = "reading" /\ thread'[t].call = c /\ thread'[t].result = r
  BY <1>2, <1>6 DEF ThreadMoves
<1> HIDE DEF c
<1>9. ThreadExact(t)'
  BY <1>1, <1>3, <1>6, <1>8 DEF ThreadExact
<1>10. \A s \in Threads \ {t} : ThreadExact(s)'
  BY <1>2, <1>4, <1>5, <1>7, OthersKeep
<1> QED
  BY <1>9, <1>10 DEF CapExact

LEMMA ReadExact ==
  ASSUME CapOwned, CapExact, NEW t \in Threads, ReadCapture(t)
  PROVE  CapExact'
<1> DEFINE c == thread[t].call
<1>1. thread[t].pc = "reading" /\ UNCHANGED <<capture, sampled>>
  BY DEF ReadCapture
<1>2. \A d \in CallIds \ {c} : dirs'[d] = dirs[d]
  BY DEF ReadCapture, CapOwned, CapShape, DirShape
<1>3. \A s \in Threads \ {t} : thread[s].pc \in Working => thread[s].call # c
  BY OthersElsewhere
<1>4. CASE thread' = Returned(t, "err")
  <2>1. ThreadMoves(t, "err", c, thread[t].result)
    BY <1>4, SetPc DEF CapOwned, CapShape, Returned
  <2> HIDE DEF c
  <2> QED
    BY <1>1, <1>2, <1>3, <2>1, QuietStep
<1>5. CASE thread' = [thread EXCEPT ![t].pc = "ok", ![t].result = Captured(dirs[c].artifact)]
  <2>1. ThreadMoves(t, "ok", c, Captured(dirs[c].artifact))
    BY <1>5, SetPcResult DEF CapOwned, CapShape
  <2>2. WholeArtifact(dirs[c].artifact, c, thread[t].result)
    BY <1>1 DEF CapExact, ThreadExact, Shows
  <2>3. Captured(dirs[c].artifact) = RowsOfCall(c)
    BY <2>2, CapturedIsExact DEF RowsOfCall
  <2> HIDE DEF c
  <2>4. thread'[t].pc = "ok" /\ thread'[t].call = c /\ thread'[t].result = RowsOfCall(c)
    BY <2>1, <2>3 DEF ThreadMoves
  <2>5. ThreadExact(t)'
    BY <2>4 DEF ThreadExact
  <2>6. \A s \in Threads \ {t} : ThreadExact(s)'
    BY <1>1, <1>2, <1>3, <2>1, OthersKeep
  <2> QED
    BY <2>5, <2>6 DEF CapExact
<1> QED
  BY <1>4, <1>5 DEF ReadCapture

LEMMA ExactStep == CapOwned /\ CapExact /\ [CapNext]_capVars => CapExact'
<1> SUFFICES ASSUME CapOwned, CapExact, [CapNext]_capVars PROVE CapExact'
  OBVIOUS
<1>1. CASE UNCHANGED capVars
  <2>1. UNCHANGED <<thread, dirs, capture, sampled>>
    BY <1>1 DEF capVars
  <2>2. \A t \in Threads : ThreadExact(t)'
    BY <2>1 DEF CapExact, ThreadExact, Outputs
  <2> QED
    BY <2>2 DEF CapExact
<1>2. ASSUME NEW t \in Threads, Begin(t) \/ ThreadStep(t) PROVE CapExact'
  <2>1. CASE Begin(t)
    BY <2>1, BeginExact
  <2>2. CASE Install(t)
    BY <2>2, InstallExact
  <2>3. CASE PrepareCapture(t)
    BY <2>3, PrepareExact
  <2>4. CASE RecordRows(t)
    BY <2>4, RecordExact
  <2>5. CASE GenerateFails(t)
    BY <2>5, UnwindExact DEF GenerateFails, Holding
  <2>6. CASE GeneratePanics(t)
    BY <2>6, UnwindExact DEF GeneratePanics, Holding
  <2>7. CASE FinishCapture(t)
    BY <2>7, FinishExact
  <2>8. CASE DropEnvironment(t)
    BY <2>8, DropExact
  <2>9. CASE ReadCapture(t)
    BY <2>9, ReadExact
  <2> QED
    BY <1>2, <2>1, <2>2, <2>3, <2>4, <2>5, <2>6, <2>7, <2>8, <2>9 DEF ThreadStep
<1> QED
  BY <1>1, <1>2 DEF CapNext

LEMMA ExactSafe == CapOwned /\ CapExact => CaptureIsFaithful /\ CompleteCaptureAccepted
<1> SUFFICES ASSUME CapOwned, CapExact PROVE CaptureIsFaithful /\ CompleteCaptureAccepted
  OBVIOUS
<1>1. CaptureIsFaithful
  BY DEF CapExact, ThreadExact, CaptureIsFaithful, RowsOfCall
<1>2. ASSUME NEW t \in Threads, thread[t].pc = "stepping", StillSampling = {}
      PROVE  /\ SelfCheck(ArtifactLines, capture.call, Outputs(capture.call))
             /\ ConsumerAccepts(ArtifactLines, capture.call, Outputs(capture.call))
  <2>1. SpoolsExact(capture.call, capture.spools, sampled)
    BY <1>2 DEF CapExact, ThreadExact
  <2>2. /\ FullSpools(capture.call, capture.spools, Outputs(capture.call))
        /\ OutputsOf(capture.call, Outputs(capture.call))
    BY <1>2, <2>1, FinishedSpools
  <2>3. WholeArtifact(ArtifactLines, capture.call, Outputs(capture.call))
    BY <2>2, ArtifactShows
  <2> QED
    BY <2>2, <2>3, SelfAccepts, ParserAccepts
<1> QED
  BY <1>1, <1>2 DEF CompleteCaptureAccepted
-----------------------------------------------------------------------------
(* The drivers together.                                                   *)

DiagInv == CapOwned /\ CapExact /\ TelInv /\ FixInv /\ IsoInv

(* The invariant of the drivers: one of them steps, the others rest.       *)
THEOREM DiagInvariant == DiagSpec => []DiagInv
<1>1. DiagInit => DiagInv
  BY CapOwnedInit, ExactInit, TelInvInit, FixInvInit, IsoInvInit DEF DiagInit, DiagInv
<1>2. DiagInv /\ [DiagNext]_diagVars => DiagInv'
  <2>1. DiagNext \/ UNCHANGED diagVars => /\ [CapNext]_capVars /\ [TelNext]_telVars
                                          /\ [FixNext]_fixVars /\ [IsoNext]_isoVars
    BY DEF DiagNext, diagVars
  <2> QED
    BY <2>1, CapOwnedStep, ExactStep, TelInvStep, FixInvStep, IsoInvStep DEF DiagInv
<1> QED
  BY <1>1, <1>2, PTL DEF DiagSpec

(* The environment variables, through which a driver speaks to generate,   *)
(* and the workspaces belong to one call at a time and are left clean by   *)
(* every exit (capture_cuda_f32, its guards; run_behavior, run_operators). *)
THEOREM DiagCallsDoNotLeak == DiagSpec => []CallsDoNotLeak
<1>1. DiagInv => CallsDoNotLeak
  BY CapOwnedSafe, IsoInvSafe DEF DiagInv, CallsDoNotLeak
<1> QED
  BY <1>1, DiagInvariant, PTL

(* What a driver publishes is whole, even when a write fails, a step fails *)
(* or the process is killed (Session::finish of the telemetry,             *)
(* ReplaySession::finish, publish).                                        *)
THEOREM DiagEvidenceIsWhole == DiagSpec => []EvidenceIsWhole
<1>1. TelInv => FailureLeavesNothing
  BY DEF TelInv, FailureLeavesNothing
<1>2. DiagInv => EvidenceIsWhole
  BY <1>1, FixInvSafe DEF DiagInv, IsoInv, EvidenceIsWhole
<1> QED
  BY <1>2, DiagInvariant, PTL

(* A replay sees the frozen history in every row, whatever the model       *)
(* predicts and however the engine chunks, batches, caches and preempts; a *)
(* control run sees free generation; and a trace sees every executed token *)
(* once (record_and_advance, LayerTrace::begin_values).                    *)
THEOREM DiagReplayIsExact == DiagSpec => []ReplayIsExact
<1>1. DiagInv => ReplayIsExact
  BY FixInvSafe DEF DiagInv, ReplayIsExact
<1> QED
  BY <1>1, DiagInvariant, PTL

(* A capture returns exactly the rows its own call sampled, and is never   *)
(* refused once all requests finished: the request-major artifact passes   *)
(* the producer's check and the consumer's parser, whatever the engine's   *)
(* interleaving (record_host_rows, finish, read_and_validate_capture).     *)
THEOREM DiagCaptureIsExact == DiagSpec => []CaptureIsExact
<1>1. DiagInv => CaptureIsExact
  BY ExactSafe DEF DiagInv, CaptureIsExact
<1> QED
  BY <1>1, DiagInvariant, PTL
=============================================================================
