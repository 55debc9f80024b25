-------------------------- MODULE SelfUpdateProofs --------------------------
(***************************************************************************)
(* For any number of releases and faults: the link never leads to part of  *)
(* a release that was not spoiled by an error, and the flag of a request   *)
(* is exactly up while there is one.                                       *)
(***************************************************************************)
EXTENDS SelfUpdate, TLAPS

(* At most one request is under way, in one place.                         *)
OneRequest ==
    /\ sending # None => requests = None /\ ~(pc # "select" /\ manual)
    /\ requests # None => ~(pc # "select" /\ manual)
    /\ running = None => sending = None /\ requests = None

(* Part of a release is being moved, was spoiled, or is behind a lock that *)
(* nobody holds, and so out of every script's reach.                       *)
Remnants ==
    \A v \in Versions : release[v] \in {"part", "seems"} =>
        v \in spoiled \/ (pc = "moving" /\ target = v) \/ Stale

(* What the script is about to do to its target.                           *)
Target ==
    /\ pc \in {"clear", "move", "moving"} /\ current = target => target \in spoiled
    /\ pc \in {"unlink", "link"} => release[target] = "whole" \/ target \in spoiled

Runtime == CurrentWhole /\ Remnants /\ Target
Asking  == PendingExactly /\ OneRequest
IInv    == TypeOK /\ Runtime /\ Asking

USE DEF None, Optional, Holding, PCs, Ends, Fault, Script, Exits, Run,
        world, runtime, asking

(* The image's release is whole, and nothing is asked for.                 *)
LEMMA InitIInv == Init => IInv
<1> SUFFICES ASSUME Init PROVE IInv
  OBVIOUS
<1>1. TypeOK
  <2>1. faults \in 0..MaxFaults
    BY MaxFaultsAssumption DEF Init
  <2> QED
    BY <2>1 DEF Init, TypeOK
<1>2. Runtime
  BY DEF Init, Runtime, CurrentWhole, Remnants, Target
<1>3. Asking
  BY DEF Init, Asking, PendingExactly, OneRequest
<1> QED
  BY <1>1, <1>2, <1>3 DEF IInv

(* Types, action by action.                                                *)
LEMMA TypeStep == TypeOK /\ Asking /\ [Next]_vars => TypeOK'
<1> SUFFICES ASSUME TypeOK, Asking, [Next]_vars PROVE TypeOK'
  OBVIOUS
<1> USE VersionsAssumption, ImageAssumption, MaxFaultsAssumption DEF TypeOK
<1>1. CASE Publish
  BY <1>1 DEF Publish
<1>2. CASE SetAuto
  BY <1>2 DEF SetAuto
<1>3. CASE Crash
  <2>1. faults' \in 0..MaxFaults
    BY <1>3 DEF Crash
  <2> QED
    BY <1>3, <2>1 DEF Crash
<1>4. CASE StartCurrent
  BY <1>4 DEF StartCurrent, Runs
<1>5. CASE Seed
  BY <1>5 DEF Seed, Lacks
<1>6. ASSUME NEW v \in Versions, Ask(v) PROVE TypeOK'
  BY <1>6 DEF Ask
<1>7. CASE Send
  BY <1>7 DEF Send
<1>8. CASE Fire
  BY <1>8 DEF Fire
<1>9. CASE Receive
  BY <1>9 DEF Receive, Asking, OneRequest
<1>10. CASE Tick
  <2>1. CASE auto
    BY <1>10, <2>1 DEF Tick
  <2>2. CASE ~auto
    BY <1>10, <2>2 DEF Tick
  <2> QED
    BY <2>1, <2>2
<1>11. CASE Restarts
  BY <1>11 DEF Restarts
<1>12. CASE Returns
  BY <1>12 DEF Returns
<1>13. CASE Lock
  BY <1>13 DEF Lock
<1>14. CASE AlreadyRunning
  BY <1>14 DEF AlreadyRunning
<1>15. CASE Resolve
  BY <1>15 DEF Resolve
<1>16. CASE AlreadyCurrent
  BY <1>16 DEF AlreadyCurrent, Runs
<1>17. CASE Reuse
  BY <1>17 DEF Reuse, Other, Present, Lacks
<1>18. CASE Download
  BY <1>18 DEF Download, Other, Present, Lacks
<1>19. CASE Clear
  BY <1>19 DEF Clear
<1>20. CASE Move
  BY <1>20 DEF Move
<1>21. CASE MovesOn
  BY <1>21 DEF MovesOn
<1>22. CASE Moved
  BY <1>22 DEF Moved
<1>23. CASE MoveFails
  BY <1>23 DEF MoveFails
<1>24. CASE Unlink
  BY <1>24 DEF Unlink
<1>25. CASE Link
  BY <1>25 DEF Link
<1>26. CASE Fails
  BY <1>26 DEF Fails
<1>27. CASE Unlock
  <2>1. running # None
    BY <1>27 DEF Unlock
  <2>2. /\ lock' = FALSE /\ pc' = "exit"
        /\ UNCHANGED <<published, auto, release, spoiled, current, running>>
        /\ UNCHANGED <<pending, sending, requests, timer, manual, target, code, log, faults>>
    BY <1>27 DEF Unlock
  <2>3. pc' \in PCs /\ pc' \notin Holding
    BY <2>2
  <2>4. lock' \in BOOLEAN
    BY <2>2
  <2> HIDE DEF PCs, Holding
  <2> QED
    BY <2>1, <2>2, <2>3, <2>4
<1>28. CASE Timeout
  BY <1>28 DEF Timeout
<1>29. CASE UNCHANGED vars
  BY <1>29 DEF vars
<1> QED
  BY <1>1, <1>2, <1>3, <1>4, <1>5, <1>6, <1>7, <1>8, <1>9, <1>10, <1>11,
     <1>12, <1>13, <1>14, <1>15, <1>16, <1>17, <1>18, <1>19, <1>20, <1>21,
     <1>22, <1>23, <1>24, <1>25, <1>26, <1>27, <1>28, <1>29
     DEF Next, ScriptStep

(* A request goes from the flag to the channel, the loop and the script,   *)
(* and is in one place at a time.                                          *)
LEMMA AskingStep == TypeOK /\ Asking /\ [Next]_vars => Asking'
<1> SUFFICES ASSUME TypeOK /\ Asking, [Next]_vars PROVE Asking'
  OBVIOUS
<1> USE VersionsAssumption, ImageAssumption, MaxFaultsAssumption
    DEF TypeOK, Asking, PendingExactly, OneRequest
<1>1. CASE Publish
  BY <1>1 DEF Publish
<1>2. CASE SetAuto
  BY <1>2 DEF SetAuto
<1>3. CASE Crash
  BY <1>3 DEF Crash
<1>4. CASE StartCurrent
  BY <1>4 DEF StartCurrent, Runs
<1>5. CASE Seed
  BY <1>5 DEF Seed, Lacks
<1>6. ASSUME NEW v \in Versions, Ask(v) PROVE Asking'
  BY <1>6 DEF Ask
<1>7. CASE Send
  BY <1>7 DEF Send
<1>8. CASE Fire
  BY <1>8 DEF Fire
<1>9. CASE Receive
  BY <1>9 DEF Receive
<1>10. CASE Tick
  BY <1>10 DEF Tick
<1>11. CASE Restarts
  BY <1>11 DEF Restarts
<1>12. CASE Returns
  BY <1>12 DEF Returns
<1>13. CASE Lock
  BY <1>13 DEF Lock
<1>14. CASE AlreadyRunning
  BY <1>14 DEF AlreadyRunning
<1>15. CASE Resolve
  BY <1>15 DEF Resolve
<1>16. CASE AlreadyCurrent
  BY <1>16 DEF AlreadyCurrent, Runs
<1>17. CASE Reuse
  BY <1>17 DEF Reuse, Other, Present, Lacks
<1>18. CASE Download
  BY <1>18 DEF Download, Other, Present, Lacks
<1>19. CASE Clear
  BY <1>19 DEF Clear
<1>20. CASE Move
  BY <1>20 DEF Move
<1>21. CASE MovesOn
  BY <1>21 DEF MovesOn
<1>22. CASE Moved
  BY <1>22 DEF Moved
<1>23. CASE MoveFails
  BY <1>23 DEF MoveFails
<1>24. CASE Unlink
  BY <1>24 DEF Unlink
<1>25. CASE Link
  BY <1>25 DEF Link
<1>26. CASE Fails
  BY <1>26 DEF Fails
<1>27. CASE Unlock
  BY <1>27 DEF Unlock
<1>28. CASE Timeout
  BY <1>28 DEF Timeout
<1>29. CASE UNCHANGED vars
  BY <1>29 DEF vars
<1> QED
  BY <1>1, <1>2, <1>3, <1>4, <1>5, <1>6, <1>7, <1>8, <1>9, <1>10, <1>11,
     <1>12, <1>13, <1>14, <1>15, <1>16, <1>17, <1>18, <1>19, <1>20, <1>21,
     <1>22, <1>23, <1>24, <1>25, <1>26, <1>27, <1>28, <1>29
     DEF Next, ScriptStep

(* Only the holder of the lock touches the volume, and it moves the link   *)
(* last.                                                                   *)
LEMMA RuntimeStep == TypeOK /\ Runtime /\ [Next]_vars => Runtime'
<1> SUFFICES ASSUME TypeOK /\ Runtime, [Next]_vars PROVE Runtime'
  OBVIOUS
<1> USE VersionsAssumption, ImageAssumption, MaxFaultsAssumption
    DEF TypeOK, Runtime, CurrentWhole, Remnants, Target, Stale
<1>1. CASE Publish
  BY <1>1 DEF Publish
<1>2. CASE SetAuto
  BY <1>2 DEF SetAuto
<1>3. CASE Crash
  BY <1>3 DEF Crash
<1>4. CASE StartCurrent
  BY <1>4 DEF StartCurrent, Runs
<1>5. CASE Seed
  BY <1>5 DEF Seed, Lacks
<1>6. ASSUME NEW v \in Versions, Ask(v) PROVE Runtime'
  BY <1>6 DEF Ask
<1>7. CASE Send
  BY <1>7 DEF Send
<1>8. CASE Fire
  BY <1>8 DEF Fire
<1>9. CASE Receive
  BY <1>9 DEF Receive
<1>10. CASE Tick
  BY <1>10 DEF Tick
<1>11. CASE Restarts
  BY <1>11 DEF Restarts
<1>12. CASE Returns
  BY <1>12 DEF Returns
<1>13. CASE Lock
  BY <1>13 DEF Lock
<1>14. CASE AlreadyRunning
  BY <1>14 DEF AlreadyRunning
<1>15. CASE Resolve
  BY <1>15 DEF Resolve
<1>16. CASE AlreadyCurrent
  BY <1>16 DEF AlreadyCurrent, Runs
<1>17. CASE Reuse
  BY <1>17 DEF Reuse, Other, Present, Lacks
<1>18. CASE Download
  BY <1>18 DEF Download, Other, Present, Lacks
<1>19. CASE Clear
  BY <1>19 DEF Clear
<1>20. CASE Move
  BY <1>20 DEF Move
<1>21. CASE MovesOn
  BY <1>21 DEF MovesOn
<1>22. CASE Moved
  BY <1>22 DEF Moved
<1>23. CASE MoveFails
  BY <1>23 DEF MoveFails
<1>24. CASE Unlink
  BY <1>24 DEF Unlink
<1>25. CASE Link
  BY <1>25 DEF Link
<1>26. CASE Fails
  BY <1>26 DEF Fails
<1>27. CASE Unlock
  BY <1>27 DEF Unlock
<1>28. CASE Timeout
  BY <1>28 DEF Timeout
<1>29. CASE UNCHANGED vars
  BY <1>29 DEF vars
<1> QED
  BY <1>1, <1>2, <1>3, <1>4, <1>5, <1>6, <1>7, <1>8, <1>9, <1>10, <1>11,
     <1>12, <1>13, <1>14, <1>15, <1>16, <1>17, <1>18, <1>19, <1>20, <1>21,
     <1>22, <1>23, <1>24, <1>25, <1>26, <1>27, <1>28, <1>29
     DEF Next, ScriptStep

-----------------------------------------------------------------------------
(* Why a request does not end silently. A request is for a release that    *)
(* the server does not run. The link leads to the release that runs, or    *)
(* the run that changed it is about to restart the server, or was killed   *)
(* and has left its lock; so that a script that gets past the lock finds   *)
(* the link elsewhere than at what was asked for.                          *)
Newer ==
    /\ sending # None => sending > running
    /\ requests # None => requests > running
    /\ pc # "select" /\ manual => target > running
Linked ==
    running # None =>
        \/ current = running
        \/ pc = "link"
        \/ pc \in {"unlock", "exit"} /\ code = 42
        \/ Stale
Heard ==
    pc # "select" /\ manual /\ code = 0 =>
        /\ pc # "unlock"
        /\ pc = "exit" => lock
Loud == Newer /\ Linked /\ Heard

(* A run that changes the link restarts the container or leaves its lock.  *)
LEMMA LoudStep == TypeOK /\ Asking /\ Loud /\ [Next]_vars => Loud'
<1> SUFFICES ASSUME TypeOK, Asking, Loud, [Next]_vars PROVE Loud'
  OBVIOUS
<1> USE VersionsAssumption, ImageAssumption
        DEF TypeOK, Loud, Newer, Linked, Heard, Stale
<1>1. CASE Publish
  BY <1>1 DEF Publish
<1>2. CASE SetAuto
  BY <1>2 DEF SetAuto
<1>3. CASE Crash
  BY <1>3 DEF Crash
<1>4. CASE StartCurrent
  BY <1>4 DEF StartCurrent, Asking, OneRequest
<1>5. CASE Seed
  BY <1>5 DEF Seed, Asking, OneRequest
<1>6. ASSUME NEW v \in Versions, Ask(v) PROVE Loud'
  BY <1>6 DEF Ask
<1>7. CASE Send
  BY <1>7 DEF Send
<1>8. CASE Fire
  BY <1>8 DEF Fire
<1>9. CASE Receive
  BY <1>9 DEF Receive
<1>10. CASE Tick
  BY <1>10 DEF Tick
<1>11. CASE Restarts
  BY <1>11 DEF Restarts
<1>12. CASE Returns
  BY <1>12 DEF Returns
<1>13. CASE Lock
  BY <1>13 DEF Lock
<1>14. CASE AlreadyRunning
  BY <1>14 DEF AlreadyRunning
<1>15. CASE Resolve
  BY <1>15 DEF Resolve
<1>16. CASE AlreadyCurrent
  BY <1>16 DEF AlreadyCurrent
<1>17. CASE Reuse
  BY <1>17 DEF Reuse
<1>18. CASE Download
  BY <1>18 DEF Download
<1>19. CASE Clear
  BY <1>19 DEF Clear
<1>20. CASE Move
  BY <1>20 DEF Move
<1>21. CASE MovesOn
  BY <1>21 DEF MovesOn
<1>22. CASE Moved
  BY <1>22 DEF Moved
<1>23. CASE MoveFails
  BY <1>23 DEF MoveFails
<1>24. CASE Unlink
  BY <1>24 DEF Unlink
<1>25. CASE Link
  BY <1>25 DEF Link
<1>26. CASE Fails
  BY <1>26 DEF Fails
<1>27. CASE Unlock
  BY <1>27 DEF Unlock
<1>28. CASE Timeout
  BY <1>28 DEF Timeout
<1>29. CASE UNCHANGED vars
  BY <1>29 DEF vars
<1> QED
  BY <1>1, <1>2, <1>3, <1>4, <1>5, <1>6, <1>7, <1>8, <1>9, <1>10, <1>11, <1>12, <1>13, <1>14, <1>15, <1>16, <1>17, <1>18, <1>19, <1>20, <1>21, <1>22, <1>23, <1>24, <1>25, <1>26, <1>27, <1>28, <1>29
     DEF Next, ScriptStep

-----------------------------------------------------------------------------
(* Every reachable state satisfies the inductive invariant.                *)
THEOREM Inductive == Spec => []IInv
<1>1. IInv /\ [Next]_vars => IInv'
  BY TypeStep, AskingStep, RuntimeStep DEF IInv
<1> QED
  BY <1>1, InitIInv, PTL DEF Spec

(* Type correctness of the update loop, the script and the runtime volume. *)
THEOREM TypeCorrect == Spec => []TypeOK
<1>1. IInv => TypeOK
  BY DEF IInv
<1> QED
  BY <1>1, Inductive, PTL

(* However often the script or the container dies, runtime/current leads   *)
(* to a whole release, or to one whose copy once failed.                   *)
THEOREM LinkWhole == Spec => []CurrentWhole
<1>1. IInv => CurrentWhole
  BY DEF IInv, Runtime
<1> QED
  BY <1>1, Inductive, PTL

(* updatePending is up exactly while a request is under way.               *)
THEOREM FlagExact == Spec => []PendingExactly
<1>1. IInv => PendingExactly
  BY DEF IInv, Asking
<1> QED
  BY <1>1, Inductive, PTL

(* The send to updateRequests never waits.                                 *)
THEOREM SendFree == Spec => []SendsAtOnce
<1>1. IInv => SendsAtOnce
  BY DEF IInv, Asking, OneRequest, SendsAtOnce
<1> QED
  BY <1>1, Inductive, PTL

(* A request that is accepted ends in a restart or in the update log, or a *)
(* killed script has left its lock.                                        *)
THEOREM EndsLoudly == Spec => NoSilentEnd
<1>1. Init => Loud
  BY DEF Init, Loud, Newer, Linked, Heard
<1>2. ASSUME TypeOK, Asking, Loud, [Next]_vars, pending, ~pending',
             running' # None
      PROVE  log' = "failed" \/ Stale
  <2>1. Returns
    BY <1>2 DEF vars, Next, ScriptStep, Publish, SetAuto, Crash, StartCurrent,
       Seed, Ask, Send, Fire, Receive, Tick, Restarts, Lock, AlreadyRunning,
       Resolve, AlreadyCurrent, Reuse, Download, Clear, Move, MovesOn, Moved,
       MoveFails, Unlink, Link, Fails, Unlock, Timeout
  <2> QED
    BY <1>2, <2>1 DEF Returns, Loud, Heard, Stale, TypeOK
<1>3. IInv => TypeOK /\ Asking
  BY DEF IInv
<1> QED
  BY <1>1, <1>2, <1>3, LoudStep, Inductive, PTL DEF Spec, NoSilentEnd
=============================================================================
