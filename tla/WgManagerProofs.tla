-------------------------- MODULE WgManagerProofs --------------------------
(* Theorems about WgManager, for every set of hosts and tasks and for every *)
(* size of the generation.                                                  *)
EXTENDS WgManager, TLAPS

-----------------------------------------------------------------------------
(* Typing, in every regime. *)

(* A task that has lookups left to make has not made all of them. *)
RetryInv == \A t \in Task :
  pcd[t] \in {"dead", "try", "lookup", "again"} => retry[t] < Attempts
Typed == TypeOK /\ RetryInv

(* What the assumption about the numbers is used for. *)
LEMMA Numbers == /\ GenMod \in Nat /\ GenMod > 1
                 /\ Attempts \in Nat /\ Attempts >= 1
                 /\ BackoffCap \in Nat /\ BackoffCap >= 1
                 /\ Cap \in Nat /\ Cap >= BackoffCap
  BY NumberAssumption DEF Cap

(* The configuration wg_load reads and the static initialisers are typed.  *)
LEMMA TypeInit == Init => Typed
  <1> SUFFICES ASSUME Init PROVE Typed
    OBVIOUS
  <1>1. /\ s_wasUp \in BOOLEAN /\ initialized \in BOOLEAN /\ peerUp \in BOOLEAN
        /\ s_dnsDone \in BOOLEAN /\ s_dnsFailed \in BOOLEAN /\ settled \in BOOLEAN
        /\ success \in [Task -> BOOLEAN]
    BY Zenon DEF Init
  <1> QED
    BY <1>1, Numbers DEF Init, Typed, RetryInv, TypeOK, LoopLabel, TaskLabel,
       Cancelling, Publishing,
                          Op, State

(* The loop's steps keep the types. *)
LEMMA TypeLoop == Typed /\ Loop => Typed'
  <1> SUFFICES ASSUME Typed, Loop PROVE Typed'
    OBVIOUS
  <1> USE Numbers DEF Typed, RetryInv, TypeOK, LoopLabel, TaskLabel, Cancelling,
              Publishing, Op, TickOp, State, goto, Pass, Start, loopVars, configVars,
              pacingVars, stateVars, tunnelVars, resultVars, handleVars, taskVars,
              managerVars, dnsVars
  <1>1. CASE TickDisabled
    BY <1>1 DEF TickDisabled
  <1>2. CASE TickNoTime
    <2>1. CASE s_state = "WAIT_TIME"
      BY <1>2, <2>1 DEF TickNoTime
    <2>2. CASE s_state # "WAIT_TIME"
      BY <1>2, <2>2 DEF TickNoTime
    <2> QED
      BY <2>1, <2>2
  <1>3. CASE TickNoWifi
    BY <1>3 DEF TickNoWifi
  <1>4. CASE TickConnect
    BY <1>4 DEF TickConnect
  <1>5. CASE TickLook
    BY <1>5 DEF TickLook
  <1>6. CASE TickUp
    BY <1>6 DEF TickUp
  <1>7. CASE TickDown
    <2>1. s_wasUp' \in BOOLEAN
      BY <1>7, Zenon DEF TickDown
    <2> QED
      BY <1>7, <2>1 DEF TickDown
  <1>8. CASE BeginNot
    BY <1>8 DEF BeginNot
  <1>9. CASE BeginTake
    <2>1. s_dnsDone' \in BOOLEAN /\ s_dnsFailed' \in BOOLEAN /\ initialized' \in BOOLEAN /\ peerUp' \in BOOLEAN
      BY <1>9, Zenon DEF BeginTake, ClearResult, longer
    <2> QED
      BY <1>9, <2>1 DEF BeginTake, ClearResult, longer
  <1>10. CASE BeginResolve
    BY <1>10 DEF BeginResolve, bumped, live
  <1>11. CASE Outer
    BY <1>11 DEF Outer, AfterCancel
  <1>12. CASE Cancel
    <2>1. s_dnsDone' \in BOOLEAN /\ s_dnsFailed' \in BOOLEAN
      BY <1>12, Zenon DEF Cancel, CancelTest, CancelBump, AfterCancel, ClearResult, bumped
    <2> QED
      BY <1>12, <2>1 DEF Cancel, CancelTest, CancelBump, AfterCancel, ClearResult, bumped
  <1>13. CASE StopCancel
    <2>1. s_dnsDone' \in BOOLEAN /\ s_dnsFailed' \in BOOLEAN
      BY <1>13, Zenon DEF StopCancel, CancelTest, CancelBump, ClearResult, bumped
    <2> QED
      BY <1>13, <2>1 DEF StopCancel, CancelTest, CancelBump, ClearResult, bumped
  <1>14. CASE StopEnd
    <2>1. initialized' \in BOOLEAN /\ peerUp' \in BOOLEAN /\ s_wasUp' \in BOOLEAN
      BY <1>14, Zenon DEF StopEnd, TearDown
    <2> QED
      BY <1>14, <2>1 DEF StopEnd, TearDown
  <1>15. CASE FinishPlain
    BY <1>15 DEF FinishPlain, Finish
  <1>16. CASE FinishWifi
    BY <1>16 DEF FinishWifi, Finish
  <1>17. CASE FinishAgain
    BY <1>17 DEF FinishAgain, Finish, longer
  <1>18. CASE FinishOn
    BY <1>18 DEF FinishOn, Finish
  <1>19. CASE FinishClear
    <2>1. /\ initialized' \in BOOLEAN /\ peerUp' \in BOOLEAN /\ s_wasUp' \in BOOLEAN
          /\ s_enabled' \in BOOLEAN /\ restGiven' \in BOOLEAN /\ addressValid' \in BOOLEAN
      BY <1>19, Zenon DEF FinishClear, ClearConfig, TearDown
    <2> QED
      BY <1>19, <2>1 DEF FinishClear, ClearConfig, TearDown
  <1>20. CASE NoRequest
    BY <1>20 DEF NoRequest
  <1> QED
    BY <1>1, <1>2, <1>3, <1>4, <1>5, <1>6, <1>7, <1>8, <1>9, <1>10, <1>11, <1>12,
       <1>13, <1>14, <1>15, <1>16, <1>17, <1>18, <1>19, <1>20 DEF Loop

(* So do the requests, which assign and go on, and a reset. *)
LEMMA TypeRequests == Typed /\ (Requests \/ Reboot) => Typed'
  <1> SUFFICES ASSUME Typed, Requests \/ Reboot PROVE Typed'
    OBVIOUS
  <1> USE Numbers DEF Typed, RetryInv, TypeOK, LoopLabel, TaskLabel, Cancelling,
              Publishing, Op, State, Request, Start, goto, configVars, pacingVars,
              stateVars, tunnelVars, resultVars, handleVars, taskVars, dnsVars
  <1>1. CASE wg_setEnabled
    <2>1. s_enabled' \in BOOLEAN
      BY <1>1, Zenon DEF wg_setEnabled
    <2> QED
      BY <1>1, <2>1 DEF wg_setEnabled
  <1>2. CASE wg_setEndpoint
    BY <1>2 DEF wg_setEndpoint
  <1>3. CASE wg_setTunnelAddress
    <2>1. restGiven' \in BOOLEAN
      BY <1>3, Zenon DEF wg_setTunnelAddress
    <2> QED
      BY <1>3, <2>1 DEF wg_setTunnelAddress
  <1>4. CASE wg_setKey
    <2>1. restGiven' \in BOOLEAN
      BY <1>4, Zenon DEF wg_setKey
    <2> QED
      BY <1>4, <2>1 DEF wg_setKey
  <1>7. CASE wg_setKeepalive
    BY <1>7 DEF wg_setKeepalive
  <1>5. CASE resetToDefaultSettings
    BY <1>5 DEF resetToDefaultSettings
  <1>6. CASE Reboot
    <2>1. /\ s_wasUp' \in BOOLEAN /\ initialized' \in BOOLEAN /\ peerUp' \in BOOLEAN
          /\ s_dnsDone' \in BOOLEAN /\ s_dnsFailed' \in BOOLEAN /\ settled' \in BOOLEAN
          /\ success' \in [Task -> BOOLEAN]
      BY <1>6, Zenon DEF Reboot, TearDown, ClearResult
    <2>2. s_enabled' \in BOOLEAN /\ restGiven' \in BOOLEAN /\ addressValid' \in BOOLEAN
      BY <1>6, Zenon DEF Reboot, ClearConfig
    <2>3. s_endpointHost' \in Host \cup {NoHost}
      BY <1>6 DEF Reboot, ClearConfig
    <2> QED
      BY <1>6, <2>1, <2>2, <2>3 DEF Reboot, TearDown, ClearResult
  <1> QED
    BY <1>1, <1>2, <1>3, <1>4, <1>5, <1>6, <1>7 DEF Requests

(* So do the steps of a task, and those of the world outside. *)
LEMMA TypeTask == \A t \in Task : Typed /\ DnsTask(t) => Typed'
  <1> SUFFICES ASSUME NEW t \in Task, Typed, DnsTask(t) PROVE Typed'
    OBVIOUS
  <1> USE Numbers DEF Typed, RetryInv, TypeOK, TaskLabel, Publishing, Local, At,
              current, loopVars, configVars, pacingVars, stateVars, tunnelVars,
              resultVars, handleVars, managerVars
  <1>1. CASE TaskTry(t)
    BY <1>1 DEF TaskTry
  <1>2. CASE TaskAsk(t)
    BY <1>2 DEF TaskAsk
  <1>3. CASE TaskAnswer(t)
    <2>1. CASE asked[t] # NoHost /\ success' = [success EXCEPT ![t] = TRUE] /\ UNCHANGED <<pcd, retry>>
      <3>1. success' \in [Task -> BOOLEAN]
        BY <2>1
      <3> QED
        BY <1>3, <2>1, <3>1 DEF TaskAnswer
    <2>2. CASE retry' = [retry EXCEPT ![t] = @ + 1] /\ UNCHANGED
       <<s_resolvedEndpointIP, success>>
      BY <1>3, <2>2 DEF TaskAnswer
    <2> QED
      BY <1>3, <2>1, <2>2 DEF TaskAnswer
  <1>4. CASE TaskRecheck(t)
    BY <1>4 DEF TaskRecheck
  <1>5. CASE TaskPublish(t)
    BY <1>5 DEF TaskPublish
  <1>6. CASE TaskDone(t)
    BY <1>6 DEF TaskDone
  <1>7. CASE TaskFailed(t)
    <2>1. s_dnsFailed' \in BOOLEAN
      BY <1>7, Zenon DEF TaskFailed
    <2> QED
      BY <1>7, <2>1 DEF TaskFailed
  <1>8. CASE TaskClear(t)
    <2>1. success' \in [Task -> BOOLEAN]
      BY <1>8, Zenon DEF TaskClear
    <2> QED
      BY <1>8, <2>1 DEF TaskClear
  <1> QED
    BY <1>1, <1>2, <1>3, <1>4, <1>5, <1>6, <1>7, <1>8 DEF DnsTask

(* The peer, the clock and the end of outages: outside the manager.        *)
World == PeerAnswers \/ PeerLost \/ Clock \/ Settle
LEMMA TypeWorld == Typed /\ World => Typed'
  <1> SUFFICES ASSUME Typed, World PROVE Typed'
    OBVIOUS
  <1> USE Numbers DEF Typed, RetryInv, TypeOK, outside, loopVars, configVars,
              stateVars, tunnelVars, pacingVars, managerVars, dnsVars, resultVars,
              handleVars, taskVars
  <1>1. CASE PeerAnswers
    BY <1>1 DEF PeerAnswers
  <1>2. CASE PeerLost
    <2>1. peerUp' \in BOOLEAN
      BY <1>2, Zenon DEF PeerLost
    <2> QED
      BY <1>2, <2>1 DEF PeerLost
  <1>3. CASE Clock
    BY <1>3 DEF Clock
  <1>4. CASE Settle
    BY <1>4 DEF Settle
  <1> QED
    BY <1>1, <1>2, <1>3, <1>4 DEF World

(* A step of something else changes nothing. *)
LEMMA TypeStutter == Typed /\ UNCHANGED vars => Typed'
  BY DEF Typed, RetryInv, TypeOK, vars, loopVars, managerVars, configVars, pacingVars,
     stateVars, tunnelVars, dnsVars, resultVars, handleVars, taskVars

(* Every variable keeps its type, in every regime. *)
THEOREM TypeCorrect == Spec => [](TypeOK /\ RetryInv)
  <1>1. Typed /\ [Next]_vars => Typed'
    BY TypeLoop, TypeRequests, TypeTask, TypeWorld, TypeStutter DEF Next, World
  <1> QED
    BY TypeInit, <1>1, PTL DEF Spec, Typed

-----------------------------------------------------------------------------
(* One resolver, quiet tunnels, honest results and orderly operations, in    *)
(* every regime.                                                            *)

(* After boot there is no task, no result and no tunnel. *)
LEMMA ManagerInit == Init => ManagerInv
  BY Numbers, TaskAssumption DEF Init, ManagerInv, OneResolver, QuietTunnel,
     SuccessHasAddress, ResultInv, OperationInv, TickOp, live

(* wg_tick, wg_begin, _cancelDNS and wg_stop keep the manager's invariant. *)
LEMMA ManagerLoop == Typed /\ ManagerInv /\ Loop => ManagerInv'
  <1> SUFFICES ASSUME Typed, ManagerInv, Loop PROVE ManagerInv'
    OBVIOUS
  <1> USE TaskAssumption DEF Typed, TypeOK, RetryInv, ManagerInv, OneResolver,
              QuietTunnel, SuccessHasAddress, ResultInv, OperationInv, Stopping, live,
              TickOp, Op, State, TaskLabel, Publishing, goto, Pass, Start, loopVars,
              configVars, pacingVars, stateVars, tunnelVars, resultVars, handleVars,
              taskVars, managerVars, dnsVars
  <1>1. CASE TickDisabled
    BY <1>1 DEF TickDisabled
  <1>2. CASE TickNoTime
    BY <1>2 DEF TickNoTime
  <1>3. CASE TickNoWifi
    BY <1>3 DEF TickNoWifi
  <1>4. CASE TickConnect
    BY <1>4 DEF TickConnect
  <1>5. CASE TickLook
    BY <1>5 DEF TickLook
  <1>6. CASE TickUp
    BY <1>6 DEF TickUp
  <1>7. CASE TickDown
    BY <1>7 DEF TickDown
  <1>8. CASE BeginNot
    BY <1>8 DEF BeginNot
  <1>9. CASE BeginTake
    BY <1>9 DEF BeginTake, ClearResult, longer
  <1>10. CASE BeginResolve
    BY <1>10 DEF BeginResolve
  <1>11. CASE Outer
    BY <1>11 DEF Outer, AfterCancel
  <1>12. CASE Cancel
    BY <1>12 DEF Cancel, CancelTest, CancelBump, AfterCancel, ClearResult
  <1>13. CASE StopCancel
    BY <1>13 DEF StopCancel, CancelTest, CancelBump, ClearResult
  <1>14. CASE StopEnd
    BY <1>14 DEF StopEnd, TearDown
  <1>15. CASE FinishPlain
    BY <1>15 DEF FinishPlain, Finish
  <1>16. CASE FinishWifi
    BY <1>16 DEF FinishWifi, Finish
  <1>17. CASE FinishAgain
    BY <1>17 DEF FinishAgain, Finish
  <1>18. CASE FinishOn
    BY <1>18 DEF FinishOn, Finish
  <1>19. CASE FinishClear
    BY <1>19 DEF FinishClear, ClearConfig, TearDown
  <1>20. CASE NoRequest
    BY <1>20 DEF NoRequest
  <1> QED
    BY <1>1, <1>2, <1>3, <1>4, <1>5, <1>6, <1>7, <1>8, <1>9, <1>10, <1>11, <1>12,
       <1>13, <1>14, <1>15, <1>16, <1>17, <1>18, <1>19, <1>20 DEF Loop

(* Setters only assign before they cancel; a reset starts from nothing. *)
LEMMA ManagerRequests == Typed /\ ManagerInv /\ (Requests \/ Reboot) => ManagerInv'
  <1> SUFFICES ASSUME Typed, ManagerInv, Requests \/ Reboot PROVE ManagerInv'
    OBVIOUS
  <1> USE TaskAssumption DEF Typed, TypeOK, RetryInv, ManagerInv, OneResolver,
              QuietTunnel, SuccessHasAddress, ResultInv, OperationInv, Stopping, live,
              TickOp, Op, State, TaskLabel, Publishing, goto, Request, Start,
              configVars, pacingVars, stateVars, tunnelVars, resultVars, handleVars,
              taskVars, dnsVars
  <1>1. CASE wg_setEnabled
    BY <1>1, Numbers DEF wg_setEnabled
  <1>2. CASE wg_setEndpoint
    BY <1>2, Numbers DEF wg_setEndpoint
  <1>3. CASE wg_setTunnelAddress
    BY <1>3, Numbers DEF wg_setTunnelAddress
  <1>4. CASE wg_setKey
    BY <1>4, Numbers DEF wg_setKey
  <1>7. CASE wg_setKeepalive
    BY <1>7, Numbers DEF wg_setKeepalive
  <1>5. CASE resetToDefaultSettings
    BY <1>5, Numbers DEF resetToDefaultSettings
  <1>6. CASE Reboot
    BY <1>6, Numbers DEF Reboot, TearDown, ClearResult, ClearConfig
  <1> QED
    BY <1>1, <1>2, <1>3, <1>4, <1>5, <1>6, <1>7 DEF Requests

(* The task sets done and failed before it clears the handle. *)
LEMMA ManagerTask == \A t \in Task : Typed /\ ManagerInv /\ DnsTask(t) => ManagerInv'
  <1> SUFFICES ASSUME NEW t \in Task, Typed, ManagerInv, DnsTask(t) PROVE ManagerInv'
    OBVIOUS
  <1> USE Numbers, TaskAssumption DEF Typed, TypeOK, RetryInv, ManagerInv, OneResolver,
              QuietTunnel, SuccessHasAddress, ResultInv, OperationInv, Stopping, live,
              TaskLabel, Publishing, At, Local, loopVars, configVars, pacingVars,
              stateVars, tunnelVars, resultVars, handleVars, managerVars
  <1>1. CASE TaskTry(t)
    BY <1>1 DEF TaskTry
  <1>2. CASE TaskAsk(t)
    BY <1>2 DEF TaskAsk
  <1>3. CASE TaskAnswer(t)
    BY <1>3 DEF TaskAnswer
  <1>4. CASE TaskRecheck(t)
    BY <1>4 DEF TaskRecheck
  <1>5. CASE TaskPublish(t)
    BY <1>5 DEF TaskPublish
  <1>6. CASE TaskDone(t)
    BY <1>6 DEF TaskDone
  <1>7. CASE TaskFailed(t)
    BY <1>7 DEF TaskFailed
  <1>8. CASE TaskClear(t)
    BY <1>8 DEF TaskClear
  <1> QED
    BY <1>1, <1>2, <1>3, <1>4, <1>5, <1>6, <1>7, <1>8 DEF DnsTask

(* Neither the peer nor time touches what the invariant speaks of. *)
LEMMA ManagerWorld == ManagerInv /\ (World \/ UNCHANGED vars) => ManagerInv'
  BY DEF ManagerInv, OneResolver, QuietTunnel, SuccessHasAddress, ResultInv,
     OperationInv, Stopping, live,
         World, PeerAnswers, PeerLost, Clock, Settle, outside, vars, loopVars,
            managerVars, configVars,
         pacingVars, stateVars, tunnelVars, dnsVars, resultVars, handleVars, taskVars

(* Every step of the specification keeps the invariant. *)
LEMMA ManagerStep == Typed /\ ManagerInv /\ [Next]_vars => ManagerInv'
  BY ManagerLoop, ManagerRequests, ManagerTask, ManagerWorld DEF Next, World

(* The manager's invariant: one resolver at a time, in every regime.  From  *)
(* it follow the named parts and that a tunnel that is off is down.         *)
THEOREM ManagerCorrect == Spec => []ManagerInv
  <1>1. Typed /\ ManagerInv /\ [Next]_vars => ManagerInv'
    BY ManagerStep
  <1>2. Spec => []Typed
    BY TypeCorrect DEF Typed
  <1> QED
    BY ManagerInit, <1>1, <1>2, PTL DEF Spec

(* A task is created only once the one before it has cleared the handle.    *)
THEOREM OneResolverAlways == Spec => []OneResolver
  <1>1. ManagerInv => OneResolver
    BY DEF ManagerInv
  <1> QED
    BY ManagerCorrect, <1>1, PTL

(* Nobody resolves, and no result waits, while the tunnel exists.           *)
THEOREM QuietTunnelAlways == Spec => []QuietTunnel
  <1>1. ManagerInv => QuietTunnel
    BY DEF ManagerInv
  <1> QED
    BY ManagerCorrect, <1>1, PTL

(* A failure is never read as a success, although done is set first.        *)
THEOREM SuccessHasAddressAlways == Spec => []SuccessHasAddress
  <1>1. ManagerInv => SuccessHasAddress
    BY DEF ManagerInv
  <1> QED
    BY ManagerCorrect, <1>1, PTL

(* wg_setEnabled(false) takes the tunnel down whatever was under way.       *)
THEOREM OffMeansDownAlways == Spec => []OffMeansDown
  <1>1. ManagerInv => OffMeansDown
    BY DEF ManagerInv, OperationInv, OffMeansDown, Stopping
  <1> QED
    BY ManagerCorrect, <1>1, PTL

-----------------------------------------------------------------------------
(* Fresh results, when no cancellation falls into a task's last steps and   *)
(* no generation comes round while its task lives.                          *)

(* The regime of wg_fresh: neither window nor wrap. *)
Regular == ~Window /\ ~Wraps

(* After boot nothing is resolved. *)
LEMMA FreshInit == Init => FreshInv
  BY DEF Init, FreshInv, Cancelling, Publishing, live, assigned, unbumped, unstopped

(* _cancelDNS finds no task in its last steps, and overtakes every other. *)
LEMMA FreshLoop == Regular /\ Typed /\ ManagerInv /\ FreshInv /\ Loop => FreshInv'
  <1> SUFFICES ASSUME Regular, Typed, ManagerInv, FreshInv, Loop PROVE FreshInv'
    OBVIOUS
  <1> USE TaskAssumption DEF Regular, Typed, TypeOK, RetryInv, ManagerInv, OneResolver,
              QuietTunnel, SuccessHasAddress, ResultInv, OperationInv, FreshInv,
              Cancelling, Stopping, Publishing, TaskLabel, live, current, assigned,
              unbumped, unstopped, TickOp, Op, goto, Pass, Start, loopVars, configVars,
              pacingVars, stateVars, tunnelVars, resultVars, handleVars, taskVars,
              managerVars, dnsVars
  <1>1. CASE TickDisabled
    BY <1>1 DEF TickDisabled
  <1>2. CASE TickNoTime
    BY <1>2 DEF TickNoTime
  <1>3. CASE TickNoWifi
    BY <1>3 DEF TickNoWifi
  <1>4. CASE TickConnect
    BY <1>4 DEF TickConnect
  <1>5. CASE TickLook
    BY <1>5 DEF TickLook
  <1>6. CASE TickUp
    BY <1>6 DEF TickUp
  <1>7. CASE TickDown
    BY <1>7 DEF TickDown
  <1>8. CASE BeginNot
    BY <1>8 DEF BeginNot
  <1>9. CASE BeginTake
    BY <1>9 DEF BeginTake, ClearResult
  <1>10. CASE BeginResolve
    BY <1>10 DEF BeginResolve, bumped
  <1>11. CASE Outer
    BY <1>11 DEF Outer, AfterCancel
  <1>12. CASE Cancel
    BY <1>12 DEF Cancel, CancelTest, CancelBump, AfterCancel, ClearResult, MayCancel,
       MayBump
  <1>13. CASE StopCancel
    BY <1>13 DEF StopCancel, CancelTest, CancelBump, ClearResult, MayCancel, MayBump
  <1>14. CASE StopEnd
    BY <1>14 DEF StopEnd, TearDown
  <1>15. CASE FinishPlain
    BY <1>15 DEF FinishPlain, Finish
  <1>16. CASE FinishWifi
    BY <1>16 DEF FinishWifi, Finish
  <1>17. CASE FinishAgain
    BY <1>17 DEF FinishAgain, Finish
  <1>18. CASE FinishOn
    BY <1>18 DEF FinishOn, Finish
  <1>19. CASE FinishClear
    BY <1>19 DEF FinishClear, ClearConfig, TearDown
  <1>20. CASE NoRequest
    BY <1>20 DEF NoRequest
  <1> QED
    BY <1>1, <1>2, <1>3, <1>4, <1>5, <1>6, <1>7, <1>8, <1>9, <1>10, <1>11, <1>12,
       <1>13, <1>14, <1>15, <1>16, <1>17, <1>18, <1>19, <1>20 DEF Loop

(* An assignment opens the gap that the cancel it precedes will close. *)
LEMMA FreshRequests == Typed /\ ManagerInv /\ FreshInv /\ (Requests \/ Reboot) => FreshInv'
  <1> SUFFICES ASSUME Typed, ManagerInv, FreshInv, Requests \/ Reboot PROVE FreshInv'
    OBVIOUS
  <1> USE DEF Typed, TypeOK, RetryInv, ManagerInv, OneResolver, QuietTunnel,
              SuccessHasAddress, ResultInv, OperationInv, FreshInv, Cancelling,
              Stopping, Publishing, TaskLabel, live, current, assigned, unbumped,
              unstopped, TickOp, Op, goto, Request, Start, configVars, pacingVars,
              stateVars, tunnelVars, resultVars, handleVars, taskVars, dnsVars
  <1>1. CASE wg_setEnabled
    BY <1>1 DEF wg_setEnabled
  <1>2. CASE wg_setEndpoint
    BY <1>2 DEF wg_setEndpoint
  <1>3. CASE wg_setTunnelAddress
    BY <1>3 DEF wg_setTunnelAddress
  <1>4. CASE wg_setKey
    BY <1>4 DEF wg_setKey
  <1>7. CASE wg_setKeepalive
    BY <1>7 DEF wg_setKeepalive
  <1>5. CASE resetToDefaultSettings
    BY <1>5 DEF resetToDefaultSettings
  <1>6. CASE Reboot
    BY <1>6 DEF Reboot, TearDown, ClearResult, ClearConfig
  <1> QED
    BY <1>1, <1>2, <1>3, <1>4, <1>5, <1>6, <1>7 DEF Requests

(* A task that passes its last test has the configured name's address. *)
LEMMA FreshTask ==
  \A t \in Task : Regular /\ Typed /\ ManagerInv /\ FreshInv /\ DnsTask(t) => FreshInv'
  <1> SUFFICES ASSUME NEW t \in Task, Regular, Typed, ManagerInv, FreshInv, DnsTask(t)
     PROVE FreshInv'
    OBVIOUS
  <1> USE TaskAssumption DEF Regular, Typed, TypeOK, RetryInv, ManagerInv, OneResolver,
              QuietTunnel, SuccessHasAddress, ResultInv, OperationInv, FreshInv,
              Cancelling, Stopping, Publishing, TaskLabel, live, current, assigned,
              unbumped, unstopped, TickOp, Op, goto, At, Local, loopVars, configVars,
              pacingVars, stateVars, tunnelVars, resultVars, handleVars, managerVars
  <1>1. CASE TaskTry(t)
    BY <1>1 DEF TaskTry
  <1>2. CASE TaskAsk(t)
    BY <1>2 DEF TaskAsk
  <1>3. CASE TaskAnswer(t)
    BY <1>3 DEF TaskAnswer
  <1>4. CASE TaskRecheck(t)
    BY <1>4 DEF TaskRecheck
  <1>5. CASE TaskPublish(t)
    BY <1>5 DEF TaskPublish, MayPublish
  <1>6. CASE TaskDone(t)
    BY <1>6 DEF TaskDone
  <1>7. CASE TaskFailed(t)
    BY <1>7 DEF TaskFailed
  <1>8. CASE TaskClear(t)
    BY <1>8 DEF TaskClear
  <1> QED
    BY <1>1, <1>2, <1>3, <1>4, <1>5, <1>6, <1>7, <1>8 DEF DnsTask

(* The world outside resolves nothing. *)
LEMMA FreshWorld == FreshInv /\ (World \/ UNCHANGED vars) => FreshInv'
  BY DEF FreshInv, Cancelling, Publishing, live, current, assigned, unbumped, unstopped,
         World, PeerAnswers, PeerLost, Clock, Settle, outside, vars, loopVars,
            managerVars, configVars,
         pacingVars, stateVars, tunnelVars, dnsVars, resultVars, handleVars, taskVars

(* Every step of the specification keeps results fresh. *)
LEMMA FreshStep == Regular /\ Typed /\ ManagerInv /\ FreshInv /\ [Next]_vars => FreshInv'
  BY FreshLoop, FreshRequests, FreshTask, FreshWorld DEF Next, World

(* No stale result is left to apply: a task that publishes has the current  *)
(* generation and the configured name.                                      *)
THEOREM FreshCorrect == ASSUME Regular PROVE Spec => []FreshInv
  <1>1. Typed /\ ManagerInv /\ FreshInv /\ [Next]_vars => FreshInv'
    BY FreshStep
  <1>2. Spec => []Typed
    BY TypeCorrect DEF Typed
  <1> QED
    BY FreshInit, <1>1, <1>2, ManagerCorrect, PTL DEF Spec

(* Between handlers the tunnel leads to the configured endpoint.            *)
THEOREM TunnelMatchesAlways == ASSUME Regular PROVE Spec => []TunnelMatches
  <1>1. FreshInv => TunnelMatches
    BY DEF FreshInv, TunnelMatches, unstopped, Stopping
  <1> QED
    BY FreshCorrect, <1>1, PTL

=============================================================================
