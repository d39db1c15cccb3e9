-------------------------- MODULE VpnLifecycleProofs -------------------------
(***************************************************************************)
(* VpnLifecycle for every number of starts: StopVPN always reaches the run *)
(* that is alive, the status is "connected" exactly while it serves, and   *)
(* the connections of an old listener find it.                             *)
(***************************************************************************)
EXTENDS VpnLifecycle, TLAPS

(* carr and cancelVpn are set and cleared together and name a run whose    *)
(* context is alive.  Between StartVPN's two looks at carr only the main   *)
(* thread could set it: what StartVPN saw before it made the client still  *)
(* holds when it takes the lock again.                                     *)
GlobalsAgree ==
  /\ carr = cancelVpn
  /\ carr # Nil => carr \in Runs /\ run[carr].live
  /\ main = "starting" => carr = Nil

LifecycleInv == TypeOK /\ GlobalsAgree /\ LiveRunIsReachable /\ StatusIsHonest

RunRecord == [at : {"none", "internet", "relay", "serving", "ended"},
              live : BOOLEAN, client : 0..MaxRuns]

(* The variables of the service, the proxy and the dialog have their types. *)
OutsideOK ==
  /\ binding \subseteq Runs /\ listener \in 0..MaxRuns
  /\ calls \subseteq [client : Runs, alive : BOOLEAN]
  /\ queue \in Seq(Messages)
  /\ tun \in BOOLEAN /\ bridge \in BOOLEAN
  /\ permitted \in BOOLEAN /\ dialog \in BOOLEAN

LEMMA TypeParts ==
  TypeOK <=> /\ carr \in 0..started /\ cancelVpn \in 0..started
             /\ started \in 0..MaxRuns
             /\ vpnState \in {"stopped", "checking_internet", "checking_relay", "connected", "failed"}
             /\ run \in [Runs -> RunRecord]
             /\ \A r \in Runs : run[r].at \in {"relay", "serving"} => run[r].client # Nil
             /\ main \in {"idle", "starting", "bridge"}
             /\ OutsideOK
BY DEF TypeOK, RunRecord, OutsideOK

LEMMA InitHolds == Init => LifecycleInv
<1>. SUFFICES ASSUME Init PROVE LifecycleInv
  OBVIOUS
<1>1. Nil \in 0..MaxRuns /\ Nil \in 0..0 /\ 0 \in 0..MaxRuns
  BY VpnAssumption DEF Nil
<1>2. run \in [Runs -> RunRecord]
      /\ \A r \in Runs : run[r].at = "none" /\ ~run[r].live
  BY <1>1 DEF Init, RunRecord
<1>3. queue \in Seq(Messages)
  BY DEF Init
<1>4. OutsideOK
  BY <1>1, <1>3 DEF Init, OutsideOK
<1>5. TypeOK
  BY <1>1, <1>2, <1>4, TypeParts DEF Init
<1>. QED
  BY <1>2, <1>5 DEF Init, LifecycleInv, GlobalsAgree, LiveRunIsReachable, StatusIsHonest

(* Cancelling what cancelVpn names leaves no context alive. *)
LEMMA CancelKillsAll ==
  ASSUME LifecycleInv
  PROVE  /\ Cancel \in [Runs -> RunRecord]
         /\ \A r \in Runs : /\ ~Cancel[r].live
                            /\ Cancel[r].at = run[r].at
                            /\ Cancel[r].client = run[r].client
<1>0. run \in [Runs -> RunRecord] /\ \A r \in Runs : run[r].live => cancelVpn = r
  BY TypeParts DEF LifecycleInv, LiveRunIsReachable
<1>1. CASE cancelVpn = Nil
  BY <1>0, <1>1 DEF Cancel, Runs, Nil
<1>2. CASE cancelVpn # Nil
  <2>1. cancelVpn \in Runs
    BY <1>2 DEF LifecycleInv, GlobalsAgree
  <2>2. Cancel = [run EXCEPT ![cancelVpn].live = FALSE]
    BY <1>2 DEF Cancel
  <2>. QED
    BY <1>0, <2>1, <2>2 DEF RunRecord
<1>. QED
  BY <1>1, <1>2

(* Steps that leave the engine alone. *)
LEMMA EngineStays ==
  ASSUME LifecycleInv, UNCHANGED engine, OutsideOK',
         main' \in {"idle", "bridge"} \/ (main' = "starting" /\ (main = "starting" \/ carr = Nil))
  PROVE  LifecycleInv'
<1>1. UNCHANGED <<carr, cancelVpn, vpnState, run, started>>
  BY DEF engine
<1>2. TypeOK'
  BY <1>1, TypeParts DEF LifecycleInv, TypeOK, OutsideOK
<1>. QED
  BY <1>1, <1>2 DEF LifecycleInv, GlobalsAgree, LiveRunIsReachable, StatusIsHonest

(* Steps after which carr and cancelVpn are cleared, nothing is alive and  *)
(* the status is not "connected".                                          *)
LEMMA NothingAlive ==
  ASSUME LifecycleInv, UNCHANGED <<started, main>>, OutsideOK',
         carr' = Nil, cancelVpn' = Nil, vpnState' \in {"stopped", "failed"},
         run' \in [Runs -> RunRecord],
         \A q \in Runs : /\ ~run'[q].live
                         /\ run'[q].at \in {run[q].at, "ended"}
                         /\ run'[q].client = run[q].client
  PROVE  LifecycleInv'
<1>1. \A q \in Runs : run'[q].at \in {"relay", "serving"} => run'[q].client # Nil
  BY DEF LifecycleInv, TypeOK
<1>2. Nil \in 0..started /\ started \in 0..MaxRuns /\ main \in {"idle", "starting", "bridge"}
  BY DEF LifecycleInv, TypeOK, Nil
<1>3. TypeOK'
  BY <1>1, <1>2, OutsideOK' DEF TypeOK, OutsideOK, RunRecord
<1>. QED
  BY <1>3 DEF LifecycleInv, GlobalsAgree, LiveRunIsReachable, StatusIsHonest

LEMMA StopHolds ==
  ASSUME LifecycleInv, StopVPN, UNCHANGED main, OutsideOK'
  PROVE  LifecycleInv'
<1>1. run' = Cancel /\ cancelVpn' = Nil /\ vpnState' = "stopped" /\ UNCHANGED started
  BY DEF StopVPN
<1>2. carr' = Nil
  BY DEF StopVPN, LifecycleInv, GlobalsAgree
<1>. QED
  BY <1>1, <1>2, CancelKillsAll, NothingAlive

(* A failed check leaves nothing alive either, whoever's run it is. *)
LEMMA GiveUpHolds ==
  ASSUME LifecycleInv, NEW r \in Runs, GiveUp(r)
  PROVE  LifecycleInv'
<1>. DEFINE c == Cancel
<1>1. /\ c \in [Runs -> RunRecord]
      /\ \A q \in Runs : ~c[q].live /\ c[q].at = run[q].at /\ c[q].client = run[q].client
  BY CancelKillsAll
<1>2. run' = [c EXCEPT ![r].at = "ended"]
  BY DEF GiveUp
<1>. HIDE DEF c
<1>3. /\ run' \in [Runs -> RunRecord]
      /\ \A q \in Runs : /\ ~run'[q].live
                         /\ run'[q].at \in {run[q].at, "ended"}
                         /\ run'[q].client = run[q].client
  BY <1>1, <1>2 DEF RunRecord
<1>4. OutsideOK'
  BY DEF LifecycleInv, TypeOK, OutsideOK, GiveUp, service, proxy
<1>. QED
  BY <1>3, <1>4, NothingAlive DEF GiveUp, service

LEMMA LeaveHolds ==
  ASSUME LifecycleInv, NEW r \in Runs, Leave(r)
  PROVE  LifecycleInv'
<1>0. run \in [Runs -> RunRecord]
  BY TypeParts DEF LifecycleInv
<1>1. /\ run' \in [Runs -> RunRecord]
      /\ \A q \in Runs : /\ run'[q].live = run[q].live
                         /\ run'[q].client = run[q].client
                         /\ q # r => run'[q].at = run[q].at
      /\ run'[r].at = "ended" /\ ~run[r].live
  BY <1>0 DEF Leave, RunRecord
<1>2. UNCHANGED <<carr, cancelVpn, vpnState, started, main>> /\ OutsideOK'
  BY DEF Leave, service, proxy, LifecycleInv, TypeOK, OutsideOK
<1>3. TypeOK'
  BY <1>1, <1>2 DEF LifecycleInv, TypeOK, OutsideOK, RunRecord
<1>4. GlobalsAgree' /\ LiveRunIsReachable'
  BY <1>1, <1>2 DEF LifecycleInv, GlobalsAgree, LiveRunIsReachable
<1>5. \A q \in Runs : (run'[q].at = "serving" /\ run'[q].live)
                      <=> (run[q].at = "serving" /\ run[q].live)
  BY <1>1
<1>6. StatusIsHonest'
  BY <1>2, <1>5 DEF LifecycleInv, StatusIsHonest
<1>. QED
  BY <1>3, <1>4, <1>6 DEF LifecycleInv

(* A living run that goes on finds its own client in carr. *)
LEMMA GoOnHolds ==
  ASSUME LifecycleInv, NEW r \in Runs, NEW state, NEW to, GoOn(r, state, to), OutsideOK',
         \/ state = "checking_relay" /\ to = "relay" /\ run[r].at = "internet"
         \/ state = "connected" /\ to = "serving"
  PROVE  LifecycleInv'
<1>1. carr = r /\ cancelVpn = r /\ run[r].live /\ \A q \in Runs : q # r => ~run[q].live
  BY DEF LifecycleInv, LiveRunIsReachable, GoOn
<1>2. run \in [Runs -> RunRecord] /\ r \in 0..MaxRuns /\ to \in {"relay", "serving"} /\ r # Nil
  BY TypeParts, VpnAssumption DEF LifecycleInv, Runs, Nil
<1>. DEFINE p == [run[r] EXCEPT !.at = to, !.client = carr]
<1>3. p \in RunRecord /\ p.at = to /\ p.live /\ p.client = r
  BY <1>1, <1>2 DEF RunRecord
<1>4. run' = [run EXCEPT ![r] = p]
  BY DEF GoOn
<1>. HIDE DEF p
<1>5. /\ run' \in [Runs -> RunRecord]
      /\ \A q \in Runs : q # r => run'[q] = run[q]
      /\ run'[r].at = to /\ run'[r].live /\ run'[r].client = r
  BY <1>2, <1>3, <1>4
<1>6. UNCHANGED <<carr, cancelVpn, started, main>> /\ vpnState' = state
  BY DEF GoOn, service
<1>7. \A q \in Runs : run'[q].at \in {"relay", "serving"} => run'[q].client # Nil
  BY <1>2, <1>5 DEF LifecycleInv, TypeOK
<1>8. TypeOK'
  BY <1>5, <1>6, <1>7, OutsideOK' DEF LifecycleInv, TypeOK, OutsideOK, RunRecord
<1>9. GlobalsAgree' /\ LiveRunIsReachable'
  BY <1>1, <1>5, <1>6 DEF LifecycleInv, GlobalsAgree, LiveRunIsReachable
<1>10. StatusIsHonest'
  BY <1>1, <1>5, <1>6 DEF StatusIsHonest
<1>. QED
  BY <1>8, <1>9, <1>10 DEF LifecycleInv

(* StartVPN takes the lock again with nothing alive. *)
LEMMA StartHolds ==
  ASSUME LifecycleInv, StartOk
  PROVE  LifecycleInv'
<1>. DEFINE r == started + 1
<1>1. r \in Runs /\ started' = r /\ carr' = r /\ cancelVpn' = r /\ r # Nil /\ r \in 0..r
  BY VpnAssumption DEF LifecycleInv, TypeOK, StartOk, NewRun, Runs, Nil
<1>2. \A q \in Runs : ~run[q].live
  BY DEF LifecycleInv, GlobalsAgree, LiveRunIsReachable, StartOk, Runs, Nil
<1>3. run' = [run EXCEPT ![r] = [at |-> "internet", live |-> TRUE, client |-> Nil]]
  BY DEF StartOk, NewRun
<1>4. vpnState' = "checking_internet" /\ main' = "bridge" /\ OutsideOK'
  BY DEF StartOk, NewRun, proxy, LifecycleInv, TypeOK, OutsideOK
<1>5. started' \in 0..MaxRuns /\ Nil \in 0..MaxRuns /\ run \in [Runs -> RunRecord]
  BY <1>1, VpnAssumption, TypeParts DEF LifecycleInv, Runs, Nil
<1>. HIDE DEF r
<1>6. /\ run' \in [Runs -> RunRecord]
      /\ \A q \in Runs : q # r => run'[q] = run[q]
      /\ run'[r].at = "internet" /\ run'[r].live /\ run'[r].client = Nil
  BY <1>1, <1>3, <1>5 DEF RunRecord
<1>7. \A q \in Runs : run'[q].at \in {"relay", "serving"} => run'[q].client # Nil
  BY <1>6 DEF LifecycleInv, TypeOK
<1>8. TypeOK'
  BY <1>1, <1>4, <1>5, <1>6, <1>7 DEF TypeOK, OutsideOK, RunRecord
<1>9. GlobalsAgree' /\ LiveRunIsReachable'
  BY <1>1, <1>2, <1>4, <1>6 DEF GlobalsAgree, LiveRunIsReachable
<1>10. StatusIsHonest'
  BY <1>2, <1>4, <1>6 DEF StatusIsHonest
<1>. QED
  BY <1>8, <1>9, <1>10 DEF LifecycleInv

LEMMA StepHolds == LifecycleInv /\ [Next]_vars => LifecycleInv'
<1>. SUFFICES ASSUME LifecycleInv, [Next]_vars PROVE LifecycleInv'
  OBVIOUS
<1>0. OutsideOK /\ main \in {"idle", "starting", "bridge"}
  BY DEF LifecycleInv, TypeOK, OutsideOK
<1>1. ASSUME NEW msg \in Messages, Send(msg) PROVE queue' \in Seq(Messages)
  BY <1>0, <1>1 DEF Send, OutsideOK
<1>2. ASSUME queue # <<>>, queue' = Tail(queue) PROVE queue' \in Seq(Messages)
  BY <1>0, <1>2 DEF OutsideOK
<1>3. CASE \E mode \in Modes : StartVpn(mode)
  <2>. PICK mode \in Modes : StartVpn(mode)
    BY <1>3
  <2>0. mode \in Messages
    BY DEF Modes, Messages
  <2>1. queue' \in Seq(Messages)
    BY <1>0, <1>1, <2>0 DEF StartVpn, service, OutsideOK
  <2>2. OutsideOK'
    BY <1>0, <2>1 DEF StartVpn, service, proxy, OutsideOK
  <2>. QED
    BY <1>0, <2>2, EngineStays DEF StartVpn, service, LifecycleInv, GlobalsAgree
<1>4. CASE DialogResult
  <2>1. queue' \in Seq(Messages)
    BY <1>0, <1>1, <1>4 DEF DialogResult, Messages, OutsideOK
  <2>2. OutsideOK'
    BY <1>0, <1>4, <2>1 DEF DialogResult, proxy, OutsideOK
  <2>. QED
    BY <1>0, <1>4, <2>2, EngineStays DEF DialogResult, LifecycleInv, GlobalsAgree
<1>5. CASE StopVpn
  <2>1. queue' \in Seq(Messages)
    BY <1>1, <1>5 DEF StopVpn, Messages
  <2>2. OutsideOK'
    BY <1>0, <1>5, <2>1 DEF StopVpn, proxy, OutsideOK
  <2>. QED
    BY <1>0, <1>5, <2>2, EngineStays DEF StopVpn, LifecycleInv, GlobalsAgree
<1>6. CASE ConnectAgain \/ Connect
  <2>1. queue' \in Seq(Messages)
    BY <1>2, <1>6 DEF ConnectAgain, Connect, Receive
  <2>2. OutsideOK'
    BY <1>0, <1>6, <2>1 DEF ConnectAgain, Connect, proxy, OutsideOK
  <2>. QED
    BY <1>0, <1>6, <2>2, EngineStays DEF ConnectAgain, Connect, Receive
<1>7. CASE StartOk
  BY <1>7, StartHolds
<1>8. CASE StartError \/ Bridge
  <2>1. OutsideOK'
    BY <1>0, <1>8 DEF StartError, Bridge, proxy, OutsideOK
  <2>. QED
    BY <1>0, <1>8, <2>1, EngineStays DEF StartError, Bridge
<1>9. CASE Disconnect
  <2>1. Tail(queue) \in Seq(Messages)
    BY <1>0, <1>9 DEF Disconnect, OutsideOK
  <2>2. queue' \in Seq(Messages)
    BY <2>1, <1>9 DEF Disconnect, Messages
  <2>3. OutsideOK'
    BY <1>0, <1>9, <2>2 DEF Disconnect, proxy, OutsideOK
  <2>. QED
    BY <1>9, <2>3, StopHolds DEF Disconnect
<1>10. CASE Destroy
  <2>1. queue' \in Seq(Messages)
    BY <1>2, <1>10 DEF Destroy, Receive
  <2>2. OutsideOK'
    BY <1>0, <1>10, <2>1 DEF Destroy, proxy, OutsideOK
  <2>. QED
    BY <1>10, <2>2, StopHolds DEF Destroy
<1>11. CASE Factory
  <2>1. ASSUME carr # Nil PROVE FoundClient(carr) \in [client : Runs, alive : BOOLEAN]
    <3>1. carr \in Runs /\ run[carr].live \in BOOLEAN
      BY <2>1, TypeParts DEF LifecycleInv, GlobalsAgree, RunRecord
    <3>. QED
      BY <3>1 DEF FoundClient
  <2>2. OutsideOK' /\ UNCHANGED <<engine, main>>
    BY <1>0, <1>11, <2>1 DEF Factory, LookUp, Join, service, OutsideOK
  <2>. QED
    BY <1>0, <2>2, EngineStays DEF LifecycleInv, GlobalsAgree
<1>12. ASSUME NEW r \in Runs, Goroutine(r) PROVE LifecycleInv'
  <2>1. CASE InternetFails(r) \/ RelayFails(r)
    BY <2>1, GiveUpHolds DEF InternetFails, RelayFails
  <2>2. CASE Leave(r)
    BY <2>2, LeaveHolds
  <2>3. CASE InternetOk(r) /\ ~Leave(r)
    <3>1. run[r].at = "internet" /\ GoOn(r, "checking_relay", "relay") /\ UNCHANGED proxy
      BY <2>3 DEF InternetOk
    <3>2. OutsideOK'
      BY <1>0, <3>1 DEF GoOn, service, proxy, OutsideOK
    <3>. QED
      BY <3>1, <3>2, GoOnHolds
  <2>4. CASE RelayOk(r) /\ ~Leave(r)
    <3>1. GoOn(r, "connected", "serving") /\ binding' = binding \cup {r} /\ UNCHANGED <<listener, calls>>
      BY <2>4 DEF RelayOk
    <3>2. OutsideOK'
      BY <1>0, <3>1 DEF GoOn, service, OutsideOK
    <3>. QED
      BY <3>1, <3>2, GoOnHolds
  <2>5. CASE Listen(r)
    <3>1. r \in 0..MaxRuns
      BY VpnAssumption DEF Runs
    <3>2. OutsideOK'
      BY <1>0, <2>5, <3>1 DEF Listen, service, OutsideOK
    <3>. QED
      BY <1>0, <2>5, <3>2, EngineStays DEF Listen, service, LifecycleInv, GlobalsAgree
  <2>. QED
    BY <1>12, <2>1, <2>2, <2>3, <2>4, <2>5 DEF Goroutine, ServeEnds
<1>13. CASE UNCHANGED vars
  <2>1. OutsideOK'
    BY <1>0, <1>13 DEF vars, proxy, service, OutsideOK
  <2>. QED
    BY <1>0, <1>13, <2>1, EngineStays DEF vars, service, LifecycleInv, GlobalsAgree
<1>. QED
  BY <1>3, <1>4, <1>5, <1>6, <1>7, <1>8, <1>9, <1>10, <1>11, <1>12, <1>13 DEF Next, User, MainThread

LEMMA LifecycleHolds == Spec => []LifecycleInv
BY InitHolds, StepHolds, PTL DEF Spec

(* In every order of starts, stops and destructions a goroutine past its   *)
(* probes holds a client, and carr and cancelVpn name runs that were       *)
(* started: nothing dereferences a nil client.                             *)
THEOREM TypeCorrect == Spec => []TypeOK
<1>1. LifecycleInv => TypeOK
  BY DEF LifecycleInv
<1>. QED
  BY <1>1, LifecycleHolds, PTL

(* However starts, stops and destructions follow each other and however    *)
(* long the goroutines of earlier runs linger, a run with a living context *)
(* is the one StopVPN cancels, and it works with its own client.           *)
THEOREM StopReachesTheRun == Spec => []LiveRunIsReachable
<1>1. LifecycleInv => LiveRunIsReachable
  BY DEF LifecycleInv
<1>. QED
  BY <1>1, LifecycleHolds, PTL

(* "connected" is reported exactly while a run with a living context       *)
(* serves: no late goroutine makes the status lie in either direction.     *)
THEOREM StatusTellsTheTruth == Spec => []StatusIsHonest
<1>1. LifecycleInv => StatusIsHonest
  BY DEF LifecycleInv
<1>. QED
  BY <1>1, LifecycleHolds, PTL

LEMMA FactoryFindsLiveRun ==
  LifecycleInv /\ ConnectionsFindLiveRun /\ [Next]_vars => ConnectionsFindLiveRun'
<1>. SUFFICES ASSUME LifecycleInv, ConnectionsFindLiveRun, [Next]_vars
              PROVE  ConnectionsFindLiveRun'
  OBVIOUS
<1>1. CASE LookUp
  <2>1. FoundClient(carr).alive
    BY <1>1 DEF LookUp, FoundClient, LifecycleInv, GlobalsAgree
  <2>. QED
    BY <1>1, <2>1 DEF LookUp, ConnectionsFindLiveRun
<1>2. CASE \E c \in calls : Join(c)
  BY <1>2 DEF Join, ConnectionsFindLiveRun
<1>3. CASE ~Factory
  <2>1. UNCHANGED calls
    BY <1>3 DEF Next, User, MainThread, Goroutine, StartVpn, DialogResult, StopVpn, ConnectAgain,
      Connect, StartOk, StartError, Bridge, Disconnect, Destroy, InternetFails, InternetOk,
      RelayFails, RelayOk, ServeEnds, Listen, GiveUp, Leave, proxy, vars
  <2>. QED
    BY <2>1 DEF ConnectionsFindLiveRun
<1>. QED
  BY <1>1, <1>2, <1>3 DEF Factory

(* Whichever run opened the SOCKS listener, the client its factory finds   *)
(* is that of a run whose context is alive at that moment: no connection   *)
(* is accepted into a run that had been stopped before.                    *)
THEOREM OldListenerFindsTheRun == Spec => []ConnectionsFindLiveRun
<1>1. Init => ConnectionsFindLiveRun
  BY DEF Init, ConnectionsFindLiveRun
<1>. QED
  BY <1>1, FactoryFindsLiveRun, LifecycleHolds, PTL DEF Spec
=============================================================================
