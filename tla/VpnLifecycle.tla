---------------------------- MODULE VpnLifecycle -----------------------------
(***************************************************************************)
(* Starting and stopping the client on Android: MainActivity's startVpn    *)
(* and stopVpn, the service GooseVpnService, and the engine behind them    *)
(* (core/cmd/android/vpn.go: StartVPN, StopVPN and the goroutine StartVPN  *)
(* leaves behind, which checks the network and the relay before it serves).*)
(*                                                                         *)
(* The handlers of the activity and of the service run one at a time on    *)
(* the main thread.  Android delivers the service's intents in the order   *)
(* they were sent, and stopSelf queues onDestroy behind the intents that   *)
(* are already there (external).  A run is what one successful StartVPN    *)
(* creates: a carrier client, a context and a goroutine, named by one      *)
(* number.  The SOCKS listener is not part of a run: socks.Serve ignores   *)
(* its context, so the first listener stays, later ones find the port      *)
(* taken, and its connections join whatever client carr names then.        *)
(***************************************************************************)
EXTENDS Integers, Sequences

CONSTANTS
  MaxRuns,     \* bound: successful calls of StartVPN
  MaxQueue     \* bound: intents on their way to the service

ASSUME VpnAssumption == MaxRuns \in Nat /\ MaxQueue \in Nat \ {0}

Runs == 1..MaxRuns
Nil == 0

VARIABLES
  carr,        \* the global carrier client: a run or Nil
  cancelVpn,   \* the run whose context the global function cancels, or Nil
  vpnState,    \* what GetStatsJSON reports
  run,         \* the runs: where the goroutine is, whether the context is
               \* alive, the client it works with
  started,     \* runs created so far
  binding,     \* runs whose socks.Serve has not called net.Listen yet
  listener,    \* the run whose socks.Serve holds the port, or Nil
  calls,       \* calls of the SessionFactory between their look at carr and
               \* NewSession: the client found, and (history) whether its
               \* context was alive then; equal calls count as one
  main,        \* where connectVpn is on the main thread
  queue,       \* intents and onDestroy on their way to the service
  tun,         \* vpnInterface # null
  bridge,      \* tun2socks is running
  permitted,   \* VpnService.prepare returns null
  dialog       \* the permission dialog is open

engine == <<carr, cancelVpn, vpnState, run, started>>
proxy == <<binding, listener, calls>>
service == <<main, queue, tun, bridge>>
vars == <<engine, proxy, service, permitted, dialog>>

Modes == {"VPN", "Proxy"}
Messages == {"VPN", "Proxy", "disconnect", "destroy"}

Init ==
  /\ carr = Nil /\ cancelVpn = Nil
  /\ vpnState = "stopped"
  /\ run = [r \in Runs |-> [at |-> "none", live |-> FALSE, client |-> Nil]]
  /\ started = 0
  /\ binding = {} /\ listener = Nil /\ calls = {}
  /\ main = "idle" /\ queue = <<>>
  /\ tun = FALSE /\ bridge = FALSE
  /\ permitted \in BOOLEAN /\ dialog = FALSE

---------------------------------------------------------------------------
(* MainActivity.                                                           *)

Send(msg) == Len(queue) < MaxQueue /\ queue' = Append(queue, msg)

(* The method call "startVpn": the proxy starts directly, the VPN needs    *)
(* the user's permission.                                                  *)
StartVpn(mode) ==
  \/ /\ mode = "Proxy" \/ permitted
     /\ Send(mode)
     /\ UNCHANGED <<engine, proxy, main, tun, bridge, permitted, dialog>>
  \/ /\ mode = "VPN" /\ ~permitted
     /\ dialog' = TRUE
     /\ UNCHANGED <<engine, proxy, service, permitted>>

(* onActivityResult; a refusal sends nothing. *)
DialogResult ==
  /\ dialog
  /\ dialog' = FALSE
  /\ \/ Send("VPN") /\ permitted' = TRUE
     \/ UNCHANGED <<queue, permitted>>
  /\ UNCHANGED <<engine, proxy, main, tun, bridge>>

StopVpn ==
  /\ Send("disconnect")
  /\ UNCHANGED <<engine, proxy, main, tun, bridge, permitted, dialog>>

---------------------------------------------------------------------------
(* The engine's critical sections (carrMu).                                *)

(* if cancelVpn != nil { cancelVpn() } *)
Cancel == IF cancelVpn = Nil THEN run ELSE [run EXCEPT ![cancelVpn].live = FALSE]

(* StopVPN.  The best-effort Shutdown runs with the lock held. *)
StopVPN ==
  /\ vpnState' = "stopped"
  /\ run' = Cancel
  /\ carr' = IF cancelVpn = Nil THEN carr ELSE Nil
  /\ cancelVpn' = Nil
  /\ UNCHANGED started

(* The second half of StartVPN: the client becomes the global one and the  *)
(* goroutine starts.                                                       *)
NewRun(r) ==
  /\ started' = r
  /\ carr' = r /\ cancelVpn' = r
  /\ vpnState' = "checking_internet"
  /\ run' = [run EXCEPT ![r] = [at |-> "internet", live |-> TRUE, client |-> Nil]]

---------------------------------------------------------------------------
(* GooseVpnService, on the main thread.                                    *)

Receive(msgs) == main = "idle" /\ queue # <<>> /\ Head(queue) \in msgs /\ queue' = Tail(queue)

(* connectVpn returns at once when the interface is there. *)
ConnectAgain ==
  /\ Receive(Modes)
  /\ tun
  /\ UNCHANGED <<engine, proxy, main, tun, bridge, permitted, dialog>>

(* connectVpn up to StartVPN's first look at carr: establish() may give    *)
(* null and Android may throw, which connectVpn only logs; a client that   *)
(* is there makes StartVPN return "Already running", which nobody looks at.*)
Connect ==
  /\ Receive(Modes)
  /\ ~tun
  /\ tun' \in (IF Head(queue) = "VPN" THEN BOOLEAN ELSE {FALSE})
  /\ main' \in {"idle", IF carr # Nil THEN "bridge" ELSE "starting"}
  /\ UNCHANGED <<engine, proxy, bridge, permitted, dialog>>

(* Mutation of StartOk: StartVPN does not look at carr. *)
StartOk_Anyway ==
  /\ main \in {"starting", "bridge"}
  /\ started < MaxRuns
  /\ NewRun(started + 1)
  /\ main' = "bridge"
  /\ UNCHANGED <<proxy, queue, tun, bridge, permitted, dialog>>

(* The config is loaded and the client made: StartVPN returns "OK". *)
StartOk ==
  /\ main = "starting"
  /\ started < MaxRuns
  /\ NewRun(started + 1)
  /\ main' = "bridge"
  /\ UNCHANGED <<proxy, queue, tun, bridge, permitted, dialog>>

(* StartVPN returns an error; connectVpn goes on all the same. *)
StartError ==
  /\ main = "starting"
  /\ main' = "bridge"
  /\ UNCHANGED <<engine, proxy, queue, tun, bridge, permitted, dialog>>

(* startTun2Socks when there is an interface. *)
Bridge ==
  /\ main = "bridge"
  /\ main' = "idle"
  /\ bridge' = (bridge \/ tun)
  /\ UNCHANGED <<engine, proxy, queue, tun, permitted, dialog>>

(* disconnectVpn, which ends in stopSelf; close() of the interface may     *)
(* throw, and then vpnInterface stays set.                                 *)
Disconnect ==
  /\ main = "idle" /\ queue # <<>>
  /\ Head(queue) = "disconnect"
  /\ LET rest == Tail(queue)
     IN  queue' = IF \E i \in DOMAIN rest : rest[i] = "destroy" THEN rest
                  ELSE Append(rest, "destroy")
  /\ StopVPN
  /\ bridge' = FALSE /\ tun' \in {FALSE, tun}
  /\ UNCHANGED <<proxy, main, permitted, dialog>>

(* onDestroy calls disconnectVpn once more; the next intent finds a new    *)
(* service object, without an interface.                                   *)
Destroy ==
  /\ Receive({"destroy"})
  /\ StopVPN
  /\ bridge' = FALSE /\ tun' = FALSE
  /\ UNCHANGED <<proxy, main, permitted, dialog>>

---------------------------------------------------------------------------
(* The goroutine of a run.                                                 *)

(* A check of run r failed: r cancels whatever is running and forgets it.  *)
GiveUp(r) ==
  /\ vpnState' = "failed"
  /\ run' = [Cancel EXCEPT ![r].at = "ended"]
  /\ carr' = Nil /\ cancelVpn' = Nil
  /\ UNCHANGED <<started, proxy, service, permitted, dialog>>

(* The goroutine leaves the lock and returns, its context being cancelled. *)
Leave(r) ==
  /\ ~run[r].live
  /\ run' = [run EXCEPT ![r].at = "ended"]
  /\ UNCHANGED <<carr, cancelVpn, vpnState, started, proxy, service, permitted, dialog>>

(* It goes on with the client that is the global one now. *)
GoOn(r, state, to) ==
  /\ run[r].live
  /\ vpnState' = state
  /\ run' = [run EXCEPT ![r] = [@ EXCEPT !.at = to, !.client = carr]]
  /\ UNCHANGED <<carr, cancelVpn, started, service, permitted, dialog>>

InternetFails(r) == run[r].at = "internet" /\ GiveUp(r)

(* Mutation of InternetOk: the context is not looked at. *)
InternetOk_Blind(r) ==
  /\ run[r].at = "internet"
  /\ vpnState' = "checking_relay"
  /\ run' = [run EXCEPT ![r] = [@ EXCEPT !.at = "relay", !.client = carr]]
  /\ UNCHANGED <<carr, cancelVpn, started, proxy, service, permitted, dialog>>

InternetOk(r) ==
  /\ run[r].at = "internet"
  /\ Leave(r) \/ (GoOn(r, "checking_relay", "relay") /\ UNCHANGED proxy)

(* client.Diagnose, which also fails when the context is cancelled. *)
RelayFails(r) == run[r].at = "relay" /\ GiveUp(r)

(* Mutation of RelayOk: the context is not looked at. *)
RelayOk_Blind(r) ==
  /\ run[r].at = "relay"
  /\ vpnState' = "connected"
  /\ run' = [run EXCEPT ![r] = [@ EXCEPT !.at = "serving"]]
  /\ binding' = binding \cup {r}
  /\ UNCHANGED <<carr, cancelVpn, started, listener, calls, service, permitted, dialog>>

(* client.Run and socks.Serve start in goroutines of their own. *)
RelayOk(r) ==
  /\ run[r].at = "relay"
  /\ \/ Leave(r)
     \/ /\ GoOn(r, "connected", "serving")
        /\ binding' = binding \cup {r}
        /\ UNCHANGED <<listener, calls>>

(* Mutation of ServeEnds: the proxy watches the status, not its context. *)
ServeEnds_ByState(r) ==
  /\ run[r].at = "serving"
  /\ vpnState = "stopped"
  /\ run' = [run EXCEPT ![r].at = "ended"]
  /\ UNCHANGED <<carr, cancelVpn, vpnState, started, proxy, service, permitted, dialog>>

(* client.Run returns when its context is cancelled. *)
ServeEnds(r) == run[r].at = "serving" /\ Leave(r)

---------------------------------------------------------------------------
(* The SOCKS proxy.                                                        *)

(* socks.Serve: net.Listen fails when the port is taken, by the listener   *)
(* of an earlier run or by another program, and nobody looks at the error. *)
Listen(r) ==
  /\ r \in binding
  /\ binding' = binding \ {r}
  /\ listener' \in {listener, IF listener = Nil THEN r ELSE listener}
  /\ UNCHANGED <<engine, calls, service, permitted, dialog>>

FoundClient(r) == [client |-> r, alive |-> run[r].live]

(* Mutation of LookUp: the factory keeps the client it was made with. *)
LookUp_OwnClient ==
  /\ listener # Nil
  /\ calls' = calls \cup {FoundClient(listener)}
  /\ UNCHANGED <<engine, binding, listener, service, permitted, dialog>>

(* A connection is accepted and the listener's factory copies carr under   *)
(* the lock; without a client the connection is refused.                   *)
LookUp ==
  /\ listener # Nil
  /\ carr # Nil
  /\ calls' = calls \cup {FoundClient(carr)}
  /\ UNCHANGED <<engine, binding, listener, service, permitted, dialog>>

(* NewSession, without the lock: the run may have been stopped meanwhile,  *)
(* and then nobody polls for the new session.                              *)
Join(c) ==
  /\ c \in calls
  /\ calls' = calls \ {c}
  /\ UNCHANGED <<engine, binding, listener, service, permitted, dialog>>

---------------------------------------------------------------------------
User == (\E mode \in Modes : StartVpn(mode)) \/ DialogResult \/ StopVpn

MainThread ==
  \/ ConnectAgain \/ Connect \/ StartOk \/ StartError \/ Bridge
  \/ Disconnect \/ Destroy

Goroutine(r) ==
  \/ InternetFails(r) \/ InternetOk(r) \/ RelayFails(r) \/ RelayOk(r) \/ ServeEnds(r)
  \/ Listen(r)

Factory == LookUp \/ \E c \in calls : Join(c)

Next == User \/ MainThread \/ Factory \/ \E r \in Runs : Goroutine(r)

Spec == Init /\ [][Next]_vars

(* Goroutines are scheduled and the checks have timeouts. *)
FairSpec == Spec /\ \A r \in Runs : WF_vars(Goroutine(r))

---------------------------------------------------------------------------
(* A goroutine that is past its checks has a client to work with, and the  *)
(* globals name runs that have been created.                               *)
TypeOK ==
  /\ carr \in 0..started /\ cancelVpn \in 0..started
  /\ started \in 0..MaxRuns
  /\ vpnState \in {"stopped", "checking_internet", "checking_relay", "connected", "failed"}
  /\ run \in [Runs -> [at : {"none", "internet", "relay", "serving", "ended"},
                       live : BOOLEAN, client : 0..MaxRuns]]
  /\ \A r \in Runs : run[r].at \in {"relay", "serving"} => run[r].client # Nil
  /\ binding \subseteq Runs /\ listener \in 0..MaxRuns
  /\ calls \subseteq [client : Runs, alive : BOOLEAN]
  /\ main \in {"idle", "starting", "bridge"}
  /\ queue \in Seq(Messages)
  /\ tun \in BOOLEAN /\ bridge \in BOOLEAN
  /\ permitted \in BOOLEAN /\ dialog \in BOOLEAN

(* StopVPN reaches whatever is running: a run whose context is alive is    *)
(* the one behind cancelVpn and carr, so there is at most one, it works    *)
(* with its own client, and no client.Run is left polling that nothing can *)
(* stop.  (The SOCKS listener stays whatever happens; it polls nothing.)   *)
LiveRunIsReachable ==
  \A r \in Runs : run[r].live => carr = r /\ cancelVpn = r /\ run[r].client \in {Nil, r}

(* The status tells the truth: it says "connected" exactly while a run     *)
(* with a living context is past its checks and polls, whatever older      *)
(* goroutines still do.  Whether its socks.Serve could bind is not asked.  *)
StatusIsHonest ==
  vpnState = "connected" <=> \E r \in Runs : run[r].at = "serving" /\ run[r].live

(* A cancelled run comes to its end: no goroutine and no client.Run of an  *)
(* earlier start goes on for ever.                                         *)
CancelledRunsEnd ==
  \A r \in Runs : (run[r].at # "none" /\ ~run[r].live) ~> (run[r].at = "ended")

(* The proxy that an earlier run left behind works for the run of today:   *)
(* the client its factory finds for a connection is the client of a run    *)
(* whose context is alive at that moment.  A connection ends up with a     *)
(* stopped run only if the stop came between the look and NewSession.      *)
ConnectionsFindLiveRun == \A c \in calls : c.alive
=============================================================================
