-------------------------------- MODULE Quota --------------------------------
(***************************************************************************)
(* Two counters of one deployment's invocations: the client's daily window *)
(* (carrier/quota.go, read by stats.go), and the Apps Script forwarder's   *)
(* own count per Pacific date (Code.gs), which executions of doPost update *)
(* concurrently in a property store without a lock and which doGet reports *)
(* back to the client.                                                     *)
(*                                                                         *)
(* Time is counted in units of which an ordinary day has Day.  On the day  *)
(* the clocks change a day is one unit shorter (the end of winter) or      *)
(* longer (the end of summer).                                             *)
(***************************************************************************)
EXTENDS Integers, Sequences, FiniteSets

CONSTANTS
  Execs,     \* executions of the script that may run at the same time
  Day,       \* units of an ordinary day (24 * time.Hour)
  MaxNow,    \* bound: the clock
  MaxPosts,  \* bound: doPost executions per day
  MaxHits    \* bound: answers the client remembers

ASSUME QuotaAssumption ==
  /\ IsFiniteSet(Execs)
  /\ Day \in Nat \ {0, 1}
  /\ {MaxNow, MaxPosts, MaxHits} \subseteq Nat

VARIABLES
  now,    \* the clock
  cal,    \* the Pacific calendar: today's number, start and length; whether
          \* the client has no tzdata and reckons in a fixed zone (-08:00,
          \* winter time), and the start of its date in quotaResetTZ
  props,  \* the script's property store: date -> count
  posts,  \* history: doPost executions begun on each day
  execs,  \* the executions under way
  ep,     \* the client's relayEndpoint: window and script count
  hits    \* history: when this client received the answers it counts

vars == <<now, cal, props, posts, execs, ep, hits>>

Days == 0..MaxNow
Idle == [pc |-> "idle"]
Never == -1    \* the zero time.Time

(* carrier.New: an endpoint that has counted nothing. *)
NewEndpoint == [count |-> 0, resetAt |-> Never, script |-> 0]

Lengths(summer, shifted) ==
  IF shifted THEN {Day} ELSE {Day, IF summer THEN Day + 1 ELSE Day - 1}

(* In summer the fixed zone is one unit behind: its date is yesterday's.   *)
Init ==
  /\ now = 0
  /\ \E summer \in BOOLEAN, fixed \in BOOLEAN : \E n \in Lengths(summer, FALSE) :
       cal = [day |-> 0, midnight |-> 0, length |-> n, before |-> Day, shifted |-> n # Day,
              summer |-> summer, fixed |-> fixed,
              local |-> IF fixed /\ summer THEN 1 - Day ELSE 0]
  /\ props = [d \in {} |-> 0]
  /\ posts = [d \in Days |-> 0]
  /\ execs = [e \in Execs |-> Idle]
  /\ ep = NewEndpoint
  /\ hits = <<>>

(* Answers before t are forgotten: hits is in the order of time. *)
Forget(t) ==
  \E k \in 0..Len(hits) : /\ \A i \in DOMAIN hits : hits[i] < t <=> i <= k
                          /\ hits' = SubSeq(hits, k + 1, Len(hits))

(* The start of the date in quotaResetTZ at time t, when the Pacific date  *)
(* began at m: in the fixed zone every day has 24 hours.                   *)
LocalMidnight(t, m) ==
  IF ~cal.fixed THEN m ELSE IF t < cal.local + Day THEN cal.local ELSE t

(* Time passes.  An execution may see one midnight, never two: Apps Script *)
(* ends it after minutes.  The clocks change once.                         *)
SameDay ==
  /\ now + 1 < cal.midnight + cal.length
  /\ cal' = [day |-> cal.day, midnight |-> cal.midnight, length |-> cal.length,
             before |-> cal.before, shifted |-> cal.shifted,
             summer |-> cal.summer, fixed |-> cal.fixed,
             local |-> LocalMidnight(now + 1, cal.midnight)]

NextDay ==
  /\ now + 1 = cal.midnight + cal.length
  /\ \A e \in Execs : execs[e] # Idle => execs[e].today = cal.day
  /\ \E n \in Lengths(cal.summer, cal.shifted) :
       cal' = [day |-> cal.day + 1, midnight |-> now + 1, length |-> n,
               before |-> cal.length, shifted |-> cal.shifted \/ n # Day,
               summer |-> cal.summer, fixed |-> cal.fixed,
               local |-> LocalMidnight(now + 1, now + 1)]

Tick ==
  /\ now < MaxNow
  /\ now' = now + 1
  /\ SameDay \/ NextDay
  /\ Forget(now + 1 - Day)
  /\ UNCHANGED <<props, posts, execs, ep>>

---------------------------------------------------------------------------
(* The client: quota.go and the readers of stats.go.                       *)

(* Mutation of NextQuotaReset: a window of a day from its first use. *)
NextQuotaReset_FromNow == now + Day

(* nextQuotaReset: midnight of the date in quotaResetTZ is never after     *)
(* now, so 24 hours are added whatever the length of today.                *)
NextQuotaReset == cal.local + Day

(* touchDailyWindow: sets the first window, or rolls over an elapsed one. *)
Touch(p) ==
  IF p.resetAt = Never THEN [p EXCEPT !.resetAt = NextQuotaReset]
  ELSE IF now < p.resetAt THEN p
  ELSE [p EXCEPT !.count = 0, !.resetAt = NextQuotaReset]

BumpDailyCount(p) == [Touch(p) EXCEPT !.count = @ + 1]

(* What GetStats, GetEndpointStats and the log lines show. *)
Shown == Touch(ep).count

Look ==
  /\ ep' = Touch(ep)
  /\ UNCHANGED <<now, cal, props, posts, execs, hits>>

(* Running executions, and those whose answer the client still awaits. *)
Active == {e \in Execs : execs[e] # Idle}

(* The client is stopped and started: a new carrier.Client. *)
StartClient ==
  /\ ep' = NewEndpoint
  /\ hits' = <<>>
  /\ execs' = [e \in Execs |-> IF e \in Active THEN [execs[e] EXCEPT !.mine = FALSE] ELSE Idle]
  /\ UNCHANGED <<now, cal, props, posts>>

(* The poll or the GET times out; the script does not notice. *)
GiveUp(e) ==
  /\ e \in Active
  /\ execs[e].mine
  /\ execs' = [execs EXCEPT ![e].mine = FALSE]
  /\ UNCHANGED <<now, cal, props, posts, ep, hits>>

---------------------------------------------------------------------------
(* The forwarder: Code.gs.                                                 *)

MayAsk(e) == execs[e] = Idle /\ Len(hits) + Cardinality(Active) < MaxHits

(* doPost begins: with ENABLE_INVOCATION_COUNTING off, as the script is    *)
(* shipped, it forwards at once; otherwise bumpInvocationCount_ takes the  *)
(* date.                                                                   *)
DoPost(e) ==
  /\ MayAsk(e)
  /\ posts[cal.day] < MaxPosts
  /\ posts' = [posts EXCEPT ![cal.day] = @ + 1]
  /\ \E pc \in {"read", "forward"} :
       execs' = [execs EXCEPT ![e] = [pc |-> pc, today |-> cal.day, mine |-> TRUE,
                                      cur |-> 0, stale |-> {}]]
  /\ UNCHANGED <<now, cal, props, ep, hits>>

(* The count is done with, and the payload goes to RELAY_URLS. *)
Forward(x) == [x EXCEPT !.pc = "forward", !.cur = 0, !.stale = {}]

(* getProperty(key): no value means the first request of the day, which    *)
(* prunes before it writes.                                                *)
ReadCount(e) ==
  /\ execs[e].pc = "read"
  /\ LET d == execs[e].today
     IN  execs' = IF d \in DOMAIN props
                  THEN [execs EXCEPT ![e].cur = props[d], ![e].pc = "write"]
                  ELSE [execs EXCEPT ![e].pc = "list"]
  /\ UNCHANGED <<now, cal, props, posts, ep, hits>>

(* pruneStaleCounts_: getKeys, then one deleteProperty after the other. *)
ListKeys(e) ==
  /\ execs[e].pc = "list"
  /\ execs' = [execs EXCEPT ![e].stale = DOMAIN props \ {execs[e].today}, ![e].pc = "prune"]
  /\ UNCHANGED <<now, cal, props, posts, ep, hits>>

DeleteKey(e) ==
  /\ execs[e].pc = "prune"
  /\ \E k \in execs[e].stale :
       /\ props' = [d \in DOMAIN props \ {k} |-> props[d]]
       /\ execs' = [execs EXCEPT ![e].stale = @ \ {k}]
  /\ UNCHANGED <<now, cal, posts, ep, hits>>

(* Mutation of WriteCount: the key is made again from the clock. *)
WriteCount_KeyNow(e) ==
  /\ \/ execs[e].pc = "write"
     \/ execs[e].pc = "prune" /\ execs[e].stale = {}
  /\ props' = [d \in DOMAIN props \cup {cal.day} |->
                 IF d = cal.day THEN execs[e].cur + 1 ELSE props[d]]
  /\ execs' = [execs EXCEPT ![e] = Forward(@)]
  /\ UNCHANGED <<now, cal, posts, ep, hits>>

(* Mutation of WriteCount: the count is written before the store is pruned. *)
WriteCount_PruneLater(e) ==
  /\ execs[e].pc \in {"write", "list"}
  /\ props' = [d \in DOMAIN props \cup {execs[e].today} |->
                 IF d = execs[e].today THEN execs[e].cur + 1 ELSE props[d]]
  /\ execs' = [execs EXCEPT ![e] =
       IF @.pc = "list" THEN [@ EXCEPT !.pc = "prune", !.stale = DOMAIN props \ {execs[e].today}]
       ELSE Forward(@)]
  /\ UNCHANGED <<now, cal, posts, ep, hits>>

(* setProperty(key, cur + 1), whatever others have written since the read. *)
WriteCount(e) ==
  /\ \/ execs[e].pc = "write"
     \/ execs[e].pc = "prune" /\ execs[e].stale = {}
  /\ props' = [d \in DOMAIN props \cup {execs[e].today} |->
                 IF d = execs[e].today THEN execs[e].cur + 1 ELSE props[d]]
  /\ execs' = [execs EXCEPT ![e] = Forward(@)]
  /\ UNCHANGED <<now, cal, posts, ep, hits>>

(* A property call throws: bumpInvocationCount_ swallows the error. *)
Counting == {"read", "list", "prune", "write"}

PropertyError(e) ==
  /\ execs[e].pc \in Counting
  /\ execs' = [execs EXCEPT ![e] = Forward(@)]
  /\ UNCHANGED <<now, cal, props, posts, ep, hits>>

(* doGet reports the count of today's key. *)
DoGet(e) ==
  /\ MayAsk(e)
  /\ execs' = [execs EXCEPT ![e] =
       [pc |-> "report", today |-> cal.day, mine |-> TRUE, stale |-> {},
        cur |-> IF cal.day \in DOMAIN props THEN props[cal.day] ELSE 0]]
  /\ UNCHANGED <<now, cal, props, posts, ep, hits>>

(* The answer to a poll or to pollScriptStats arrives, whatever its        *)
(* status: bumpDailyCount.  Of a report that can be parsed                 *)
(* recordScriptStatsFromBody keeps the count.                              *)
Answer(e) ==
  LET p == BumpDailyCount(ep)
  IN  /\ execs[e].pc \in {"forward", "report"}
      /\ execs[e].mine
      /\ hits' = Append(hits, now)
      /\ \/ ep' = p
         \/ execs[e].pc = "report" /\ ep' = [p EXCEPT !.script = execs[e].cur]
      /\ execs' = [execs EXCEPT ![e] = Idle]
      /\ UNCHANGED <<now, cal, props, posts>>

(* The answer to a request of Diagnose, of a ping or of Shutdown: it is    *)
(* used or thrown away, and counted by the script only.                    *)
ProbeAnswer(e) ==
  /\ execs[e].pc \in {"forward", "report"}
  /\ execs[e].mine
  /\ execs' = [execs EXCEPT ![e] = Idle]
  /\ UNCHANGED <<now, cal, props, posts, ep, hits>>

(* Nobody waits for the answer. *)
Discard(e) ==
  /\ execs[e].pc \in {"forward", "report"}
  /\ ~execs[e].mine
  /\ execs' = [execs EXCEPT ![e] = Idle]
  /\ UNCHANGED <<now, cal, props, posts, ep, hits>>

---------------------------------------------------------------------------
Script(e) ==
  \/ DoPost(e) \/ ReadCount(e) \/ ListKeys(e) \/ DeleteKey(e) \/ WriteCount(e)
  \/ PropertyError(e) \/ DoGet(e) \/ Answer(e) \/ ProbeAnswer(e)
  \/ Discard(e) \/ GiveUp(e)

Next == Tick \/ Look \/ StartClient \/ \E e \in Execs : Script(e)

Spec == Init /\ [][Next]_vars

---------------------------------------------------------------------------
(* The unlocked read and write of bumpInvocationCount_ may lose counts but *)
(* never invents one: no date's count exceeds the executions begun on that *)
(* date, even when executions overlap, cross midnight, prune one another's *)
(* keys or fail half way, and the client never shows more than some day    *)
(* has had.                                                                *)
ScriptNeverOvercounts ==
  /\ \A d \in DOMAIN props : props[d] <= posts[d]
  /\ \E d \in Days : ep.script <= posts[d]

(* "so the property store doesn't grow unbounded" (Code.gs): whichever     *)
(* property call fails, and although an execution that crosses midnight    *)
(* can write a date that was already pruned, the store never holds more    *)
(* than two dates, those of successive days.                               *)
StoreStaysSmall == \E d \in Days : DOMAIN props \subseteq {d - 1, d}

(* After a short day the window of that day ends one unit into the next;   *)
(* the fixed zone has no short days.                                       *)
Late == IF ~cal.fixed /\ cal.before < Day THEN Day - cal.before ELSE 0

HitsSince(t) == Cardinality({i \in DOMAIN hits : hits[i] >= t})

(* The count the client shows is the number of answers to polls and to     *)
(* pollScriptStats since midnight of its date in quotaResetTZ, as long as  *)
(* today and yesterday have 24 hours there.  Around the change of clocks   *)
(* it never exceeds the answers of the last 24 hours; after a short day it *)
(* may still count, or lose, those of the first hour; and in the 25th hour *)
(* of a long day it shows nothing, of that hour or of the day.             *)
WindowIsTheDay ==
  /\ Shown <= HitsSince(now - Day + 1)
  /\ now < cal.local + Day =>
       /\ HitsSince(cal.local + Late) <= Shown
       /\ Late = 0 => Shown = HitsSince(cal.local)
  /\ now >= cal.local + Day => Shown = 0

(* nextQuotaReset's comment (quota.go:24): the next midnight, "strictly    *)
(* after now".  In the 25th hour of a long day it returns an instant that  *)
(* has passed.                                                             *)
ResetIsAhead == NextQuotaReset > now
=============================================================================
