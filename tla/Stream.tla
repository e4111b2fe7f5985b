------------------------------- MODULE Stream -------------------------------
(***************************************************************************)
(* Live events on the dashboard: the store hands each event to its         *)
(* subscribers after it released its lock, the stream handler forwards     *)
(* them, and the browser adds them to what it loaded with plain requests.  *)
(* Events are their numbers: n of them are in the store (EventRing has the *)
(* ring), pub of them were handed to subscribers.                          *)
(*                                                                         *)
(* One browser.  A handler whose browser is gone only fills a channel of   *)
(* its own until it notices, and is left out.                              *)
(***************************************************************************)
EXTENDS Integers, Sequences

CONSTANTS
  Slots,      (* capacity of a subscriber's channel: 64                    *)
  Limit,      (* events the browser asks for: 30                           *)
  Rows,       (* rows it keeps: 100                                        *)
  MaxErrors,  (* connection errors in a row before it pauses: 10           *)
  MaxEvents,  (* bound: events                                             *)
  MaxFaults   (* bound: lost connections and failed requests               *)

(* What the capacities and bounds have to be.                               *)
StreamAssumption ==
  /\ Slots \in Nat
  /\ Limit \in Nat
  /\ Rows \in Nat
  /\ MaxEvents \in Nat

VARIABLES
  n,          (* s.count                                                   *)
  pub,        (* events Add is done with                                   *)
  handler,    (* handleSSE: "off", "headers" flushed, or "on": subscribed  *)
  chan,       (* the subscriber's channel                                  *)
  wire,       (* written by the handler, not yet handled by the browser    *)
  source,     (* the EventSource: "none", "connecting", "open", "paused"   *)
  errors,     (* state.eventSourceReconnect                                *)
  fetch,      (* the requests in progress: see NoFetch                     *)
  view,       (* total and rows shown, newest first                        *)
  overview,   (* the active tab is Overview                                *)
  faults,     (* bound on faults, counted                                  *)
  seen,       (* history: the last event of this subscription handled      *)
  dropped     (* history: the channel was full once                        *)

server  == <<n, pub>>
browser == <<source, errors, fetch, view, overview>>
link    == <<handler, chan, wire, seen, dropped>>
vars    == <<server, browser, link, faults>>
----------------------------------------------------------------------------
(* The newest k of m events, newest first.                                  *)
Newest(m, k) == [i \in 1 .. (IF m < k THEN m ELSE k) |-> m + 1 - i]

Take(s, k) == SubSeq(s, 1, IF Len(s) < k THEN Len(s) ELSE k)

Idle    == [state |-> "idle"]
Loading == [state |-> "loading", first |-> TRUE, stats |-> -1, events |-> <<>>, listed |-> FALSE]

Init ==
  /\ n = 0 /\ pub = 0
  /\ handler = "off" /\ chan = <<>> /\ wire = <<>> /\ seen = 0 /\ dropped = FALSE
  /\ source = "none" /\ errors = 0
  /\ fetch = Loading
  /\ view = [total |-> 0, rows |-> <<>>]
  /\ overview = TRUE
  /\ faults = 0

(* Add up to the release of s.mu: ring and count.                           *)
Store ==
  /\ n = pub
  /\ n < MaxEvents
  /\ n' = n + 1
  /\ UNCHANGED <<pub, browser, link, faults>>

(* Faulty variant: a full channel drops its oldest event for the new one.   *)
PublishOverwriting ==
  /\ pub < n
  /\ pub' = n
  /\ chan' = IF handler # "on" THEN chan
             ELSE IF Len(chan) < Slots THEN Append(chan, n) ELSE Append(Tail(chan), n)
  /\ UNCHANGED <<n, browser, handler, wire, seen, dropped, faults>>

(* The end of Add, under subMu.RLock: a full channel does not get it.       *)
Publish ==
  /\ pub < n
  /\ pub' = n
  /\ LET on == handler = "on" IN
       /\ chan' = IF on /\ Len(chan) < Slots THEN Append(chan, n) ELSE chan
       /\ dropped' = (dropped \/ (on /\ Len(chan) = Slots))
  /\ UNCHANGED <<n, browser, handler, wire, seen, faults>>

(* The request reaches handleSSE, whose flushed headers open the source.    *)
Accept ==
  /\ source = "connecting"
  /\ handler = "off"
  /\ handler' = "headers"
  /\ source' = "open"
  /\ errors' = 0
  /\ UNCHANGED <<server, fetch, view, overview, chan, wire, seen, dropped, faults>>

Subscribe ==
  /\ handler = "headers"
  /\ handler' = "on"
  /\ chan' = <<>>
  /\ seen' = pub
  /\ dropped' = FALSE
  /\ UNCHANGED <<server, browser, wire, faults>>

Forward ==
  /\ handler = "on"
  /\ chan # <<>>
  /\ wire' = Append(wire, Head(chan))
  /\ chan' = Tail(chan)
  /\ UNCHANGED <<server, browser, handler, seen, dropped, faults>>

(* handleRealtimeEvent, as far as the overview goes.                        *)
Handle ==
  /\ wire # <<>>
  /\ wire' = Tail(wire)
  /\ seen' = Head(wire)
  /\ view' = IF overview
             THEN [total |-> view.total + 1, rows |-> Take(<<Head(wire)>> \o view.rows, Rows)]
             ELSE view
  /\ UNCHANGED <<server, handler, chan, dropped, source, errors, fetch, overview, faults>>

(* The connection breaks, or cannot be made, and the browser notices.       *)
Disconnect ==
  /\ source \in {"connecting", "open"}
  /\ faults < MaxFaults
  /\ faults' = faults + 1
  /\ errors' = errors + 1
  /\ source' = IF errors + 1 > MaxErrors THEN "paused" ELSE "connecting"
  /\ handler' = "off"
  /\ chan' = <<>>
  /\ wire' = <<>>
  /\ UNCHANGED <<server, fetch, view, overview, seen, dropped>>

(* After 30 seconds without a source.                                       *)
Resume ==
  /\ source = "paused"
  /\ source' = "connecting"
  /\ UNCHANGED <<server, errors, fetch, view, overview, link, faults>>

(* Faulty variant: no refresh while the stream is open.                     *)
RefreshOffline ==
  /\ fetch = Idle
  /\ source # "open"
  /\ fetch' = [Loading EXCEPT !.first = FALSE]
  /\ UNCHANGED <<server, source, errors, view, overview, link, faults>>

(* refreshAll, by hand or by the automatic refresh, not while one runs.     *)
Refresh ==
  /\ fetch = Idle
  /\ fetch' = [Loading EXCEPT !.first = FALSE]
  /\ UNCHANGED <<server, source, errors, view, overview, link, faults>>

(* The requests of one round are served in any order, at different times.   *)
ServeStats ==
  /\ fetch # Idle
  /\ fetch.stats = -1
  /\ fetch' = [fetch EXCEPT !.stats = n]
  /\ UNCHANGED <<server, source, errors, view, overview, link, faults>>

ServeEvents ==
  /\ fetch # Idle
  /\ ~fetch.listed
  /\ fetch' = [fetch EXCEPT !.events = Newest(n, Limit), !.listed = TRUE]
  /\ UNCHANGED <<server, source, errors, view, overview, link, faults>>

(* All answers are there: they replace what is shown.  The first round then *)
(* connects the stream.                                                     *)
Loaded ==
  /\ fetch # Idle
  /\ fetch.stats # -1
  /\ fetch.listed
  /\ view' = [total |-> fetch.stats, rows |-> fetch.events]
  /\ source' = IF fetch.first THEN "connecting" ELSE source
  /\ fetch' = Idle
  /\ UNCHANGED <<server, errors, overview, link, faults>>

(* A request of the round fails: everything stays as it is.  If it was the  *)
(* first round, the stream is never connected.                              *)
Fail ==
  /\ fetch # Idle
  /\ faults < MaxFaults
  /\ faults' = faults + 1
  /\ fetch' = Idle
  /\ UNCHANGED <<server, source, errors, view, overview, link>>

SwitchTab ==
  /\ overview' = ~overview
  /\ UNCHANGED <<server, source, errors, fetch, view, link, faults>>

Next ==
  \/ Store \/ Publish
  \/ Accept \/ Subscribe \/ Forward \/ Handle \/ Disconnect \/ Resume
  \/ Refresh \/ ServeStats \/ ServeEvents \/ Loaded \/ Fail
  \/ SwitchTab

(* Add runs on after its unlock, handlers and requests are goroutines that  *)
(* always get their turn, what is written arrives while the connection      *)
(* lasts, and the automatic refresh is on.  Nobody has to send events or to *)
(* switch tabs.                                                             *)
Fairness ==
  /\ WF_vars(Publish)
  /\ WF_vars(Accept) /\ WF_vars(Subscribe) /\ WF_vars(Forward) /\ WF_vars(Handle)
  /\ WF_vars(Resume)
  /\ WF_vars(Refresh) /\ WF_vars(ServeStats) /\ WF_vars(ServeEvents) /\ WF_vars(Loaded)

Spec == Init /\ [][Next]_vars /\ Fairness
----------------------------------------------------------------------------
(* Type correctness.                                                        *)
TypeOK ==
  /\ n \in 0 .. MaxEvents
  /\ pub \in {n, n - 1}
  /\ handler \in {"off", "headers", "on"}
  /\ Len(chan) <= Slots
  /\ source \in {"none", "connecting", "open", "paused"}
  /\ Len(view.rows) <= Rows \/ Len(view.rows) <= Limit

(* What a subscription carries is exactly what was added since, in order    *)
(* and once each, up to the first event that found the channel full; after  *)
(* that it still only skips, and never repeats or reorders                  *)
(* (store.go:750-760, 2294-2312, server.go:627-645).                        *)
StreamInOrder ==
  LET underway == <<seen>> \o wire \o chan IN
  handler = "on" =>
    /\ \A i \in 1 .. Len(underway) - 1 : underway[i] < underway[i + 1]
    /\ ~dropped => underway = [i \in 1 .. pub - seen + 1 |-> seen + i - 1]

(* With the automatic refresh on, the dashboard ends up showing the store's *)
(* total and its newest events: however the first load, lost connections,   *)
(* full channels and the double counting of events that were both loaded    *)
(* and streamed went before (app.js:87-124, sse.js:10-58, 150-172).         *)
ViewConverges == <>[](view.total = n /\ Take(view.rows, Limit) = Newest(n, Limit))
=============================================================================
