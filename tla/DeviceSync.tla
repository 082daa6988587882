----------------------------- MODULE DeviceSync -----------------------------
(***************************************************************************)
(* The two ways in which a device keeps up with the server, side by side:  *)
(* the scheduler of the synchronisation, SyncEngine, and the live events,  *)
(* LiveSync.  They share no flag, timer or callback; LiveSync takes of the *)
(* engine its regular pulls (`engine').  A behaviour shows one of the two. *)
(***************************************************************************)
EXTENDS SyncEngine, Sequences

CONSTANTS Slots, MaxChanges, MaxAttempts, Lucks, Nothing

VARIABLES
    part,   \* which of the two this behaviour shows
    server, engine, hook, source, attempts, reconnect, periodic, stream, pulls, writes, row, cursor, undone, luck

Live == INSTANCE LiveSync

ASSUME LiveAssumption == Live!LiveBounds

liveVars == <<server, engine, hook, source, attempts, reconnect, periodic, stream, pulls, writes, row, cursor,
              undone, luck>>

EngineRests == dirty = FALSE /\ online = TRUE /\ left = [mutations |-> 0, faults |-> 0, requests |-> 0, leaves |-> 0]
LiveRests   == engine = FALSE /\ luck = [faults |-> 0, offs |-> 0]

SyncInit ==
    /\ Init /\ Live!Init
    /\ \/ part = "engine" /\ LiveRests /\ ~EngineRests
       \/ part = "live" /\ EngineRests /\ ~LiveRests

SyncNext ==
    /\ \/ part = "engine" /\ Next /\ UNCHANGED liveVars
       \/ part = "live" /\ Live!Next /\ UNCHANGED vars
    /\ UNCHANGED part

SyncSpec == SyncInit /\ [][SyncNext]_<<vars, liveVars, part>> /\ Fairness /\ Live!Fairness

-----------------------------------------------------------------------------
(* As long as the hook of the live events is on, and only as long, there is *)
(* a stream or the fallback pull (LiveSync).                                *)
AlwaysListening == Live!AlwaysListening

(* A device that listens has a card's newest status in the end, unless an   *)
(* older one was put over a newer one (LiveSync).                           *)
StatusArrives == Live!StatusArrives

(* Two comments of realTimeSync.ts that do not hold: lines 283 and 143.     *)
CatchUpIsRetried == Live!CatchUpIsRetried
RowsStayWhole    == Live!RowsStayWhole
=============================================================================
