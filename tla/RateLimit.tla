------------------------------ MODULE RateLimit ------------------------------
(***************************************************************************)
(* The rate limiter of app/core/rate_limit.py: a request that writes       *)
(* events passes a sliding window per address, per user and per writer, in *)
(* this order. A window is a sorted set in Redis, which a script prunes,   *)
(* counts and extends in one step; the time it is pruned at is the clock   *)
(* of the API process, read before the script is sent.                     *)
(*                                                                         *)
(* Time is counted in units of which Window is a multiple (milliseconds in *)
(* the code). Processes read their clocks within MaxSkew of Redis's.       *)
(***************************************************************************)
EXTENDS Integers, FiniteSets

CONSTANTS
  Handlers,     \* requests that are served at the same time
  Ips,          \* client addresses
  Users,        \* users
  Window,       \* rate_limit_window_seconds
  LimitIp,      \* rate_limit_ip
  LimitUser,    \* rate_limit_user
  LimitEvents,  \* rate_limit_events
  MaxSkew,      \* how far the clock of a process is off at most
  MaxDelay,     \* bound: time between reading the clock and the script
  MaxTime,      \* bound of the model: time
  RedisFails    \* whether the script may end in an error

ASSUME RateLimitAssumption ==
  /\ {Window, LimitIp, LimitUser, LimitEvents, MaxSkew, MaxDelay, MaxTime} \subseteq Nat
  /\ RedisFails \in BOOLEAN

Scopes == {"ip", "user", "events"}
Following == [ip |-> "user", user |-> "events", events |-> "idle"]

Keys == ({"ip"} \X Ips) \cup ({"user", "events"} \X Users)
Limit(k) == [ip |-> LimitIp, user |-> LimitUser, events |-> LimitEvents][k[1]]

VARIABLES
  now,      \* the clock of Redis
  zset,     \* zset[k]: the sorted set of a window
  expires,  \* expires[k]: when its key expires
  log,      \* log[k]: all entries ever added to it (history)
  scope,    \* scope[h]: the window the request of h is at
  client,   \* client[h]: address and user of that request
  sent,     \* sent[h]: when h read its clock
  stamp,    \* stamp[h]: now_ms, what it read
  skew      \* skew[h]: how far the clock of h's process is ahead

vars == <<now, zset, expires, log, scope, client, sent, stamp, skew>>

\* n tells entries apart, like the random part of the code's members.
Entries == [n : Nat, at : Nat, score : Int]

TypeOK ==
  /\ now \in Nat
  /\ zset \in [Keys -> SUBSET Entries]
  /\ expires \in [Keys -> Nat]
  /\ log \in [Keys -> SUBSET Entries]
  /\ scope \in [Handlers -> Scopes \cup {"idle"}]
  /\ client \in [Handlers -> [ip : Ips, user : Users]]
  /\ sent \in [Handlers -> Nat]
  /\ stamp \in [Handlers -> Int]
  /\ skew \in [Handlers -> -MaxSkew..MaxSkew]

Init ==
  /\ now = 0
  /\ zset = [k \in Keys |-> {}]
  /\ expires = [k \in Keys |-> 0]
  /\ log = [k \in Keys |-> {}]
  /\ scope = [h \in Handlers |-> "idle"]
  /\ client \in [Handlers -> [ip : Ips, user : Users]]
  /\ sent = [h \in Handlers |-> 0]
  /\ stamp = [h \in Handlers |-> 0]
  /\ skew \in [Handlers -> -MaxSkew..MaxSkew]

-----------------------------------------------------------------------------
KeyOf(h) ==
  <<scope[h], IF scope[h] = "ip" THEN client[h].ip ELSE client[h].user>>

\* _sliding_window begins: h reads its clock and sends the script for s.
Enter(h, s) ==
  /\ scope' = [scope EXCEPT ![h] = s]
  /\ sent' = [sent EXCEPT ![h] = now]
  /\ stamp' = [stamp EXCEPT ![h] = now + skew[h]]

Leave(h) ==
  /\ scope' = [scope EXCEPT ![h] = "idle"]
  /\ sent' = [sent EXCEPT ![h] = 0]
  /\ stamp' = [stamp EXCEPT ![h] = 0]

\* POST /events or /events/batch; a batch counts once, whatever it holds.
Arrive(h, c) ==
  /\ scope[h] = "idle"
  /\ client' = [client EXCEPT ![h] = c]
  /\ Enter(h, "ip")
  /\ UNCHANGED <<now, zset, expires, log, skew>>

\* ZREMRANGEBYSCORE 0 .. now - window.
Kept(h) == {e \in zset[KeyOf(h)] : e.score > stamp[h] - Window}

\* Mutant of Allowed: the limit is off by one.
AllowedOneMore(h) == Cardinality(Kept(h)) <= Limit(KeyOf(h))

\* ZCARD.
Allowed(h) == Cardinality(Kept(h)) < Limit(KeyOf(h))

\* Mutant of Renewed: PEXPIREAT, by the clock of the process.
RenewedByStamp(h) == IF stamp[h] + Window < 0 THEN 0 ELSE stamp[h] + Window

\* PEXPIRE.
Renewed(h) == now + Window

Added(h) == [n |-> Cardinality(log[KeyOf(h)]), at |-> now, score |-> stamp[h]]

\* The script's two branches: ZADD and PEXPIRE, or neither.
AddEntry(h) ==
  /\ Allowed(h)
  /\ zset' = [zset EXCEPT ![KeyOf(h)] = Kept(h) \cup {Added(h)}]
  /\ log' = [log EXCEPT ![KeyOf(h)] = @ \cup {Added(h)}]
  /\ expires' = [expires EXCEPT ![KeyOf(h)] = Renewed(h)]

\* Mutant of OnlyPrune: rejected requests count as well.
PruneAndCount(h) ==
  /\ ~Allowed(h)
  /\ zset' = [zset EXCEPT ![KeyOf(h)] = Kept(h) \cup {Added(h)}]
  /\ expires' = [expires EXCEPT ![KeyOf(h)] = Renewed(h)]
  /\ UNCHANGED log

OnlyPrune(h) ==
  /\ ~Allowed(h)
  /\ zset' = [zset EXCEPT ![KeyOf(h)] = Kept(h)]
  /\ UNCHANGED <<log, expires>>

\* The window admits the request, which goes on to the next one or to its
\* service.
Admit(h) ==
  /\ scope[h] # "idle"
  /\ AddEntry(h)
  /\ IF Following[scope[h]] = "idle" THEN Leave(h) ELSE Enter(h, Following[scope[h]])
  /\ UNCHANGED <<now, client, skew>>

\* RateLimitError; what earlier windows counted stays counted.
Reject(h) ==
  /\ scope[h] # "idle"
  /\ OnlyPrune(h)
  /\ Leave(h)
  /\ UNCHANGED <<now, client, skew>>

\* The command fails, before the script ran or after it.
ScriptFails(h) ==
  /\ RedisFails
  /\ scope[h] # "idle"
  /\ AddEntry(h) \/ OnlyPrune(h) \/ UNCHANGED <<zset, log, expires>>
  /\ Leave(h)
  /\ UNCHANGED <<now, client, skew>>

\* Time passes; Redis drops keys whose time to live is over.
Tick ==
  /\ now < MaxTime
  /\ \A h \in Handlers : scope[h] # "idle" => now < sent[h] + MaxDelay
  /\ now' = now + 1
  /\ zset' = [k \in Keys |-> IF expires[k] < now + 1 THEN {} ELSE zset[k]]
  /\ UNCHANGED <<expires, log, scope, client, sent, stamp, skew>>

Next ==
  \/ Tick
  \/ \E h \in Handlers :
       \/ \E c \in [ip : Ips, user : Users] : Arrive(h, c)
       \/ Admit(h) \/ Reject(h) \/ ScriptFails(h)

Spec == Init /\ [][Next]_vars

-----------------------------------------------------------------------------
\* How far the times of two scripts may disagree.
Slack == MaxDelay + 2 * MaxSkew

AddedSince(k, t) == {e \in log[k] : e.at > t}

(* A sliding window has no burst at a boundary (rate_limit.py:3-5): in no period
   of a window's length are more requests admitted than its limit, less what the
   clocks of the processes, read before the script runs, may be apart. *)
AtMostLimit ==
  \A k \in Keys :
    Cardinality(AddedSince(k, now - (Window - Slack))) <= Limit(k)

(* Nor is a request rejected without cause: the window has admitted its limit
   within its length, and the same margin. Rejected requests do not count. *)
RejectedAtLimit ==
  [][\A h \in Handlers :
       Reject(h) => Cardinality(AddedSince(KeyOf(h), now - (Window + Slack)))
                      >= Limit(KeyOf(h))]_vars

\* A script that is under way is late by MaxDelay at most.
StampsInMargin ==
  \A h \in Handlers : scope[h] # "idle" =>
    /\ stamp[h] = sent[h] + skew[h]
    /\ sent[h] <= now
    /\ now <= sent[h] + MaxDelay

EntriesInMargin ==
  \A k \in Keys : \A e \in log[k] :
    /\ e.at <= now
    /\ e.score <= e.at + MaxSkew
    /\ e.score + MaxSkew + MaxDelay >= e.at

(* Why: entries of the last Window - Slack are neither pruned by a request whose
   clock is ahead, nor expired with their key, which lives as long as its
   youngest entry counts. *)
WindowInvariant ==
  /\ TypeOK
  /\ StampsInMargin
  /\ EntriesInMargin
  /\ \A k \in Keys :
       /\ zset[k] \subseteq log[k]
       /\ Cardinality(zset[k]) <= Limit(k)
       /\ \A e \in log[k] : e.at + Window <= expires[k]
       /\ AddedSince(k, now - (Window - Slack)) \subseteq zset[k]

=============================================================================
