-------------------------- MODULE RateLimitProofs --------------------------
(***************************************************************************)
(* The windows of the rate limiter, for every number of requests, clients, *)
(* limits and clocks.                                                      *)
(***************************************************************************)
EXTENDS RateLimit, FiniteSetTheorems, TLAPS

\* The inductive invariant: sorted sets are finite.
LimiterInv == WindowInvariant /\ \A k \in Keys : IsFiniteSet(log[k])

LEMMA ConstantTypes ==
  /\ Window \in Nat /\ MaxSkew \in Nat /\ MaxDelay \in Nat /\ MaxTime \in Nat
  /\ Slack \in Nat
  /\ \A k \in Keys : Limit(k) \in Nat
BY RateLimitAssumption DEF Slack, Limit, Keys

LEMMA KeyOfType ==
  ASSUME TypeOK, NEW h \in Handlers, scope[h] # "idle"
  PROVE  KeyOf(h) \in Keys
BY DEF TypeOK, KeyOf, Keys, Scopes

LEMMA StampBounds ==
  ASSUME TypeOK, StampsInMargin, NEW h \in Handlers, scope[h] # "idle"
  PROVE  /\ stamp[h] <= now + MaxSkew
         /\ stamp[h] + MaxSkew + MaxDelay >= now
<1>1. /\ now \in Nat /\ sent[h] \in Nat
      /\ skew[h] \in Int /\ -MaxSkew <= skew[h] /\ skew[h] <= MaxSkew
  BY ConstantTypes DEF TypeOK
<1> QED
  BY <1>1, ConstantTypes DEF StampsInMargin

(* ZREMRANGEBYSCORE leaves a part of the entries there ever were. *)
LEMMA KeptEntries ==
  ASSUME LimiterInv, NEW h \in Handlers, scope[h] # "idle"
  PROVE  /\ Kept(h) \subseteq zset[KeyOf(h)]
         /\ Kept(h) \subseteq log[KeyOf(h)]
         /\ IsFiniteSet(Kept(h))
         /\ Cardinality(Kept(h)) \in Nat
         /\ Cardinality(Kept(h)) <= Limit(KeyOf(h))
<1> DEFINE k == KeyOf(h)
<1>1. k \in Keys
  BY KeyOfType DEF LimiterInv, WindowInvariant
<1>2. Kept(h) \subseteq zset[k] /\ zset[k] \subseteq log[k] /\ IsFiniteSet(log[k])
  BY <1>1 DEF Kept, LimiterInv, WindowInvariant
<1>3. IsFiniteSet(zset[k])
  BY <1>2, FS_Subset
<1>4. /\ IsFiniteSet(Kept(h)) /\ Cardinality(Kept(h)) \in Nat
      /\ Cardinality(zset[k]) \in Nat
      /\ Cardinality(Kept(h)) <= Cardinality(zset[k])
  BY <1>2, <1>3, FS_Subset, FS_CardinalityType
<1>5. Cardinality(zset[k]) <= Limit(k) /\ Limit(k) \in Nat
  BY <1>1, ConstantTypes DEF LimiterInv, WindowInvariant
<1> QED
  BY <1>2, <1>4, <1>5

(* It leaves all that are younger than the window less the margin. *)
LEMMA RecentAreKept ==
  ASSUME LimiterInv, NEW h \in Handlers, scope[h] # "idle"
  PROVE  AddedSince(KeyOf(h), now - (Window - Slack)) \subseteq Kept(h)
<1> DEFINE k == KeyOf(h)
<1>1. k \in Keys
  BY KeyOfType DEF LimiterInv, WindowInvariant
<1> SUFFICES ASSUME NEW e \in log[k], e.at > now - (Window - Slack)
             PROVE  e \in Kept(h)
  BY DEF AddedSince
<1>2. e \in zset[k]
  BY <1>1 DEF LimiterInv, WindowInvariant, AddedSince
<1>3. /\ e.score \in Int /\ e.at \in Nat /\ now \in Nat /\ stamp[h] \in Int
  BY <1>1 DEF LimiterInv, WindowInvariant, TypeOK, Entries
<1>4. stamp[h] <= now + MaxSkew /\ e.score + MaxSkew + MaxDelay >= e.at
  BY <1>1, StampBounds DEF LimiterInv, WindowInvariant, EntriesInMargin
<1>5. e.score > stamp[h] - Window
  BY <1>3, <1>4, ConstantTypes DEF Slack
<1> QED
  BY <1>2, <1>5 DEF Kept

-----------------------------------------------------------------------------
(* What the script does to the windows. *)
WindowsOk(k) ==
  /\ IsFiniteSet(log[k])
  /\ zset[k] \subseteq log[k]
  /\ Cardinality(zset[k]) <= Limit(k)
  /\ \A e \in log[k] : e.at + Window <= expires[k]
  /\ AddedSince(k, now - (Window - Slack)) \subseteq zset[k]

LEMMA ScriptKeepsWindows ==
  ASSUME LimiterInv, NEW h \in Handlers, scope[h] # "idle", UNCHANGED now,
         AddEntry(h) \/ OnlyPrune(h) \/ UNCHANGED <<zset, log, expires>>
  PROVE  /\ zset' \in [Keys -> SUBSET Entries]
         /\ log' \in [Keys -> SUBSET Entries]
         /\ expires' \in [Keys -> Nat]
         /\ EntriesInMargin'
         /\ \A k \in Keys : WindowsOk(k)'
<1> DEFINE c == KeyOf(h)
<1>0. /\ c \in Keys /\ Kept(h) \subseteq zset[c] /\ Kept(h) \subseteq log[c]
      /\ IsFiniteSet(Kept(h)) /\ Cardinality(Kept(h)) \in Nat
      /\ Cardinality(Kept(h)) <= Limit(c) /\ Limit(c) \in Nat
  BY KeyOfType, KeptEntries, ConstantTypes DEF LimiterInv, WindowInvariant
<1>1. /\ zset \in [Keys -> SUBSET Entries] /\ log \in [Keys -> SUBSET Entries]
      /\ expires \in [Keys -> Nat] /\ now \in Nat /\ stamp[h] \in Int
  BY DEF LimiterInv, WindowInvariant, TypeOK
<1>2. \A k \in Keys : WindowsOk(k)
  BY DEF LimiterInv, WindowInvariant, WindowsOk
<1>3. AddedSince(c, now - (Window - Slack)) \subseteq Kept(h)
  BY RecentAreKept
<1>4. CASE AddEntry(h)
  <2>1. Added(h) \in Entries /\ Added(h).at = now /\ Added(h).score = stamp[h]
    <3>1. Cardinality(log[c]) \in Nat
      BY <1>0, FS_CardinalityType DEF LimiterInv
    <3> QED
      BY <1>1, <3>1 DEF Added, Entries
  <2>2. /\ zset' = [zset EXCEPT ![c] = Kept(h) \cup {Added(h)}]
        /\ log' = [log EXCEPT ![c] = log[c] \cup {Added(h)}]
        /\ expires' = [expires EXCEPT ![c] = now + Window]
        /\ Cardinality(Kept(h)) < Limit(c)
    BY <1>0, <1>1, <1>4 DEF AddEntry, Allowed, Renewed
  <2>3. /\ zset' \in [Keys -> SUBSET Entries] /\ log' \in [Keys -> SUBSET Entries]
        /\ expires' \in [Keys -> Nat]
    BY <1>0, <1>1, <2>1, <2>2, ConstantTypes
  <2>4. EntriesInMargin'
    <3>1. /\ stamp[h] <= now + MaxSkew /\ stamp[h] + MaxSkew + MaxDelay >= now
      BY StampBounds DEF LimiterInv, WindowInvariant
    <3>2. EntriesInMargin
      BY DEF LimiterInv, WindowInvariant
    <3>3. ASSUME NEW k \in Keys, NEW e \in log'[k]
          PROVE  /\ e.at <= now
                 /\ e.score <= e.at + MaxSkew
                 /\ e.score + MaxSkew + MaxDelay >= e.at
      <4>1. CASE e \in log[k]
        BY <3>2, <4>1 DEF EntriesInMargin
      <4>2. CASE e \notin log[k]
        <5>1. e = Added(h)
          BY <1>0, <1>1, <2>2, <3>3, <4>2
        <5> QED
          BY <1>1, <2>1, <3>1, <5>1
      <4> QED
        BY <4>1, <4>2
    <3> QED
      BY <3>3 DEF EntriesInMargin
  <2>5. ASSUME NEW k \in Keys, k # c
        PROVE  WindowsOk(k)'
    <3>1. zset'[k] = zset[k] /\ log'[k] = log[k] /\ expires'[k] = expires[k]
      BY <1>1, <2>2, <2>5
    <3>2. WindowsOk(k)
      BY <1>2
    <3> QED
      BY <3>1, <3>2 DEF WindowsOk, AddedSince, Limit
  <2>6. ASSUME NEW k \in Keys, k = c
        PROVE  WindowsOk(k)'
    <3>1. /\ zset'[k] = Kept(h) \cup {Added(h)} /\ log'[k] = log[k] \cup {Added(h)}
          /\ expires'[k] = now + Window
      BY <1>0, <1>1, <2>2, <2>6
    <3>2. IsFiniteSet(log[k] \cup {Added(h)})
      BY <1>0, FS_AddElement DEF LimiterInv
    <3>3. Cardinality(Kept(h) \cup {Added(h)}) <= Limit(k)
      <4>1. Cardinality(Kept(h) \cup {Added(h)}) \in {Cardinality(Kept(h)), Cardinality(Kept(h)) + 1}
        BY <1>0, FS_AddElement
      <4> QED
        BY <1>0, <2>2, <2>6, <4>1
    <3>4. \A e \in log[k] : e.at + Window <= now + Window
      BY <1>0, <1>1, ConstantTypes
      DEF LimiterInv, WindowInvariant, EntriesInMargin, Entries
    <3>5. \A e \in log[k] \cup {Added(h)} : e.at + Window <= now + Window
      BY <1>1, <2>1, <3>4, ConstantTypes
    <3>6. {e \in log[k] \cup {Added(h)} : e.at > now - (Window - Slack)}
            \subseteq Kept(h) \cup {Added(h)}
      BY <1>3, <2>6 DEF AddedSince
    <3>7. Limit(k)' = Limit(k) /\ Slack' = Slack
      BY DEF Limit, Slack
    <3>8. Kept(h) \cup {Added(h)} \subseteq log[k] \cup {Added(h)}
      BY <1>0, <2>6
    <3>9. /\ IsFiniteSet(log'[k]) /\ zset'[k] \subseteq log'[k]
          /\ Cardinality(zset'[k]) <= Limit(k)
          /\ \A e \in log'[k] : e.at + Window <= expires'[k]
          /\ {e \in log'[k] : e.at > now - (Window - Slack)} \subseteq zset'[k]
      BY <3>1, <3>2, <3>3, <3>5, <3>6, <3>8
    <3> HIDE DEF c
    <3> QED
      BY <3>7, <3>9 DEF WindowsOk, AddedSince
  <2> QED
    BY <2>3, <2>4, <2>5, <2>6
<1>5. CASE OnlyPrune(h)
  <2>1. /\ zset' = [zset EXCEPT ![c] = Kept(h)] /\ UNCHANGED <<log, expires>>
    BY <1>5 DEF OnlyPrune
  <2>2. zset' \in [Keys -> SUBSET Entries]
    BY <1>0, <1>1, <2>1
  <2>3. EntriesInMargin'
    BY <2>1 DEF LimiterInv, WindowInvariant, EntriesInMargin
  <2>4. ASSUME NEW k \in Keys
        PROVE  WindowsOk(k)'
    <3>1. CASE k = c
      <4>1. zset'[c] = Kept(h)
        BY <1>0, <1>1, <2>1
      <4>2. WindowsOk(c)
        BY <1>0, <1>2
      <4> QED
        BY <1>0, <1>3, <2>1, <3>1, <4>1, <4>2 DEF WindowsOk, AddedSince, Limit
    <3>2. CASE k # c
      <4>1. zset'[k] = zset[k]
        BY <1>1, <2>1, <3>2
      <4> QED
        BY <1>2, <2>1, <4>1 DEF WindowsOk, AddedSince, Limit
    <3> QED
      BY <3>1, <3>2
  <2> QED
    BY <1>1, <2>1, <2>2, <2>3, <2>4
<1>6. CASE UNCHANGED <<zset, log, expires>>
  BY <1>1, <1>2, <1>6
  DEF WindowsOk, AddedSince, Limit, LimiterInv, WindowInvariant, EntriesInMargin
<1> QED
  BY <1>4, <1>5, <1>6

\* How a request goes on when the script has run.
LEMMA EnterOrLeave ==
  ASSUME TypeOK, NEW h \in Handlers, UNCHANGED <<now, skew, client>>,
         Leave(h) \/ \E s \in Scopes : Enter(h, s)
  PROVE  /\ scope' \in [Handlers -> Scopes \cup {"idle"}]
         /\ sent' \in [Handlers -> Nat]
         /\ stamp' \in [Handlers -> Int]
         /\ scope'[h] = "idle" \/ (sent'[h] = now /\ stamp'[h] = now + skew[h])
         /\ \A o \in Handlers \ {h} :
              scope'[o] = scope[o] /\ sent'[o] = sent[o] /\ stamp'[o] = stamp[o]
<1>1. now \in Nat /\ skew[h] \in Int
  BY ConstantTypes DEF TypeOK
<1>2. CASE Leave(h)
  BY <1>1, <1>2 DEF Leave, TypeOK
<1>3. ASSUME NEW s \in Scopes, Enter(h, s)
      PROVE  /\ scope' \in [Handlers -> Scopes \cup {"idle"}]
             /\ sent' \in [Handlers -> Nat]
             /\ stamp' \in [Handlers -> Int]
             /\ sent'[h] = now /\ stamp'[h] = now + skew[h]
             /\ \A o \in Handlers \ {h} :
                  scope'[o] = scope[o] /\ sent'[o] = sent[o] /\ stamp'[o] = stamp[o]
  BY <1>1, <1>3 DEF Enter, TypeOK
<1> QED
  BY <1>2, <1>3

\* A request that has just read its clock is within the margin.
LEMMA StampsStayInMargin ==
  ASSUME TypeOK, WindowInvariant, NEW h \in Handlers, UNCHANGED <<now, skew>>,
         scope'[h] = "idle" \/ (sent'[h] = now /\ stamp'[h] = now + skew[h]),
         \A o \in Handlers \ {h} :
           scope'[o] = scope[o] /\ sent'[o] = sent[o] /\ stamp'[o] = stamp[o]
  PROVE  StampsInMargin'
<1>1. now \in Nat /\ skew[h] \in Int /\ skew[h] <= MaxSkew /\ -MaxSkew <= skew[h]
  BY ConstantTypes DEF TypeOK
<1>2. ASSUME NEW o \in Handlers, scope'[o] # "idle"
      PROVE  /\ stamp'[o] = sent'[o] + skew[o]
             /\ sent'[o] <= now /\ now <= sent'[o] + MaxDelay
  <2>1. CASE o = h
    BY <1>1, <1>2, <2>1, ConstantTypes
  <2>2. CASE o # h
    BY <1>2, <2>2 DEF WindowInvariant, StampsInMargin
  <2> QED
    BY <2>1, <2>2
<1> QED
  BY <1>2 DEF StampsInMargin

LEMMA InitLimiterInv == Init => LimiterInv
<1> SUFFICES ASSUME Init PROVE LimiterInv
  OBVIOUS
<1>1. TypeOK
  BY ConstantTypes DEF Init, TypeOK
<1>2. StampsInMargin /\ EntriesInMargin
  BY DEF Init, StampsInMargin, EntriesInMargin
<1>3. ASSUME NEW k \in Keys
      PROVE  /\ zset[k] = {} /\ log[k] = {} /\ Limit(k) \in Nat
             /\ IsFiniteSet(log[k]) /\ Cardinality(zset[k]) = 0
  BY FS_EmptySet, ConstantTypes DEF Init
<1>4. \A h \in Handlers : scope[h] = "idle"
  BY DEF Init
<1> QED
  BY <1>1, <1>2, <1>3, <1>4 DEF LimiterInv, WindowInvariant, AddedSince

LEMMA TickKeepsLimiterInv == LimiterInv /\ Tick => LimiterInv'
<1> SUFFICES ASSUME LimiterInv, Tick PROVE LimiterInv'
  OBVIOUS
<1>1. TypeOK /\ now \in Nat /\ now' = now + 1
      /\ UNCHANGED <<expires, log, scope, client, sent, stamp, skew>>
  BY DEF LimiterInv, WindowInvariant, TypeOK, Tick
<1>2. TypeOK'
  BY <1>1 DEF Tick, TypeOK
<1>3. ASSUME NEW h \in Handlers, scope[h] # "idle"
      PROVE  /\ stamp[h] = sent[h] + skew[h]
             /\ sent[h] <= now + 1 /\ now + 1 <= sent[h] + MaxDelay
  BY <1>1, <1>3, ConstantTypes
  DEF Tick, LimiterInv, WindowInvariant, StampsInMargin, TypeOK
<1>4. EntriesInMargin'
  <2>1. EntriesInMargin
    BY DEF LimiterInv, WindowInvariant
  <2>2. \A k \in Keys : \A e \in log[k] : e.at \in Nat
    BY <1>1 DEF TypeOK, Entries
  <2> QED
    BY <1>1, <2>1, <2>2 DEF EntriesInMargin
<1>5. ASSUME NEW k \in Keys
      PROVE  WindowsOk(k)'
  <2>1. WindowsOk(k)
    BY DEF LimiterInv, WindowInvariant, WindowsOk
  <2>2. zset'[k] = IF expires[k] < now + 1 THEN {} ELSE zset[k]
    BY DEF Tick
  <2>3. \A e \in log[k] : e.at \in Nat /\ expires[k] \in Nat
    BY <1>1 DEF TypeOK, Entries
  <2>4. ASSUME NEW e \in log[k], e.at > now + 1 - (Window - Slack)
        PROVE  e \in zset'[k]
    <3>1. e.at > now - (Window - Slack)
      BY <1>1, <2>3, <2>4, ConstantTypes
    <3>2. e \in zset[k] /\ e.at + Window <= expires[k]
      BY <2>1, <3>1 DEF WindowsOk, AddedSince
    <3>3. expires[k] >= now + 1
      BY <1>1, <2>3, <2>4, <3>2, ConstantTypes
    <3> QED
      BY <1>1, <2>2, <2>3, <3>2, <3>3
  <2>5. zset'[k] \subseteq log[k] /\ Cardinality(zset'[k]) <= Limit(k)
    <3>1. Cardinality({}) = 0
      BY FS_EmptySet
    <3> QED
      BY <2>1, <2>2, <3>1, ConstantTypes DEF WindowsOk
  <2>6. Limit(k)' = Limit(k) /\ Slack' = Slack
    BY DEF Limit, Slack
  <2>7. IsFiniteSet(log'[k]) /\ \A e \in log'[k] : e.at + Window <= expires'[k]
    BY <1>1, <2>1 DEF WindowsOk
  <2>8. zset'[k] \subseteq log'[k] /\ Cardinality(zset'[k]) <= Limit(k)
    BY <1>1, <2>5
  <2>9. AddedSince(k, now - (Window - Slack))' \subseteq zset'[k]
    <3>1. ASSUME NEW e \in AddedSince(k, now - (Window - Slack))'
          PROVE  e \in zset'[k]
      <4>1. e \in log[k] /\ e.at > now + 1 - (Window - Slack)
        BY <1>1, <2>6, <3>1, ConstantTypes DEF AddedSince, Slack
      <4> QED
        BY <2>4, <4>1
    <3> QED
      BY <3>1
  <2> QED
    BY <2>6, <2>7, <2>8, <2>9 DEF WindowsOk
<1>6. StampsInMargin'
  BY <1>1, <1>3 DEF StampsInMargin
<1> QED
  BY <1>1, <1>2, <1>3, <1>4, <1>5, <1>6 DEF LimiterInv, WindowInvariant, WindowsOk

LEMMA ScriptKeepsLimiterInv ==
  ASSUME LimiterInv, NEW h \in Handlers, scope[h] # "idle",
         UNCHANGED <<now, client, skew>>,
         AddEntry(h) \/ OnlyPrune(h) \/ UNCHANGED <<zset, log, expires>>,
         Leave(h) \/ \E s \in Scopes : Enter(h, s)
  PROVE  LimiterInv'
<1>1. TypeOK /\ WindowInvariant
  BY DEF LimiterInv, WindowInvariant
<1>2. /\ zset' \in [Keys -> SUBSET Entries]
      /\ log' \in [Keys -> SUBSET Entries]
      /\ expires' \in [Keys -> Nat]
      /\ EntriesInMargin'
      /\ \A k \in Keys : WindowsOk(k)'
  BY ScriptKeepsWindows
<1>3. /\ scope' \in [Handlers -> Scopes \cup {"idle"}]
      /\ sent' \in [Handlers -> Nat]
      /\ stamp' \in [Handlers -> Int]
      /\ scope'[h] = "idle" \/ (sent'[h] = now /\ stamp'[h] = now + skew[h])
      /\ \A o \in Handlers \ {h} :
           scope'[o] = scope[o] /\ sent'[o] = sent[o] /\ stamp'[o] = stamp[o]
  BY <1>1, EnterOrLeave
<1>4. TypeOK'
  BY <1>1, <1>2, <1>3 DEF TypeOK
<1>5. StampsInMargin'
  BY <1>1, <1>3, StampsStayInMargin
<1> QED
  BY <1>2, <1>4, <1>5 DEF LimiterInv, WindowInvariant, WindowsOk

LEMMA ArriveKeepsLimiterInv ==
  ASSUME LimiterInv, NEW h \in Handlers, NEW c \in [ip : Ips, user : Users],
         Arrive(h, c)
  PROVE  LimiterInv'
<1>1. /\ TypeOK /\ WindowInvariant /\ Enter(h, "ip")
      /\ UNCHANGED <<now, zset, expires, log, skew>>
      /\ client' = [client EXCEPT ![h] = c]
  BY DEF LimiterInv, WindowInvariant, Arrive
<1>2. now \in Nat /\ skew[h] \in Int
  BY <1>1, ConstantTypes DEF TypeOK
<1>3. /\ scope' \in [Handlers -> Scopes \cup {"idle"}]
      /\ sent' \in [Handlers -> Nat]
      /\ stamp' \in [Handlers -> Int]
      /\ sent'[h] = now /\ stamp'[h] = now + skew[h]
      /\ \A o \in Handlers \ {h} :
           scope'[o] = scope[o] /\ sent'[o] = sent[o] /\ stamp'[o] = stamp[o]
  BY <1>1, <1>2 DEF Enter, TypeOK, Scopes
<1>4. TypeOK'
  BY <1>1, <1>3 DEF TypeOK
<1>5. StampsInMargin'
  BY <1>1, <1>3, StampsStayInMargin
<1>6. EntriesInMargin'
  BY <1>1 DEF WindowInvariant, EntriesInMargin
<1>7. ASSUME NEW k \in Keys
      PROVE  WindowsOk(k)'
  <2>1. WindowsOk(k)
    BY DEF LimiterInv, WindowInvariant, WindowsOk
  <2> QED
    BY <1>1, <2>1 DEF WindowsOk, AddedSince, Limit, Slack
<1> QED
  BY <1>4, <1>5, <1>6, <1>7 DEF LimiterInv, WindowInvariant, WindowsOk

LEMMA NextKeepsLimiterInv == LimiterInv /\ [Next]_vars => LimiterInv'
<1> SUFFICES ASSUME LimiterInv, [Next]_vars PROVE LimiterInv'
  OBVIOUS
<1>1. CASE Tick
  BY <1>1, TickKeepsLimiterInv
<1>2. ASSUME NEW h \in Handlers, NEW c \in [ip : Ips, user : Users], Arrive(h, c)
      PROVE  LimiterInv'
  BY <1>2, ArriveKeepsLimiterInv
<1>3. ASSUME NEW h \in Handlers, Admit(h)
      PROVE  LimiterInv'
  <2>1. scope[h] \in Scopes
    BY <1>3 DEF Admit, LimiterInv, WindowInvariant, TypeOK
  <2>2. Leave(h) \/ \E s \in Scopes : Enter(h, s)
    BY <1>3, <2>1 DEF Admit, Following, Scopes
  <2> QED
    BY <1>3, <2>2, ScriptKeepsLimiterInv DEF Admit
<1>4. ASSUME NEW h \in Handlers, Reject(h)
      PROVE  LimiterInv'
  BY <1>4, ScriptKeepsLimiterInv DEF Reject
<1>5. ASSUME NEW h \in Handlers, ScriptFails(h)
      PROVE  LimiterInv'
  BY <1>5, ScriptKeepsLimiterInv DEF ScriptFails
<1>6. CASE UNCHANGED vars
  BY <1>6 DEF vars, LimiterInv, WindowInvariant, TypeOK, StampsInMargin,
              EntriesInMargin, AddedSince, Limit, Slack
<1> QED
  BY <1>1, <1>2, <1>3, <1>4, <1>5, <1>6 DEF Next

LEMMA LimiterInvHolds == Spec => []LimiterInv
<1> QED
  BY InitLimiterInv, NextKeepsLimiterInv, PTL DEF Spec

-----------------------------------------------------------------------------
(* Entries that still count are neither pruned nor expired (rate_limit.py:29,
   40), and a sorted set never holds more than its limit. *)
THEOREM WindowInvariantHolds == Spec => []WindowInvariant
<1>1. LimiterInv => WindowInvariant
  BY DEF LimiterInv
<1> QED
  BY <1>1, LimiterInvHolds, PTL

(* In no period of a window's length, less the margin of the clocks, does a
   window admit more requests than its limit (rate_limit.py:3-5). *)
THEOREM AtMostLimitHolds == Spec => []AtMostLimit
<1>1. ASSUME LimiterInv
      PROVE  AtMostLimit
  <2> SUFFICES ASSUME NEW k \in Keys
               PROVE  Cardinality(AddedSince(k, now - (Window - Slack))) <= Limit(k)
    BY DEF AtMostLimit
  <2> DEFINE recent == AddedSince(k, now - (Window - Slack))
  <2>1. /\ recent \subseteq zset[k] /\ zset[k] \subseteq log[k] /\ IsFiniteSet(log[k])
        /\ Cardinality(zset[k]) <= Limit(k)
    BY <1>1 DEF LimiterInv, WindowInvariant
  <2>2. IsFiniteSet(zset[k])
    BY <2>1, FS_Subset
  <2>3. /\ IsFiniteSet(recent) /\ Cardinality(recent) <= Cardinality(zset[k])
    BY <2>1, <2>2, FS_Subset
  <2>4. Cardinality(recent) \in Nat /\ Cardinality(zset[k]) \in Nat
    BY <2>2, <2>3, FS_CardinalityType
  <2> QED
    BY <2>1, <2>3, <2>4, ConstantTypes
<1>2. LimiterInv => AtMostLimit
  BY <1>1
<1> QED
  BY <1>2, LimiterInvHolds, PTL

(* A window that rejects a request has admitted its limit within its length and
   the margin (rate_limit.py:29-37): what counts is never old. *)
THEOREM RejectedAtLimitHolds == Spec => RejectedAtLimit
<1>1. ASSUME LimiterInv, NEW h \in Handlers, Reject(h)
      PROVE  Cardinality(AddedSince(KeyOf(h), now - (Window + Slack))) >= Limit(KeyOf(h))
  <2> DEFINE k == KeyOf(h)
             since == AddedSince(k, now - (Window + Slack))
  <2>1. scope[h] # "idle" /\ ~(Cardinality(Kept(h)) < Limit(k))
    BY <1>1 DEF Reject, OnlyPrune, Allowed
  <2>2. k \in Keys
    BY <1>1, <2>1, KeyOfType DEF LimiterInv, WindowInvariant
  <2>3. Kept(h) \subseteq log[k] /\ IsFiniteSet(log[k]) /\ Cardinality(Kept(h)) \in Nat
    BY <1>1, <2>1, <2>2, KeptEntries DEF LimiterInv
  <2>4. Kept(h) \subseteq since
    <3> SUFFICES ASSUME NEW e \in Kept(h)
                 PROVE  e.at > now - (Window + Slack)
      BY <2>3 DEF AddedSince
    <3>1. e \in log[k] /\ e.score > stamp[h] - Window
      BY <2>3 DEF Kept
    <3>2. e.score \in Int /\ e.at \in Nat /\ now \in Nat /\ stamp[h] \in Int
      BY <1>1, <2>2, <3>1 DEF LimiterInv, WindowInvariant, TypeOK, Entries
    <3>3. e.score <= e.at + MaxSkew /\ stamp[h] + MaxSkew + MaxDelay >= now
      BY <1>1, <2>1, <2>2, <3>1, StampBounds
      DEF LimiterInv, WindowInvariant, EntriesInMargin
    <3> QED
      BY <3>1, <3>2, <3>3, ConstantTypes DEF Slack
  <2>5. since \subseteq log[k]
    BY DEF AddedSince
  <2>6. IsFiniteSet(since)
    BY <2>3, <2>5, FS_Subset
  <2>7. Cardinality(Kept(h)) <= Cardinality(since) /\ Cardinality(since) \in Nat
    BY <2>4, <2>6, FS_Subset, FS_CardinalityType
  <2> QED
    BY <2>1, <2>2, <2>3, <2>7, ConstantTypes
<1>2. LimiterInv /\ [Next]_vars =>
        [\A h \in Handlers :
           Reject(h) => Cardinality(AddedSince(KeyOf(h), now - (Window + Slack)))
                          >= Limit(KeyOf(h))]_vars
  BY <1>1
<1> QED
  BY <1>2, LimiterInvHolds, PTL DEF Spec, RejectedAtLimit

=============================================================================
