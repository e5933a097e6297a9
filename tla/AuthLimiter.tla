---------------------------- MODULE AuthLimiter ----------------------------
(***************************************************************************)
(* The limiter of failed authentications per client address                *)
(* (crates/rdpcore-server/src/auth_limit.rs): pure operators on its map,   *)
(* applied under its lock. Time is counted in the unit of WINDOW and       *)
(* LOCKOUT. An operation that iterates over the hash map to find a minimum *)
(* may pick any of several equal ones, so it returns the set of maps it    *)
(* can leave.                                                              *)
(***************************************************************************)
EXTENDS Integers, FiniteSets, Functions

CONSTANTS MAX_FAILURES, WINDOW, LOCKOUT, MAX_TRACKED

ASSUME LimiterAssumption ==
    /\ {MAX_FAILURES, WINDOW, LOCKOUT, MAX_TRACKED} \subseteq Nat \ {0}
    /\ WINDOW < LOCKOUT

\* locked_until of an entry that is not locked: a lockout ends after time 0.
Unlocked == 0

NoFailures == <<>>      \* the empty map

FailureState(MaxTime) ==
    [count : Nat, first : 0 .. MaxTime, locked_until : 0 .. MaxTime + LOCKOUT]

Locked(state) == state.locked_until # Unlocked

entry_live(state, now) ==
    IF Locked(state) THEN now < state.locked_until
                     ELSE now - state.first <= WINDOW

gc(map, now) == Restrict(map, {ip \in DOMAIN map : entry_live(map[ip], now)})

\* Mutant: the oldest entry goes, locked or not.
NoLaterVictim_oldest(s, t) == s.first <= t.first

\* The order of the victims: unlocked before locked, then the oldest first.
NoLaterVictim(s, t) ==
    \/ ~Locked(s) /\ Locked(t)
    \/ Locked(s) = Locked(t) /\ s.first <= t.first

evict_if_full(map, incoming) ==
    IF Cardinality(DOMAIN map) < MAX_TRACKED \/ incoming \in DOMAIN map
    THEN {map}
    ELSE {Restrict(map, DOMAIN map \ {ip}) : ip \in
            {v \in DOMAIN map : \A w \in DOMAIN map : NoLaterVictim(map[v], map[w])}}

is_blocked(map, ip, now) ==
    LET kept == gc(map, now)
    IN  ip \in DOMAIN kept /\ Locked(kept[ip]) /\ now < kept[ip].locked_until

record_success(map, ip) == Restrict(map, DOMAIN map \ {ip})

\* Mutant: the lockout starts one failure late.
Counted_late(state, now) ==
    IF Locked(state) /\ now < state.locked_until THEN state
    ELSE LET count == state.count + 1
         IN  [state EXCEPT !.count = count,
                           !.locked_until = IF count > MAX_FAILURES
                                            THEN now + LOCKOUT ELSE @]

\* One more failure of an entry; a locked one is left as it is.
Counted(state, now) ==
    IF Locked(state) /\ now < state.locked_until THEN state
    ELSE LET fresh == IF now - state.first > WINDOW
                      THEN [count |-> 0, first |-> now, locked_until |-> Unlocked]
                      ELSE state
             count == fresh.count + 1
         IN  [fresh EXCEPT !.count = count,
                           !.locked_until = IF count >= MAX_FAILURES
                                            THEN now + LOCKOUT ELSE @]

record_failure(map, ip, now) ==
    {LET old == IF ip \in DOMAIN m THEN m[ip]
                ELSE [count |-> 0, first |-> now, locked_until |-> Unlocked]
     IN  [a \in DOMAIN m \cup {ip} |-> IF a = ip THEN Counted(old, now) ELSE m[a]]
       : m \in evict_if_full(gc(map, now), ip)}
=============================================================================
