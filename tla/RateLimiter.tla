---------------------------- MODULE RateLimiter ----------------------------
(***************************************************************************)
(* The limiter of the public endpoints (common/middleware/rate_limit.rs):  *)
(* a fixed window per client address, in a table that is swept of windows  *)
(* that are over when it is full.                                          *)
(*                                                                         *)
(* Time is kept as ages, in ticks: of a window since it started, of a      *)
(* request since it read the clock.  A request reads the clock before it   *)
(* takes the limiter's lock, so that one with an older time may come       *)
(* after one with a newer time.  A tick is longer than any wait for the    *)
(* lock: at most one ends meanwhile (MaxDelay).  The address of a client   *)
(* is what the trusted proxy appends to whatever X-Forwarded-For the       *)
(* client sent.  Requests behind the limiter are the subject of the other  *)
(* modules.                                                                *)
(***************************************************************************)
EXTENDS Integers, Sequences, FiniteSets, SequencesExt, FiniteSetsExt

CONSTANTS Client,       \* the real clients, and so their addresses
          Proxy,        \* the address of the reverse proxy
          Garbage,      \* a header entry that is not an address
          TrustProxy,   \* TRUST_PROXY_HEADERS: the proxy is there
          MaxRequests,  \* RATE_LIMIT_PER_MINUTE
          Window,       \* the window (60 s), in ticks
          MaxTracked,   \* MAX_TRACKED_CLIENTS (10000)
          Slot,         \* bound: the places for requests at the lock
          MaxDelay,     \* bound: ticks between the clock and the lock
          Observed,     \* the client whose history is kept: any one of them
          MaxAsked      \* bound: its requests within the horizon

ASSUME LimiterAssumption == /\ MaxRequests \in Nat \ {0} /\ Window \in Nat \ {0}
                            /\ MaxTracked \in Nat /\ MaxDelay \in 0..1
                            /\ TrustProxy \in BOOLEAN
                            /\ Observed \in Client /\ MaxAsked \in Nat
                            /\ Garbage \notin Client \cup {Proxy}

Address == Client \cup {Proxy}

\* How far back the history of the observed client is kept: a request that is decided now may
\* be counted in a window whose other requests read the clock this long ago.
Horizon == Window + 2 * MaxDelay

VARIABLES hits,     \* the limiter's table: the age of a client's window and the count in it
          pending,  \* the requests that have read the clock and wait for the lock
          key,      \* the address such a request is limited by
          owner,    \* the client that really sent it
          age,      \* ticks since it read the clock
          asked,    \* history: the decided requests of the observed client, by age
          admitted  \* history: those of them that were let in

limiterVars == <<hits, pending, key, owner, age, asked, admitted>>

\* Counts past the limit are not told apart.
EntryType == [age : 0..(Window + MaxDelay), count : 0..(MaxRequests + 1)]

Past == [0..Horizon -> Nat]

LimiterTypeOK == /\ DOMAIN hits \subseteq Address /\ hits \in [DOMAIN hits -> EntryType]
                 /\ pending \subseteq Slot
                 /\ key \in [Slot -> Address]
                 /\ owner \in [Slot -> Client]
                 /\ age \in [Slot -> 0..MaxDelay]
                 /\ asked \in Past
                 /\ admitted \in Past

NoHistory == [t \in 0..Horizon |-> 0]

\* RateLimiter::new
LimiterInit == /\ hits = [a \in {} |-> [age |-> 0, count |-> 0]]
               /\ pending = {}
               /\ key = [r \in Slot |-> Proxy]
               /\ owner = [r \in Slot |-> Observed]
               /\ age = [r \in Slot |-> 0]
               /\ asked = NoHistory
               /\ admitted = NoHistory

\* The requests a history tells of in some ticks, one point for each.
Points(past, ticks) == UNION {{t} \X (1..past[t]) : t \in ticks}

Total(past) == Cardinality(Points(past, 0..Horizon))

-----------------------------------------------------------------------------
(* Who asks *)

\* Seeded fault: the left-most entry is believed.
LeftmostIp(header, peer) ==
    IF TrustProxy /\ header # <<>> /\ Head(header) # Garbage THEN Head(header) ELSE peer

\* net::client_ip: the right-most entry, if it is an address, and the TCP peer otherwise.
ClientIp(header, peer) ==
    IF TrustProxy /\ header # <<>> /\ Last(header) # Garbage THEN Last(header) ELSE peer

\* enforce, up to the lock.  The client may have sent a header of its own, to which the proxy,
\* when there is one, has appended the address the request came from.
Arrive(r, c, sent) ==
    /\ r \notin pending
    /\ c = Observed =>
          Total(asked) + Cardinality({q \in pending : owner[q] = Observed}) < MaxAsked
    /\ pending' = pending \cup {r}
    /\ owner' = [owner EXCEPT ![r] = c]
    /\ key' = [key EXCEPT ![r] = IF TrustProxy THEN ClientIp(Append(sent, c), Proxy)
                                               ELSE ClientIp(sent, c)]
    /\ UNCHANGED <<hits, age, asked, admitted>>

-----------------------------------------------------------------------------
(* The window *)

\* Instant::duration_since: the age of a window when the request read the clock, and zero for
\* a window that started after that.
Since(started, now) == IF started > now THEN started - now ELSE 0

\* Seeded fault: a full table is emptied.
Emptied(now) == IF Cardinality(DOMAIN hits) >= MaxTracked THEN {} ELSE DOMAIN hits

\* The clients still tracked: when the table is full, those whose window is not over.
Kept(now) ==
    IF Cardinality(DOMAIN hits) >= MaxTracked
    THEN {a \in DOMAIN hits : Since(hits[a].age, now) < Window}
    ELSE DOMAIN hits

\* Seeded fault: a window that is over goes on.
Unrenewed(a, now) == IF a \in Kept(now) THEN hits[a] ELSE [age |-> now, count |-> 0]

\* The window the request is counted in: its client's, or one that starts with it.
Entry(a, now) ==
    IF a \in Kept(now) /\ Since(hits[a].age, now) < Window
    THEN hits[a]
    ELSE [age |-> now, count |-> 0]

\* RateLimiter::allow, one critical section: sweep, count, compare.  Refused requests count too.
Allow(r) ==
    LET now == age[r]
        entry == [Entry(key[r], now) EXCEPT !.count = Min({@ + 1, MaxRequests + 1})]
        one == IF owner[r] = Observed THEN 1 ELSE 0
    IN /\ r \in pending
       /\ pending' = pending \ {r}
       /\ hits' = [a \in Kept(now) \cup {key[r]} |-> IF a = key[r] THEN entry ELSE hits[a]]
       /\ asked' = [asked EXCEPT ![now] = @ + one]
       /\ admitted' = IF entry.count <= MaxRequests
                      THEN [admitted EXCEPT ![now] = @ + one]
                      ELSE admitted
       \* What a decided request leaves behind matters to nobody.
       /\ owner' = [owner EXCEPT ![r] = Observed]
       /\ key' = [key EXCEPT ![r] = Proxy]
       /\ age' = [age EXCEPT ![r] = 0]

\* Time passes.  No request waits for the lock for more than MaxDelay.
Tick ==
    LET older(past) == [t \in 0..Horizon |-> IF t = 0 THEN 0 ELSE past[t - 1]]
    IN /\ \A r \in pending : age[r] < MaxDelay
       /\ age' = [r \in Slot |-> IF r \in pending THEN age[r] + 1 ELSE age[r]]
       /\ hits' = [a \in DOMAIN hits |->
                     [hits[a] EXCEPT !.age = Min({@ + 1, Window + MaxDelay})]]
       /\ asked' = older(asked)
       /\ admitted' = older(admitted)
       /\ UNCHANGED <<pending, key, owner>>

-----------------------------------------------------------------------------

Sent == {<<>>, <<Garbage>>} \cup {<<c>> : c \in Client}

LimiterNext == \/ \E r \in Slot : \/ \E c \in Client, sent \in Sent : Arrive(r, c, sent)
                                  \/ Allow(r)
               \/ Tick

LimiterSpec == LimiterInit /\ [][LimiterNext]_limiterVars

-----------------------------------------------------------------------------
(* Properties *)

\* How many of the observed client's requests were let in during n ticks, the last t ticks ago.
Admissions(t, n) == Cardinality(Points(admitted, t..(t + n - 1)))

\* The limit holds for the client, not for the header it sends ("Fixed-window, in-memory,
\* per-client-IP limiter", rate_limit.rs): nobody gets two windows' worth of requests in a time
\* that is shorter than a window by what the lock may hold requests up, at its start and at its end.
\* Neither sweeping the table nor a request that comes to the lock with an old time renews a
\* window early.
AdmittedAreBounded ==
    LET n == Window - 2 * MaxDelay
    IN \A t \in 0..(Horizon + 1 - n) : Admissions(t, n) < 2 * MaxRequests

\* A client is refused for its own requests only: it has sent more than the limit within the
\* horizon.  What others send, or say they are, never uses up its window, and a window that is
\* over does not count against it.
OnlyBusyClientsAreRefused ==
    [][Total(asked') > Total(asked) /\ Total(admitted') = Total(admitted)
          => Total(asked') > MaxRequests]_limiterVars

=============================================================================
