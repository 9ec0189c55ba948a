---------------------------- MODULE TokenRefresh ----------------------------
(***************************************************************************)
(* internal/adapter/auth/token-refresh.go and its callers: the renewal of  *)
(* an OAuth connection's access token beside the selector's own writes.    *)
(*                                                                         *)
(* A renewal reads the connection's whole record, calls the provider, and  *)
(* writes the whole record back (store.UpdateConnection).  The singleflight*)
(* group of a TokenRefreshService lets one renewal per connection run at a *)
(* time; but the selector, the background loop and every dashboard request *)
(* build a service of their own.  A refresher is one such service.  Tokens *)
(* are abstracted: what matters here is the rest of the record.            *)
(***************************************************************************)
EXTENDS AccountSelector

CONSTANTS
    Refreshers,   \* the instances of TokenRefreshService
    NoFlight      \* no renewal under way

\* A connection's record as the renewals copy it.
RecordType == [attrs : Attrs, rateLimitedUntil : Nat, backoffLevel : 0..BackoffMaxLevel,
               modelLocks : [Models -> Nat]]

ASSUME FlightAssumption == NoFlight \notin RecordType

VARIABLE flight   \* [Refreshers -> [Conns -> the record read, or NoFlight]]

refreshVars == <<flight, selVars>>

\* A slip in Record: the copy misses the model locks.
RecordWithoutLocks(c) == [attrs |-> attrs[c], rateLimitedUntil |-> rateLimitedUntil[c],
                          backoffLevel |-> backoffLevel[c]]

\* GetConnectionByID: a copy of the stored record.
Record(c) == [attrs |-> attrs[c], rateLimitedUntil |-> rateLimitedUntil[c],
              backoffLevel |-> backoffLevel[c], modelLocks |-> modelLocks[c]]

\* A slip in WriteRecord: the cool-down is not among the fields written.
WriteRecordPartly(c, rec) ==
    IF c \notin stored THEN UNCHANGED <<attrs, health>>
    ELSE /\ attrs' = [attrs EXCEPT ![c] = rec.attrs]
         /\ backoffLevel' = [backoffLevel EXCEPT ![c] = rec.backoffLevel]
         /\ modelLocks' = [modelLocks EXCEPT ![c] = rec.modelLocks]
         /\ UNCHANGED rateLimitedUntil

\* store.UpdateConnection: replace the record of that ID, if there still is one.
WriteRecord(c, rec) ==
    IF c \notin stored THEN UNCHANGED <<attrs, health>>
    ELSE /\ attrs' = [attrs EXCEPT ![c] = rec.attrs]
         /\ rateLimitedUntil' = [rateLimitedUntil EXCEPT ![c] = rec.rateLimitedUntil]
         /\ backoffLevel' = [backoffLevel EXCEPT ![c] = rec.backoffLevel]
         /\ modelLocks' = [modelLocks EXCEPT ![c] = rec.modelLocks]

InFlight(i, c) == flight[i][c] # NoFlight

\* The leader of the group reads the record and calls the provider.
BeginRefresh(i, c) ==
    /\ ~InFlight(i, c)
    /\ flight' = [flight EXCEPT ![i] = [@ EXCEPT ![c] = Record(c)]]

\* The provider issued a token: the record read before the call is written back.
PersistRefresh(i, c) ==
    /\ InFlight(i, c) /\ flight[i][c].attrs.refreshable
    /\ WriteRecord(c, flight[i][c])
    /\ flight' = [flight EXCEPT ![i] = [@ EXCEPT ![c] = NoFlight]]
    /\ UNCHANGED <<stored, settings>>

\* The provider refused or could not be reached, the record read has no refresh
\* token, or the new token could not be saved.
AbandonRefresh(i, c) ==
    /\ InFlight(i, c)
    /\ flight' = [flight EXCEPT ![i] = [@ EXCEPT ![c] = NoFlight]]

\* What a refresher does on its own: the loop of RunOAuthAutoRefresh (active
\* connections only), the dashboard's connection test and usage pages.
Refresher(i) ==
    \E c \in Conns :
       \/ c \in stored /\ attrs[c].refreshable /\ BeginRefresh(i, c) /\ UNCHANGED selVars
       \/ PersistRefresh(i, c) /\ UNCHANGED <<rotating, now>>
       \/ AbandonRefresh(i, c) /\ UNCHANGED selVars

RefreshInit == SelInit /\ flight = [i \in Refreshers |-> [c \in Conns |-> NoFlight]]

RefreshNext ==
    \/ \E i \in Refreshers : Refresher(i)
    \/ \E c \in Conns, e \in Errors, m \in Models :
          MarkUnavailable(c, e, m) /\ UNCHANGED <<flight, config, rotating, now>>
    \/ \E c \in Conns, m \in Models :
          ClearError(c, m) /\ UNCHANGED <<flight, config, rotating, now>>
    \/ Environment /\ UNCHANGED flight

RefreshSpec == RefreshInit /\ [][RefreshNext]_refreshVars

-----------------------------------------------------------------------------
(* Properties *)

\* Every variable stays in its range.
RefreshTypeOK ==
    /\ SelTypeOK
    /\ flight \in [Refreshers -> [Conns -> RecordType \cup {NoFlight}]]

\* A copy that a renewal holds can sideline the account no longer than the
\* record it was read from: CooldownBounded survives stale write-backs.
CopiesBounded ==
    \A i \in Refreshers : \A c \in {d \in Conns : InFlight(i, d)} :
        /\ \E s \in SettingsSet : flight[i][c].rateLimitedUntil <= now + PenaltyBound(s)
        /\ \A m \in Models :
              \E s \in SettingsSet : flight[i][c].modelLocks[m] <= now + PenaltyBound(s)

\* What the code standards promise of renewals, free of races: a renewal changes
\* the connection's token, and neither its health nor what the operator has set.
RenewalTouchesTokensOnly ==
    [][(\E i \in Refreshers, c \in Conns : InFlight(i, c) /\ ~InFlight(i, c)')
          => UNCHANGED <<attrs, health>>]_refreshVars
=============================================================================
