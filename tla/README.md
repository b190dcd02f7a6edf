# Session manager: TLA+ models, checks and proofs

This directory holds a formal model of the session manager in `src/app`: a
FastAPI service that keeps conversation sessions, token pairs, turn lists and
customer profiles in Redis, and fetches batch profiles from MinIO. The modules
are translated from the code; documents are used only for what the service
*promises*, and for the parts that are not in the repository (Redis, the batch
loader).

- TLC checks every property below on small instances.
- TLAPS proves, for all values of the constants, every safety invariant that
  the passing runs check and their action properties: the life of token pairs
  (rotation, closing, retries), what overlapping requests may do to a session
  hash, its expiry, its turns and its customer's profile, what readers are told,
  and the answers of the batch lookup beside a loader. One refinement
  (`TokenLife`) is proved, the other (`SessionStore`) is model-checked.

## 1. The system

| Component | Source | State it keeps | Operations | Modelled in |
|---|---|---|---|---|
| Routes and event loop | `api/v1/sessions.py`, `main.py` | handlers in flight | start a handler; a handler waits at every Redis command | `SessionManager` |
| Session service | `services/session_service.py` | `session:{key}` through the repository | create, resolve, patch, close by key, api-results | `SessionService`, `SessionReads` (resolve) |
| Authentication | `services/auth_service.py`, `core/jwt.py`, `core/jwt_auth.py` | `jti:{jti}`; the tokens callers hold | issue, verify, ping, refresh (rotate), close by token | `AuthService`, `SessionReads` (verify) |
| Profile service | `services/profile_service.py` | `profile:realtime:*`, `profile:batch:*` | store a realtime profile, fetch and store a batch profile | `ProfileService` |
| Session repository | `repositories/redis_session_repository.py` | session hash, turn list | create, refresh_ttl, update, set_local_mapping, add_turn | `SessionRepository` |
| Redis access | `db/redis.py` | keys and deadlines | one command each | `RedisKeys`, `SessionRepository` |
| Session policy | `core/policy.py` | none | `validate_transition` (no caller) | property `EndIsFinal` |
| Batch profile lookup | `repositories/minio_batch_profile_repository.py`, `services/batch_profile_minio_retrieve.py`, `services/batch_profile_utils.py` | cached HSM key | `retrieve_cusno` | `BatchProfile` |
| Event log, log format | `logger_config.py`, `utils/app_logger_format.py` | a log file | write | not modelled |
| Ciphers | `crypto.py`, `utils/inisafe.py` | native libraries | encrypt, decrypt, fetch the key | only "the key is there or not" |
| Configuration, schemas, errors | `config.py`, `schemas/*`, `core/exceptions.py` | constants | | constants and their assumptions |

How they interact. A route calls one service; the service calls the repository
or `RedisHelper`; every Redis command is an `await`, and at each `await` the
event loop may run another handler. Several pods share one Redis, so handlers
of different pods interleave in the same way. There is no transaction, no
`WATCH`, no Lua script: every multi-command operation is open to interleaving.
Deadlines are Redis time-to-live values, and keys vanish between commands. The
batch lookup runs in a thread, in parallel for the daily and the monthly
profile, and reads objects that a separate batch system rewrites.

What is hard in this code, and what the properties are for:

- **Write-back of whole hashes.** `refresh_ttl` reads a session and writes all
  of it back with a new `expires_at`. What another handler wrote in between is
  lost (`EndIsFinal`, `RecordsAccumulate`, `AdvertisedExpiryIsKept`).
- **Check, then act.** `update_session` tests `EXISTS`, then sends `HSET`
  without `EXPIRE` (`EverythingExpires`, `ImmortalSessionsAreRemnants`).
- **Rotation in several commands.** `refresh_token` looks the old jti up, renews
  the session, deletes the old jti, stores the new one (`TokensFollowTokenLife`,
  `TokenInv`, `RefreshTokensAreUsedOnce`).
- **Keys with deadlines of their own.** Session, turn list, profiles and jti
  mappings are renewed by different commands (`TurnsOutliveSession`,
  `ProfileOutlivesSession`, `TokensLeadToSessions`).
- **Lost answers.** A creation or a refresh takes effect and its answer is lost:
  the caller holds the old pair, or none, and asks again
  (`RefreshTokensAreUsedOnce`, `TokensFollowTokenLife`, `RequestsAreAtomic`).
- **Answers put together from several reads.** verify reads the mapping, then
  the session; resolve reads the hash twice and then two profiles
  (`VerifiedSessionsAreAlive`, `PromisedTimeIsKept`,
  `ResolvedCustomersHaveProfiles`, `ClosedTokensVerifyNoMore`).
- **Objects of several loads.** An index, the file it points into and the
  metadata that says what is encrypted are fetched by separate GETs
  (`RightCustomer`, `ReloadsHideNobody`, `PublishedDataIsServed`,
  `NoCiphertext`).
- **A shared key.** A pod keeps the HSM key it has fetched, which may have been
  rotated since; the HSM may fail in the middle of a document; and the threads
  of two lookups may both fetch the key, without a lock, so that the one
  replaces it under the other (`AnswersAreNamed`, `RightCustomer`,
  `NoCiphertext`).

`PROJECT.json` lists every hazard with the line where it bites.

## 2. The modules

```
RedisKeys          deadlines of Redis keys
  SessionRepository  session hashes, turn lists, profiles; repository subroutines
    AuthService        token pairs: create_tokens, refresh_token, close by token
      SessionService     create, patch, close by key, api-results
    ProfileService     realtime and batch profiles
      SessionManager     routes, handlers, clock, failures: the specification
        SessionProperties  what is promised; implements TokenLife
          SessionInvariants  inductive invariants of types and token pairs
            SessionReads       verify and resolve beside the session manager
            SessionRequests    the state between requests; implements SessionStore
TokenLife          abstract: what becomes of token pairs
SessionStore       abstract: every request takes effect at one moment
BatchProfile       the lookup and the loader

Instances for TLC  MCSessionManager (MCSessionReads, MCSessionRequests extend it),
                   MCBatchProfile
Proofs             SessionProofs (types)
                     TokenProofs (pairs), HashProofs (session hashes)
                       PairProofs (closing, retries, readers; extends both)
                         TurnProofs (turn lists)
                           PromptProofs (requests that straddle no deadline)
                             AloneProofs (requests that do not overlap)
                   BatchProofs
```

### State

| Variable | In the code |
|---|---|
| `session[s]` | hash `session:{key}` and its deadline; fields `session_state`, `turn_ids`, `agent_mappings`, `cusno`, `expires_at` |
| `turns[s]` | deadline of `session:{key}:turns` (the contents are never read back by a handler that changes state) |
| `realtime[o]`, `batch[c]` | deadlines of the profile keys; `o` is a customer, or a session when the profile names no customer |
| `jti[j]` | mapping `jti:{jti}` to a session key, and its deadline |
| `tok[j]`, `held` | `exp` of the two JWTs of a pair; the pairs callers have received |
| `req[p]` | the local variables of handler `p` and the command it sends next |
| `now` | the clock, one for Redis and the pods |
| `owner`, `parent`, `born`, `failures` | history: for whom a jti was drawn, what it replaces, when a key was generated, handlers that stopped and answers that were lost |
| `view[r]` (`SessionReads`) | what reader `r` has read and the command it sends next |
| `told`, `closed` (`SessionReads`) | history: the latest expiry verify has answered, the pairs whose close has been answered |
| `settled` (`SessionRequests`) | history: keys and tokens when no handler was last in flight |
| `minio`, `pointer`, `objects`, `loader` (`BatchProfile`) | objects by the load they are from, `_latest_date.json`, the layout, the load in progress |
| `get`, `key` (`BatchProfile`) | local variables of `retrieve_cusno`; `_INISAFE_KEY` |
| `rival`, `rotation` (`BatchProfile`) | another thread in `_get_cached_key`; the load from which a new key is used |
| `published`, `overlap`, `turned`, `replaced` (`BatchProfile`) | history: the load published last; loads that overlap the lookup; whether the pointer, or the key, has changed since it began |

A deadline is `Gone` (no key), `Persist` (a key without time to live) or a
time. `RedisKeys` says what `HSET`, `SET`, `SETEX`, `EXPIRE` and the passing of
time do to it: `HSET` keeps the deadline of an existing key and creates a key
without one; `EXPIRE` of a missing key does nothing.

### Actions

One action is the code a handler runs from the return of one `await` up to and
including the Redis command it awaits next, with that command's effect. So
`refresh_ttl` is the sequence `TtlGet`, `TtlHset`, `TtlExpire`, `TtlTurns`,
`TtlRealtime`, `TtlBatch`, entered from the four handlers that call it, each of
which goes on differently afterwards (`AfterRefreshTtl`). Conventions:

- A request that is refused before anything has changed (400, 401, 404) is not
  started: it has no effect.
- An `EXISTS` directly followed by an `EXPIRE` of the same key in `refresh_ttl`
  is one step: `EXPIRE` tests existence itself. A `HGETALL` whose result is
  thrown away is dropped.
- `new_jti` is drawn with the lookup, since nothing reads it before it is used.
- `ended_at` and `close_reason` travel with `session_state`. `updated_at` makes
  every `HSET` non-empty and is not a field.
- A caller learns a session key or a token from an answer only (`Known`,
  `held`). The answer arrives with the last command. `LoseAnswer(p)` is the
  last command of a creation or a refresh whose answer never arrives: Redis has
  changed and nobody holds the pair (so `RotateSetex`, which delivers, is
  `MapNewPair` plus the delivery). Other answers carry nothing a caller needs
  later, so losing them changes nothing.
- A session key is generated anew within the same second only when
  `Collisions` says so (the suffix has 24 bits).
- `Fail(p)`: any command may raise, or the pod may stop, and the handler ends
  where it is. Nothing in the code repairs what it leaves. `Faults` says which
  of the two, stopping and losing an answer, a run allows.
- The read-only handlers verify and resolve are actions of `SessionReads`, one
  per GET; they leave the variables of the session manager alone. The tokens
  and keys they are asked with are those callers hold. `GET /sessions/ping` is
  documented but has no route.
- `SessionRequests` takes the state when the last handler has answered, so that
  one step of it is one whole request. It is compared with `SessionStore` under
  a refinement mapping: a hash that is there is a session, a jti mapping is a
  usable pair.

`BatchProfile` is one lookup, call by call, beside one loader. An object is
known by the load it was written in, because all that matters is whether two
objects are of the same load: an offset taken from an index of one load points
anywhere in the `bulk.jsonl` of another. The loader is external and follows the
steps of `docs/python-integration.md`, sections 4 and 9: a new date is written,
then the pointer is set; a date that is loaded again is preceded by a backup of
an older date to `latest/`. The order in which the objects of one directory
appear is not fixed. Loads of one-object-per-customer directories are left out.
The HSM is external as well: it hands out the key of the newest load, may
change it once, from a load on that is chosen at the start, and may fail at any
call. No document of the repository speaks of rotation; the model allows it
because the code keeps the key for the life of the process. The daily and the
monthly lookup of a request run in two threads and share nothing but that key.
`Rival` is the second thread in `_get_cached_key`: it finds no key, and stores
the one it gets when the first thread may long have one and be in the middle of
a document, which `Decrypt` therefore goes through field by field. The rest of
the second lookup is another instance of the first, under another prefix.
The loader is driven by its documents; if it behaves otherwise, the
conclusions about reloads do not apply, but `RightCustomer` needs nothing of
them beyond the effect of each write.

Operators and actions commented `slip` are deliberate mistakes. Nothing uses
them; substituting one for the definition it follows breaks a property, which
shows that the property is sensitive to the code it speaks of.

## 3. Properties and runs

Groups: (a) hold however requests overlap; (b) hold when requests do not overlap
(one handler), or do not straddle a deadline (`Prompt = TRUE`), which is what
the documents describe: the runs check them under both restrictions, the
theorems say which of the two each one needs; (c) are stated by documents or
comments and not kept.

| Run | Checks | Instance |
|---|---|---|
| `Tokens` | (a) `TokenInv`, `TokensFollowTokenLife` | 2 handlers, 2 sessions, 3 token pairs, clock to 2, one handler that stops or one answer that is lost, colliding keys |
| `Sessions` | (a) `AdvertisedExpiryIsKept`, `ImmortalSessionsAreRemnants`, `TurnIdsAreDistinct`, `TurnsOutliveSession` | 2 handlers, 1 session, creation, closing by key, api-results, a TALK that reports a turn and a patch that reports another and registers an agent, clock to 3 |
| `Isolated` | (b) `OneTokenPairPerSession`, `TokensLeadToSessions`, `RefreshTokensAreUsedOnce`, `EverythingExpires`, `RecordsAccumulate`, `RefreshExtendsSession`, `ClosedTokensAreDead`, `RequestsAreAtomic` | 1 handler, 3 token pairs, every operation but profiles, one lost answer, clock to 4 |
| `IsolatedProfiles` | (b) `ProfileOutlivesSession`, `EverythingExpires`, `RequestsAreAtomic` | 1 handler, 2 sessions, 2 customers, clock to 3 |
| `Reads` | (a) `ClosedTokensVerifyNoMore`; for handlers that straddle no deadline `PromisedTimeIsKept`, `VerifiedSessionsAreAlive`, `ResolvedCustomersHaveProfiles` | 1 reader beside 2 handlers that create, refresh, close and name a customer, clock to 2 |
| `Liveness` | (a) `TypeOK`, `RequestsAreAnswered` under fairness | 2 handlers, create, refresh, profile and patch requests, keys that expire |
| `Batch` | (a) `BatchTypeOK`, `RightCustomer`, `AnswersAreNamed`, `ReloadsHideNobody`, `PublishedDataIsServed` | 3 customers, 3 dates, 4 loads, 3 object layouts, 3 deployments, one failed call, a key that changes with the third load or never, another thread that fetches it |
| `RemnantSession` | (c) `EverythingExpires` fails with deadlines in mid-request | 1 handler |
| `DoubleRefresh` | (c) `RefreshTokensAreUsedOnce` fails with overlap | 2 handlers |
| `StaleClose` | (c) `EndIsFinal` fails with overlap | 2 handlers |
| `LostTurn` | (c) `RecordsAccumulate` fails with overlap | 2 handlers |
| `BatchCiphertext` | (c) `NoCiphertext` fails when one GET fails | 1 failed call |

Why the bounds are enough for what they are asked. Every hazard above is a
conflict of two handlers over one session, of a reader with them, or of one
handler with the clock, so two handlers and one session show it; two sessions
are used where keys of one session could reach another (`Tokens`,
`IsolatedProfiles`). Three token pairs let two overlapping refreshes replace one
pair, and let a pair be refreshed twice in a row. The times to live keep the
order of the configured ones (session = access < refresh), and the clock runs
past at least one full lifetime wherever a property is about deadlines. In
`Batch`, four loads and three dates let two reworks follow one another, and let
a rework choose between two backups; the key changes in the middle of them.
The bounds are named constants: `MaxTime`, `MaxFailures`, `MaxLoad`,
`MaxErrors`, `MaxOverlap`; the `Horizon` step of `SessionManager` lets the
bounded clock stop without a deadlock.

`ReloadsHideNobody` is limited to loads that agree on whether customer numbers
are encrypted, the very first load excepted, which no rework replaces. A rework
that starts or stops encrypting them hides customers from a lookup that has read
`_meta.json` of the one load and `bulk.jsonl` of the other. The instance of
`Batch` never meets this, because only its first load is not encrypted; the
attempt to prove the property for every choice of encrypted columns showed it.
The property is limited, too, to lookups that overlap at most one load. A
lookup that starts in one rework and is still reading `latest/` while the next
rework copies another backup there can miss a customer; with lookups of a tenth
of a second and loads hours apart this is not expected, but the code does not
exclude it.

Fairness. `FairSpec` adds weak fairness of `Continue(p)` for each handler: the
event loop resumes a coroutine whose command has been answered, and nothing in
the code holds a lock that could make it wait for another. No fairness is
assumed for callers, for the clock, or for failures.

`TokenLife` is the abstract specification of token pairs: a pair is issued for
a session, a pair that is to replace another becomes usable only when the other
has ended, and what has ended stays so. `TokensFollowTokenLife` says that the
session manager implements it, under the mapping `TokenStatus`. It holds with
overlapping requests and with failures at any point; what it does *not*
exclude, and `DoubleRefresh` shows, is two successors of one pair.

`SessionStore` is the abstract specification of the whole: a creation, a
refresh, a close, a PATCH, an API result or a profile takes effect at one
moment; a session has a state, turns, agents, a customer and one expiry; a pair
is usable until one moment; a renewal renews a session, its turns and the
profiles of its customer together; everything ends at its deadline, and an
answer may be lost. `RequestsAreAtomic` says that the handlers implement it when
requests neither overlap nor straddle a deadline. It is where a renewal that
forgets one of the four kinds of keys, an expiry that is shown but not kept, or
a mapping that leads nowhere shows, whatever the order of the commands.
`StaleClose`, `LostTurn`, `DoubleRefresh` and `RemnantSession` show what is left
of it when requests do overlap or straddle a deadline.

### Where documents and code differ

The violated runs, with the quoted lines, are the `findings` of `PROJECT.json`:

- A session key that expires between `EXISTS` and `HSET` is created anew with a
  few fields and lives for ever (`db/redis.py:143`).
- Two overlapping refreshes of one token both succeed (`auth_service.py:185`).
- A close, and a turn, that fall between the read and the write of another
  request are undone (`redis_session_repository.py:112`, `session_service.py:402`).
- A failed GET of `_meta.json` lets ciphertext through
  (`batch_profile_minio_retrieve.py:330`); a rotated key does so too, because
  `decrypt_field_value` answers with the ciphertext when the tag does not match
  (`batch_profile_utils.py:222`).

Further differences that were seen while translating, and for which no run is
kept because one reading of the code settles them: the jti mapping lives `SESSION_CACHE_TTL`
(300 s, `auth_service.py:54`) and the refresh token 330 s, so a refresh token
that outlives its access token is refused, where
`docs/Session_Manager_API_Sprint5.md:538` wants a new token for an expired one;
`SessionPolicy` is called by no handler, so a session may go from `start` to `end`; closing by key leaves
the tokens of the session usable, closing by token does not; `refresh_token`
ignores the result of `refresh_ttl`, so with a deadline in mid-request it
answers with tokens for a session that is gone, and `close_session_by_token`
checks the token a second time before it revokes it, so one that expires in
mid-request leaves the mapping in place (`RefreshExtendsSession` and
`ClosedTokensAreDead` are therefore claimed for requests that do not straddle a
deadline); a profile is stored with a full lifetime and can outlive its
session; after a rotation a pod finds no customer by an
encrypted number until it restarts, and when another thread replaces the key in
the middle of a document the answer may carry its customer number in ciphertext
(`AnswersAreNamed` excludes that case); a MinIO deployment without a pointer and without date directories is
served only if it has shard indexes.

## 4. Proofs

| Module | Theorem | States | Assumes |
|---|---|---|---|
| `SessionProofs` | `TypeCorrect` | `Spec => []TypeOK` | |
| `TokenProofs` | `TokenInvariant` | `Spec => []TokenInv` | |
| `TokenProofs` | `TokensImplementTokenLife` | `Spec => TokensFollowTokenLife` | |
| `HashProofs` | `TurnsStayDistinct` | `Spec => []TurnIdsAreDistinct` | |
| `HashProofs` | `ShownExpiryIsKept` | `Spec => []AdvertisedExpiryIsKept` | |
| `HashProofs` | `OnlyRemnantsStay` | `Spec => []ImmortalSessionsAreRemnants` | |
| `PairProofs` | `ClosedStayClosed` | `ReadSpec => []ClosedTokensVerifyNoMore` | `RefreshOutlasts` |
| `PairProofs` | `ReadersOnlyRead` | `ReadSpec => Spec` | |
| `PairProofs` | `RetriesGetNoSecondPair` | `Spec => []RefreshTokensAreUsedOnce` | `Alone`, `RefreshOutlasts` |
| `TurnProofs` | `TurnsStayWithSession` | `Spec => []TurnsOutliveSession` | `~Collisions`, `RefreshOutlasts` |
| `PromptProofs` | `RefreshesFindTheirSession` | `Spec => RefreshExtendsSession` | `Prompt` |
| `PromptProofs` | `ClosedTokensStayDead` | `Spec => ClosedTokensAreDead` | `Prompt` |
| `PromptProofs` | `VerifiedStayAlive` | `ReadSpec => []VerifiedSessionsAreAlive` | `Prompt` |
| `PromptProofs` | `EveryKeyExpires` | `Spec => []EverythingExpires` | `Prompt`, no stops |
| `PromptProofs` | `TokensKeepTheirSessions` | `Spec => []TokensLeadToSessions` | `Prompt`, no stops |
| `PromptProofs` | `ToldTimeIsKept` | `ReadSpec => []PromisedTimeIsKept` | `Prompt`, no stops |
| `PromptProofs` | `ProfilesOutliveSessions` | `Spec => []ProfileOutlivesSession` | `Prompt`, no stops |
| `PromptProofs` | `ResolvedProfilesAreThere` | `ReadSpec => []ResolvedCustomersHaveProfiles` | `Prompt`, no stops |
| `AloneProofs` | `PairsReplaceEachOther` | `Spec => []OneTokenPairPerSession` | `Alone`, `~Collisions` |
| `AloneProofs` | `NothingIsForgotten` | `Spec => RecordsAccumulate` | `Alone` |
| `BatchProofs` | `BatchTypes` | `BatchSpec => []BatchTypeOK` | |
| `BatchProofs` | `RightCustomerAlways` | `BatchSpec => []RightCustomer` | |
| `BatchProofs` | `AnswersAreNamedAlways` | `BatchSpec => []AnswersAreNamed` | |
| `BatchProofs` | `PublishedIsServed` | `BatchSpec => []PublishedDataIsServed` | |
| `BatchProofs` | `NobodyIsHidden` | `BatchSpec => []ReloadsHideNobody` | |

All of them also use the assumptions of the modules: the times to live are
positive naturals, the bounds are naturals, the absent value `None` is not a
member of the sets it is added to, batch contents and encrypted columns are
functions of the load, and a layout can be read (`LayoutsAreReadable`: there is
always a `_meta.json`, an index has its `bulk.jsonl`, and without an index there
are objects for each customer). The sets of handlers, sessions, token pairs, customers,
agents and turns are arbitrary. `RefreshOutlasts` says that an access token does
not outlive its refresh token (`config.py`: 300 s and 330 s); `Prompt` that a
request in flight sees no deadline pass, which is where the time between two
commands, milliseconds, is told from the times to live, minutes (`RemnantSession`
shows it to be needed); "no stops" that `"stop"` is not among the `Faults`:
answers may be lost, but no handler ends between two commands; `Alone` that there
is one handler, which is the precondition `DoubleRefresh` shows to be needed;
`~Collisions` that no session key is generated twice: a second creation of a key
renews a session whose turns are older, and `TurnsOutliveSession` is false then.

*Type correctness.* `TypeOK` alone is not inductive: a handler writes the key
its request names, so the request must name one. `TypeInv` adds `RequestsOK`
(what a request carries at each command: `Fits`) and `MappingsOK` (a mapped jti
leads to a session key). `SessionProofs` first proves what the operators on keys
and hashes return, then that each subroutine step keeps `TypeInv`, one lemma
per action.

*Token pairs.* `RotateSetex` makes a pair usable without looking at anything
but its own request. It may do so because of `TokenInv`: a refresh in flight
knows the owner and the parent of the pair it issues, the new pair is not
mapped, the old one is unmapped from the moment of the `DEL`
(`RefreshKnows`), and no two refreshes issue the same pair or replace one that
is still being issued (`RefreshesAreApart`). These hold since only the request
that drew a jti ever maps it. The refinement theorem then maps each action to a
step of `TokenLife` or to a stutter: create to `Issue`, the lookup of a refresh
to `Succeed`, `RotateSetex` to `Activate`, `RotateDel`, `Revoke`, `Tick` and
`Fail` to `Drop`.

*Session hashes.* What `refresh_ttl` writes back was read earlier, so what is
true of the stored hash must be true of every hash a handler carries. For the
turns that is `ListsDistinct`: the lists stored, read (`snap`) and computed
(`upd`) hold no turn twice. The expiry that was read does not matter, because
`refresh_ttl` writes its own over it. So `ExpiryInv` says that no stored
`expires_at` is later than one full life from now, that the updates a PATCH
carries have none, and that, as long as nothing has failed, a stored one is kept
by the deadline except between the `HSET` of a `set_session` and the `EXPIRE`
that follows it (`Renewing`); the `EXPIRE` then covers whatever was written.

*Closing and retries.* A handler's commands are summed up by two frame lemmas:
`HandlerCarries` (what a request names stays with it until it is answered) and
`HandlerTouches` (apart from deleting mappings, a command changes the pair its
own handler issues, and no other). With them `PairsInv` is inductive: a pair
that is being issued is held by nobody and issued by nobody else, and the pair a
close works on is held. So no command of another handler can bring back the
pair that a close has answered for, and one that expired before the second
check stays expired since access tokens end first. For one handler, `OnceInv`
adds that a pair which was exchanged is not mapped, so a retry does not find it.

*Turns.* The `EXPIRE` of the session comes before that of the turns in
`refresh_ttl`, and `add_turn` gives the turns a full life, later than any
deadline a session has (`DeadlinesBounded`). The step that could break
`TurnsKept` is the `EXPIRE` of a creation; `KeysKnown` excludes it, because the
key of a session that is being created is known to no caller, and turns are
pushed for known keys only.

*Requests that straddle no deadline* may overlap in any number. `AliveInv` rests
on one comparison: the mapping of a pair never lives longer than its session
(`Promised`), because it is written with the same time to live, right after the
session was stored or renewed. A handler that starts with a usable pair therefore
finds its session, and since nothing expires while it is in flight, finds it at
every later command, whatever the others do: no handler deletes a session. So
`EXISTS` before `HSET` has not become false, `refresh_ttl` answers TRUE, and the
second check of a token finds what the first one found. When no handler stops
half-way, `RenewedInv` says of each kind of key that it has a deadline or that
the handler which created it has its `EXPIRE` still to send; the commands that
create a key without one are so always followed. For what verify tells
(`ToldInv`), the stored `expires_at` is no later than the deadline or the
`EXPIRE` of the same renewal is to come (`ShownLast`). For profiles
(`ProfileInv`), the case that could go wrong is a `refresh_ttl` that read the
hash before a customer was named in it: it renews the session to a full life and
not that customer's profile, but the profile has been stored since it began, so
that no time has passed on it either.

*Requests that do not overlap* may straddle deadlines and stop anywhere.
`OnePairInv` says that while a refresh is between its commands the session has no
other pair than the one it replaces, and `RecordsInv` that what the handler has
read of a session and is going to write back holds no less than the session.
The first needs, with `KeysKnown` of the turns, that no key is generated twice.

*Batch lookup.* `RightCustomer` speaks of the answer only. `BatchInv` adds what
holds on the way: until the comparison there is a document of any customer,
after it only the right one or none, and no step after the comparison takes up
another. `AnswersAreNamedAlways` adds that a customer number which was compared
decrypted had a key, that the key stays, unless another thread replaces it, and
fits the document still, and that the fields done so far did not lose it.
Nothing is assumed about the order of the loader's writes, so
the theorems cover every mixture of loads.

*Reloads.* Two invariants describe the objects in MinIO. `StoreInv`: every
directory but the one being written is whole, of one load; what has been written
of the other is of the load in progress; the pointer leads to a whole directory
of the load published last, which is not being written. `StockInv`: a rework
replaces a whole load, never the first. For `PublishedIsServed`, `OnCourse` says
where each step of an undisturbed lookup is: it finds the first kind of object
that the layout has, in the directory the pointer named, and decrypts with the
one key there is. A load that writes elsewhere does not change what `OnCourse`
speaks of. For `NobodyIsHidden` a load may publish and may write the directory
being read. `Finding` says that this directory always has every object of the
layout, that all its objects agree on encrypting customer numbers, and that a
lookup which has met two loads can still turn to `latest/`, where the backup is
whole and stays so until another load begins (`Missed`, `Calm`,
`MixedMeansMissed`); a document of another customer sends it to a scan of
`bulk.jsonl`, of whichever load, and finds the customer there.

Only model-checked: `RequestsAreAnswered` (liveness under fairness is outside
the prover), the refinement `RequestsAreAtomic`, and of course the violations,
which are about code that breaks what documents say (`NoCiphertext`,
`EndIsFinal`, and without their assumptions `EverythingExpires`,
`RefreshTokensAreUsedOnce` and `RecordsAccumulate`).

## 5. Not modelled

- The contents of turns, profiles and answers, JSON, dates and validation: no
  property depends on them.
- The event log (`logger_config.py`) and the log line format: each request
  writes lines, nothing reads them back, and handlers share no state through
  them.
- Native ciphers and the HSM, apart from which key a pod has and whether it
  fits. `crypto.py` has no caller.
- `main.py`: middleware, documentation and the opening and closing of the Redis
  pool (`init_redis`, `close_redis`) run before the first and after the last
  request; a pod that stops in mid-request is `Fail`.
- `docs/batch.py` and `docs/update_logger_config.py`: earlier versions of the
  lookup and of the event log that nothing imports and the image does not contain.
- Repository, service and Redis functions no route reaches (`delete`,
  `list_all_sessions`, `get_turns`, `ping_session_by_token`,
  `get_merged_profile`, ...).
- The layout of the answer of the batch lookup (column mapping). Of the second
  of the two lookups of one request only its fetch of the shared key is
  modelled.
- Redis failover with loss of acknowledged writes; clocks that differ between
  pods and Redis.

## 6. Plan

Done: sessions, tokens, profiles, failures, lost answers and the clock; the
readers beside them; the batch lookup with reloads and key rotation; the
refinements of `TokenLife` and `SessionStore`; twenty-five theorems, which cover
every safety invariant and action property of the passing runs.

Left, in this order:

1. A theorem for `RequestsAreAtomic`: `Alone`, `Prompt` and no stops as
   assumptions, with `AliveInv`, `RenewedInv` and `RecordsInv` as the base of an
   invariant that says at each command how far the keys are from the state the
   request leads to.
2. The daily and the monthly lookup of one request together with
   `UpdateProfile`, so that a batch profile in Redis comes from a modelled
   lookup.
3. Redis failover: a master that forgets acknowledged writes, where
   `TokensFollowTokenLife` should fail for a deleted mapping that returns.
