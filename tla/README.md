# ZenithGrid: verification of the trading core, the sessions and the games

ZenithGrid is a trading platform: a FastAPI backend (`src/backend/app`, about 110 000
lines of Python) that runs bots against real and simulated exchanges, and a React
frontend (`src/frontend/src`) with the pages of the platform and a room of games. This
directory models

* the part of the backend that moves money: how positions are opened and closed while
  sessions, the exchange and crashes interleave, what a graceful shutdown waits for, and
  how a single trading process is kept to;
* the browser's side of a login: tabs that share stored tokens, three parts of each that
  refresh them, and the requests that wait;
* the games for several players: the server's rooms, races two browsers decide by
  themselves, and card and board games played by two pages that hear of each other late.

TLC checks the models on small instances; TLAPS proves, for every instance, the
bookkeeping of closing and opening, the shutdown barrier, the bound on the leader's lease,
the refresh mutex, the registry of the rooms, the results of races, and the cards, chips,
turns and views of the games.

Paths below are relative to `src/backend/app/` or to `src/frontend/src/`; the games' are
relative to `src/frontend/src/pages/games/`.

## 1. Inventory

### How the system runs

One asyncio process trades (`PROCESS_ROLE` `all` or `trader`; `web` processes only
serve requests). It holds the Redis trading lease, and runs on its main event loop:

* the **multi-bot monitor** (`multi_bot_monitor.py`): each cycle gathers one task per
  bot and pair, and each task has a database session of its own
  (`monitor/pair_processor.py`). Sessions do not autoflush and do not expire what they
  have loaded on commit, so a task works on the rows as it loaded them;
* the **limit order monitor** (every 10 s), the **order reconciliation monitor** (60 s),
  the **missing order detector** (5 min), the perpetuals, prop-guard and audit monitors;
* the HTTP routes, each with its own session.

Every `await` is a point where another session may run. Shared state is the database
(committed rows), the exchange (orders, balances), a few module-level locks and counters,
and Redis. Background jobs of the second tier run on a second event loop in a thread.

In a browser, each tab is one thread that works on a message, a timer or a click at a
time, with React state that handlers read as it was rendered last. Tabs share only
`localStorage`. A second websocket carries the games: the server relays what a player
does to the others of the room (`services/game_ws_handler.py`), in order for as long as
the socket lives; what was on its way when it breaks is gone.

### Components

| Component | State it keeps | Operations | Hard part |
|---|---|---|---|
| Limit close (`trading_engine/sell_executor.py`, `services/limit_order_monitor.py`, `position_routers/*`) | `Position` flags `closing_via_limit`, `limit_close_order_id`, `total_quote_received`; `PendingOrder`; `Trade` | bot close (limit or market), limit-close and cancel routes, panic sell, position cancel, poll/apply/release/reprice/replace, repair at start, orphan sweep | order polled without a session and applied later; cancel, look-up and replace are separate calls; flags written after the exchange call |
| Opening and adding to deals (`signal_processor/buy_decision.py`, `buy_executor.py`, `position_manager.py`, `fill_reconciler.py`) | `Position`, `Trade`, `PendingOrder`, the per-bot lock | count deals, check the balance, create the position, submit, confirm the fill, book, undo | a position is flushed long before it is committed; error paths commit |
| Shutdown barrier (`services/shutdown_manager.py`) | flag, in-flight count, event | increment, decrement, prepare, cancel | who is counted, and until when |
| Trading leader lease (`services/trading_leader.py`) | Redis key with a TTL, token, `last_ok` | acquire, renew, fail closed, release | calls that are slow, fail, or answer late |
| Order reconciliation (`services/order_reconciliation_monitor.py`) | repairs of trades with amount zero | every 60 s | which states it can repair |
| Safety orders (`services/safety_order_monitor.py`) | `PendingOrder` of DCA buys | poll, book, promote | two commits for one fill |
| Paper trading (`exchange_clients/paper_trading_client.py`) | JSON balances of the account | simulated orders | one lock per event loop |
| Prop guard (`exchange_clients/prop_guard.py`, `services/prop_guard_monitor.py`) | kill switch, daily snapshot | pre-flight, drawdown check | pre-flight against the kill switch |
| Short side, perpetuals, grid, rebalancing, speculative bucket | positions and orders of their own | the same shapes as the above | the same, less used |
| Caches (`cache.py`) | entries, in-progress fetches | `get_or_fetch`, `invalidate` | cancellation and invalidation during a fetch |
| Sessions and authentication (`contexts/AuthProvider.tsx`, `services/api.ts`, `contexts/NotificationProvider.tsx`; server: `auth_routers`, `services/session_service.py`) | tokens in `localStorage`, `isRefreshing` and its subscribers per tab, calls under way; session rows | login, logout, timer, refresh after a 401, socket refresh, revocation | answers that come after a logout, a login or a later answer; requests queued behind a refresh |
| Game rooms (`services/game_room_manager.py`, `services/game_ws_handler.py`, `gameSocket.ts`, `MultiplayerWrapper.tsx`) | `_rooms` and `_user_rooms`; the page's mode and room | create, join, leave, ready, start, back to the lobby, loss and return of a socket | two indices of one fact, old sockets, a host who leaves |
| Race mode (`useRaceMode.ts`) | what each browser knows of the opponent | ready, countdown, score, finish | each side decides the result by itself |
| Games between two players (`components/games/*Multiplayer.tsx`) | the game on the host's page, the guest's view | play, relay, sync | clicks on what was shown earlier |
| Card games against the computer (Hold'em, Go Fish, ...) | the table | bet, ask, deal | turns that nobody can take, pots that do not divide |
| Arcade and puzzle games; chat; trading pages; event bus, reports, news, AI team, backtesting, migrations | — | — | one thread, data, or I/O |

`PROJECT.json` lists all of them with what is modelled of each, and the hazards at their
lines.

### What makes them correct

* *Closing*: no fill is booked twice; a fill is booked in the end; an order that can still
  fill is tracked; a position is sold once; a closed position does not change.
* *Opening*: a bot keeps to `max_concurrent_deals` and to one deal a pair; a trade stands
  for a finished order; a failed first buy leaves nothing behind; a buy that settles late
  is corrected.
* *Shutdown*: told ready, no order is being executed; a shutdown that waits is answered.
* *Leader*: one process trades; a former leader touches nobody's lease; a crash does not
  keep trading down for ever.
* *Browser session*: the stored tokens are of one login; a request is repeated once, with
  another token; no request waits on a refresh that is over.
* *Rooms*: the two indices agree; an open room has a host among its players.
* *Races and games*: results do not contradict each other and are earned; no card or chip
  is lost or doubled; whoever has the turn can take it; a page that is up to date shows the
  game; a game ends.

## 2. Modules

```
FillLedger            what the engine promises of its trades (abstract)
  ^ implemented by
LimitClose            <- LimitCloseProofs <- LimitCloseSettled   MCLimitClose
DealBuying            <- DealBuyingProofs                        MCDealBuying
  (EXTENDS ShutdownManager)
TradingLeader         <- TradingLeaderProofs                     MCTradingLeader

ClientSession         <- ClientSessionProofs                     MCClientSession
GameRooms             <- GameRoomsProofs                         MCGameRooms
RaceMode              <- RaceModeProofs                          MCRaceMode

HostSync              two pages, one of which runs the game
  <- SpeedVersus, MemoryVersus, WarVersus, TicTacToeVersus,
     GoFishVersus (with GoFishRules)
TicTacToe             the game on one board (abstract), implemented by TicTacToeVersus
TexasHoldem           a table of one page
Games                 one of those six <- GamesProofs            MCGames
GoFish                (EXTENDS GoFishRules)                      MCGoFish
```

Definitions whose name contains `Mutant` are slips of the definition that follows them.
Each property is shown to fail when one of them takes that definition's place.

### FillLedger

Two actions over any set of orders: the exchange fills more of an order; the engine
records more of it, never more than is filled. Nothing is taken back. Both the closing
and the opening path are shown to implement it. `booked` is the base amount of the
`Trade` rows by `order_id`, `filled` the exchange's filled size.

### LimitClose

One long position, any number of sessions that sell (`Sellers`: bot cycle, force close,
panic), of sessions that run the limit-close routes (`Users`), and the limit order monitor.

| Variable | Code |
|---|---|
| `order`, `wallet` | the exchange: orders with status, size and fill; coins free to sell |
| `pos` | `Position.status`, `closing_via_limit`, `limit_close_order_id`, `total_quote_received` |
| `row` | `PendingOrder`: order id (which a replacement changes), cumulative `filled_base_amount`, remaining, status, `is_manual` |
| `booked` | `Trade` rows by order |
| `pc`, `hold`, `seen`, `poll`, `clearing` | a session between two awaits: where it stands, the order it was told of, the id it loaded, the `order_data` it polled, flags changed and not committed |

An action is what a session does between two awaits on the exchange or the database.
`SellStart`, `SellLimitPlace`, `SellLimitCommit`, `SellMarketSubmit`, `SellConfirmed`,
`SellUnconfirmed`, `SellMarketFail` and `SellDust` follow `execute_sell`: the check of the
flags, the limit attempt with its fall back to market, the clamp to what the wallet has,
the confirmation and the failure paths. `UserLimit*`, `UserCancel*`, `PanicStart` and
`CancelPosition` are the routes. `MonBoot` to `MonReplaceCommit` and `Sweep` are
the monitor: the repair at start, then snapshot, poll without a session, re-select,
apply; complete, release, or, for an order past its time, cancel, look up and
replace. `Crash` loses the sessions and keeps the database and the exchange.

Abstractions: amounts are whole units and the price is one, so proceeds are a number of
units; the fee haircut and the precision of amounts are left out; whether an order is past
its time, profitable, or repriced is a free choice. Not modelled: the route that
updates a limit order, the slippage guard, the short side.

### DealBuying and ShutdownManager

Any number of bots and pairs, one task for each bot and pair (`task`, with the session's
uncommitted position and order), the committed `deal` and `trade` rows, the exchange, and
the per-bot `lock`. `Cycle`, `AcquireLock`, `CountDeals`, `Hold`, `CheckBalance`,
`CreatePosition` follow the decision; `MarketBuy`, `OrderAccepted`, `OrderFailed`,
`Confirm`, `GiveUp`, `HandleUnconfirmed`, `Undo`, `BookTrade` the market buy;
`LimitStart`, `LimitBuy` and `LimitCommit` the limit base order, which is placed outside
the barrier.
`CreatePosition` changes no committed row: a flush is private to its session, and
`Committed` is what a later commit writes of it. `RaiseWithCommit` is the commit the error
handlers make before they raise.

`ShutdownManager` has the flag, the count and, for each request to shut down, whether it
waits, was woken, was left behind by a cancel, and what it was told (`reply`): an answer
is a step later than the wake-up (`Answer`), a timeout or a cancel may come between, and a
request cancelled in between answers without looking again. Each
operation is a conjunct of an action of `DealBuying` (`MarketBuy` enters the barrier,
`Confirm`, `GiveUp` and `OrderFailed` leave it). `Close` is the closing side as another
session. `Correctable` is what the order reconciliation monitor would write to: the trade
rows it selects, as a predicate.

Abstractions: an order has one size, `Cost`, at price one; which signal fires and which
check refuses is free (`Hold`, `Refuse`); one deal a pair (the default); an exchange
reports the status of its orders (a client that reports none counts as finished). Not modelled:
shorts, perpetuals, the speculative bucket, several deals a pair.

### TradingLeader

Processes with a Redis key. Time is discrete and every duration counts down: the key's
time to live (`left`), a sleep or a call to Redis (`timer`); `since` is the monotonic
time since `last_ok`, and `own` what is left of the last lease Redis granted the process,
an observer that goes below zero when it is over. A call takes up to `MaxDelay` to answer
or to fail; the script may run at any moment of it, so an answer may be lost and a
renewal may have happened although the call failed. `CallFails` retries until `since`
reaches the TTL and then ends the process (`os._exit`). `Release` is the graceful stop.
A process that failed is started again by systemd (`Restart=on-failure`); one that was
stopped gracefully (`off`) need not be.

`MaxDelay` is an assumption about the environment: the code configures no socket timeout
on the Redis client. Without one the renewal can hang for as long as the connection does.

### ClientSession

All tabs of one browser, over the server's `/api/auth` as far as they talk to it.

| Variable | Code |
|---|---|
| `store` | `localStorage`: access token, refresh token, user, auto-logout limit |
| `issued`, `alive`, `dead` | access tokens issued per login, session rows, tokens expired or revoked |
| `tab` | the state of `AuthProvider` in a tab |
| `refreshing`, `waiters` | `isRefreshing` and `refreshSubscribers` of `api.ts` |
| `flight`, `profiles` | refreshes and profile calls under way: who asked, with which login, the answer |
| `req` | requests to the API: token they were sent with, how often, where they stand |

A request is sent (`SendRequest`), served (`ServeRequest`: accepted, or 401), and then
subscribes to a refresh under way, starts one, or finds nothing to refresh with
(`Subscribe`, `StartRefresh`, `NothingToRefresh`). A refresh is `ServeRefresh` or
`FailRefresh`, then `FinishApiRefresh`, `FinishOwnRefresh` or `FinishSocketRefresh` by who
asked. Login, logout, the timer, reloads, the profile calls and the end of a session on
the server happen in between. A token is a login and a number; the code's opaque strings
are compared, never read, but for their expiry, which is `Expire` here.

### GameRooms

`rooms` and `user_rooms` are the manager's two dictionaries, `page` and `active` what a
user's browser shows and the room `gameSocket` thinks it is in, `inbox` the messages on
their way to a page. A handler runs whole when the message is sent, since only the same
user's messages could pass it; its answers wait. `Create`, `Join`, `JoinFriend`, `Leave`,
`Ready`, `Start`, `BackToLobby` are the handlers; `SocketEnds`, `LoseSocket`,
`OtherSocketEnds` and `Reconnect` the ends of sockets with the grace for a rejoin;
`OpenPage`, `EnterLobby` and `BackToSelect` the page. `Left`, `Closed`, `Joined`, `Handed`
are the registry's functions.

### RaceMode

Two browsers in a race. `state` is the state of the hook, `seen` what was rendered last
(`Render` copies it): handlers read `seen`, as the code's refs and closures do. `Receive`
takes the next message, `Finish` reports the end of the local game, `AtFinish` and
`AtOpponentFinish` decide the result for each kind of race. A message is relayed only
while both sockets are up.

### HostSync and the games

`HostSync` is what the games share: `host` the game on the host's page, `view` what the
guest was shown, the two wires in order, and losses of either. Each game adds its rules
and who may click when: `SpeedVersus` (both play at once; the guest by index into the hand
it was shown), `MemoryVersus`, `WarVersus` (timers compare and fight out), `GoFishVersus`
(handlers work on a copy an effect refreshes after the render: `host.now`, `host.ref`,
`Commit`), `TicTacToeVersus` (no host; each page marks its own board). `TexasHoldem` is the
betting of one table: blinds, raises, all-ins, pots and bonuses, hand after hand; which
cards come is free, so any set of the players in the hand may win. `GoFish` is the game
against the computer, with its loop and the memory of what the player asked for. A dealt
hand is a bag of ranks; shuffles are free choices. The loop of battles of `resolveWar` is
one step: `ResolveWar` takes the first battle that differs or that somebody cannot pay for,
and `Fought` is the pile of the battles until then.

`Games` is any of them: `game` says which and never changes, each has the variables of
`HostSync` to itself, and the like questions of all are one property each. It carries the
assumptions on the decks and stakes, which hold for the decks the code creates: Speed deals
all of its deck, no picture of Memory is on three cards, both players of War get cards, a
book is more than one card, two or more sit at the poker table.

## 3. Runs

Passing runs:

| Run | Instance | What it shows |
|---|---|---|
| `close_booking` | 3 units, 2 orders, a seller, a route, the monitor, one crash, every optional event; 1.35 M states | `TypeOK`; `BookingInv`, the inductive invariant of the proofs; `OwnOrderSettled`: a row marked filled that was never moved to a replacement has all its order's fills booked; `ImplementsLedger` |
| `close_live` | 2 units, 4 orders, a seller, the monitor, expiries, one crash, fair monitor; 88 k | `LiveOrderTracked`, `ClosedIsFinal` (one seller), `TerminalIsSettled`, `FilledIsBooked` |
| `buy_booking` | two pairs of one bot, 3 positions, 3 orders of two units, one crash, lost replies, expiries, closes, look-ups given up; 2.7 M | `TypeOK`, `OneDealPerPair`, `TradesAreComplete`, `NoEmptyDeal` (before a crash), `ImplementsLedger` |
| `buy_shutdown` | a market bot and a limit bot, two pairs each, two requests to shut down, timeouts, cancels, look-ups given up, fair scheduling; 73 k | `BarrierHolds`, `TaskFinishes`, `WaiterAnswered` |
| `leader_lease` | three processes, TTL 3, interval 1, delay 1, a crash, three failed calls; 15 k | `TypeOK`, `LeaseAge`, `OverrunBounded`, `LeaseIsOwn`, `Succession` |
| `client_live` | a tab, three requests, two access tokens, one call of the tab's own, room for one subscriber, a login that expires, is revoked or limited; 220 k | `RefreshMutex`, `WaitersHeld`, `TokensOfOneLogin`, `RetryNewToken`, `EveryRequestSettles` |
| `race_results` | two players, the three kinds of race, two scores, late renders, a socket that goes down once; about 2.4 M, players symmetric | `BestScoreAgrees`, `ResultIsEarned`, `StartsTogether` |
| `rooms_registry` | two users, two rooms, two games, a lost socket; 1.08 M | `RegistryInv`, `RegisteredIsMember`, `HostIsMember` |
| `games` | the five games of two pages, one message each way, one loss, and a poker table of three; 225 k | see below |

`games` has one behaviour per game; its properties are the like questions of all of them.
`NothingLost`: the cards of Speed and Go Fish and the chips of Hold'em are kept;
`WarCardsKept` the same of each step of War. `MemoryTableAgrees`: open cards, lock and
scores fit together. `TurnCanBeTaken`: in Go Fish the turn comes with a card to ask for, in
Hold'em not to the only player left. `PlayPassesOn`: once a game of Speed is started, a
stalled table is seen by the step that stalls it, only a mismatch ends a turn of Memory, a street of Hold'em ends
with even stakes. `PagesInSync`: a page that has heard everything shows the game.
`TttPlaysOneGame`: two boards without a host implement `TicTacToe`. `GamesEnd`: the game, or
the hand, ends, with three exceptions: a message is lost; a table of Speed is dealt so that
nobody can play (`SpeedVersus!StuckAtStart`, which the run reaches); and in Memory, where
nobody need find a pair, all it says is that the turn comes to the guest or the board is
complete.

Runs that end in a counterexample, each of a sentence of the repository:

| Run | Property | What happens |
|---|---|---|
| `close_replace` | `SettledInFull` | an order partly filled while it is cancelled is replaced; the row keeps the old cumulative amount, so the replacement's first units are never booked (`limit_order_monitor.py:674`) |
| `buy_slots` | `MaxDealsRespected` | the lock around the count is released before the deal exists for any other session (`buy_decision.py:132`) |
| `fish_stuck` | `PlayerCanAsk` | the computer empties the player's hand and passes the turn; the player has no card to ask for (`goFishEngine.ts:303`) |

Statements that fail and that no run of the list checks. They are definitions of the
modules, for a reader who changes the code; where a configuration is named it shows the
counterexample.

| Definition | What happens |
|---|---|
| `LimitClose!NoDuplicateSell` (`MCLimitClose_race.cfg`) | a bot and the route both pass the check at `sell_executor.py:898` before either has committed its flag; two sell orders are live |
| `LimitClose!OrderWithinRest` (`MCLimitClose_expired.cfg`) | a partly filled order expires, the position is released and the next close sells the whole amount again, out of other positions' coins |
| `DealBuying!ReadyIsRecorded` (`MCDealBuying_ready.cfg`) | an order leaves the barrier on confirmation, before its trade is committed (`buy_executor.py:413`) |
| `DealBuying!SettledIsCorrected` (`MCDealBuying_unbooked.cfg`) | look-ups give up, the order fills, and no state the reconciliation monitor repairs is ever written (`fill_reconciler.py:184`) |
| `DealBuying!NeverStale` (`MCDealBuying_stale.cfg`) | a request woken by the last order answers "ready" after the shutdown was cancelled and another order began (`shutdown_manager.py:120`) |
| `TradingLeader!OneLeader` (`MCTradingLeader_overlap.cfg`) | the age of the lease is looked at only when a call fails, so the key expires and is taken while the old leader still trades (`trading_leader.py:86`) |
| `ClientSession!OneRefreshAtATime` | the timer and the socket refresh without the mutex of `api.ts:27` |
| `GameRooms!OneRoomPerUser` | leaving the room of an old page forgets the room the user is in (`game_room_manager.py:219`) |
| `GameRooms!OpponentUndisturbed` | a room handed over or reset by one player is closed by the other's leave (`game_ws_handler.py:360-362`) |
| `RaceMode!SharedSeed` | both sides draw a seed and each installs the other's (`useRaceMode.ts:373-374`) |
| `RaceMode!BestScoreDecided` | a score sent after the end takes the end back, and nobody gets a result (`DinoRunner.tsx:1296-1301`, `useRaceMode.ts:106-108`) |
| `RaceMode!SurvivalDecided` | two that die with the other's death on its way both lose |
| `Games!SpeedNeverStuck`, of `SpeedVersus!SomebodyCanPlay` (`MCGames_start.cfg`) | the flip that starts the game does not look: a table dealt so that nobody can play stays "playing" for ever, with no move and no flip offered, although `speedEngine.ts:9` has the piles flipped when neither can play (`SpeedMultiplayer.tsx:134-149`) |
| `WarVersus!ResultStands` | a late flip of the guest is taken in any phase, also after the end |
| `GoFishVersus!BooksStay` | a message that comes before the effect is worked on the game as it was, and takes back the last move |

The pairs are meant to be read together: `OwnOrderSettled` holds where `SettledInFull`
fails, so the fault is the replacement and nothing else; `BarrierHolds` holds where
`ReadyIsRecorded` and `NeverStale` fail, so the barrier works for what it counts and while
the shutdown stands; `OverrunBounded` says how long the overlap of `OneLeader` can last: an
interval and two calls; `TokensOfOneLogin` holds although `OneRefreshAtATime` fails: two
refreshes at once do no more than let an older token overwrite a newer one of the same
login, which the next 401 repairs. `BestScoreAgrees` says that results never contradict
each other where `BestScoreDecided` says they may be missing.

### Bounds, and why they are enough

* Orders: two let an order be replaced or sold twice; four (`close_live`) let a close be
  tried again after every way of ending. Units: two allow one partial fill, three two of
  different size before the last. The proofs hold for every number of both.
* Crashes: one. A second crash starts from states the first can leave as well, since
  a crash keeps only the database and the exchange; the proof has no bound on it.
* `buy_booking`: three positions let both pairs have one and one of them be replaced
  after a failure or close; `RowsLeft` keeps a row for every task that may create one, so
  no task is stuck by the bound. Orders of two units allow a partial fill.
* `buy_shutdown`: two requests are what it takes for one to wait while another is
  cancelled, woken or answered.
* `leader_lease`: TTL 3, interval 1, the proportion of the defaults (30 s and 10 s).
* `client_live`: with three requests one refreshes, one waits and one finds the list of
  subscribers full (50 in the code, one here); two access tokens are one refresh. Several
  tabs and logins only write the store in between: the proofs cover every number of them.
* `rooms_registry`: two rooms let a user be in one while the other's page is old; two
  users let a host leave and hand over. Proved for every number of both.
* `race_results`: two scores and equal ones give the three results; a player reports once
  while it plays.
* `games`: the smallest decks with every rule in them: tables of Speed that stall, that
  stall again after a flip, that stall with nothing left to flip, and on which nobody can
  play from the start, wars that tie again and that a player cannot pay for, three ranks of three
  in Go Fish, a side that is all in and a pot that does not divide in Hold'em.
* Deadlock is checked in `leader_lease`. The others may stop: orders, rows, requests and
  cards run out, and games end.

### Fairness

* `LimitClose`: weak fairness of the monitor, whose loop runs every ten seconds as long as
  the process does; strong fairness of the poll and of what applies it, since the loop
  tries again after an exception and the exchange does not fail the same call for ever.
  Nothing is assumed of sellers, of the exchange's matching, or of users.
* `DealBuying`: weak fairness of each task, whose awaits end; strong fairness of the lock,
  which `asyncio.Lock` hands over in order of arrival; market orders are matched; the
  wake-up of a waiting shutdown is served. Nothing is assumed of its timeout.
* `TradingLeader`: time passes, calls reach Redis or fail, a failed process is restarted.
* `ClientSession`: answers to requests and to refreshes under the mutex arrive or are given
  up (a request after 45 s; the refresh is a `fetch` without a timeout, given up only when
  the connection breaks), and the tab's event loop handles them. Nothing is asked of the
  timer, of the socket, of users or of the server's revocations.
* Games: messages on a live socket arrive, timers fire, pages are drawn, and a player who
  may move does. `GameRooms` and `RaceMode` state no liveness.

## 4. Proofs

`LimitCloseProofs`, for every `Size`, `Other`, `MinOrder`, number of orders and of
crashes, and every set of sessions (`SizesAssumption`, `SessionsAssumption`):

* `BookingIsInvariant`: `Spec => []BookingInv`, `TypeCorrect`: `Spec => []TypeOK`. The
  two are inductive together. That trades never exceed fills is not inductive alone: a
  row must cover the trades of the order it names (`RowCovers`), an order must have one
  row (`OneRowPerOrder`), what the monitor polled lies between the trades and the fills
  (`PollBetween`), and an order no row names yet has no trades and one owner
  (`UnplacedIsPrivate`, `HeldIsPrivate`). The proof has one lemma per action, over lemmas
  of what the exchange and the sessions leave alone.
* `NothingBookedTwice`: `Spec => []NoOverBooking`, from it.
* `LedgerImplemented`: `Spec => ImplementsLedger`. Initial states map to initial states;
  under the invariant each step is a fill, a record or a stutter of `FillLedger`.

`LimitCloseSettled`, over the same invariant:

* `OwnOrderIsSettled`: `Spec => []OwnOrderSettled`, that nothing of a fill is left out
  where no replacement is involved. Its own strengthening, `SettledInv`: a row that names
  its own order counts exactly that order's trades (`OwnRowCounts`), one marked filled
  counts all of its fills (`OwnRowFilled`), an answer "filled" stays true while the monitor
  holds it (`PollSettled`), and no order a session holds has a row (`HeldHasNoRow`,
  `RowPlaced`), so that a row that moves never comes back to its own order.
* `ClosedStaysClosed`: `Spec => ClosedIsFinal`, and `LiveOrdersAreTracked`:
  `Spec => []LiveOrderTracked`, for every size, number of orders and of crashes, where one
  session closes and no operator sells or cancels past it (`OneSession`), and for the second
  where no reply is lost and cancellations work (`RepliesArrive`). The hypotheses are those
  of `close_live` and are needed: `NoDuplicateSell` shows what two sessions do, and an
  order whose reply is lost is tracked by nobody. The strengthening `SoleInv` says that the
  flags go together, that a session which sells found them clear, and that the monitor
  watches the order they name; `WatchedOver`, that what the monitor takes for over is, which
  is why it may release the position or replace the order.

`DealBuyingProofs`, for every finite set of bots and pairs, any funds, orders, crashes and
requests. The inductive invariant is `TypeOK` with `OrdersOK` (an order is held by one
task, which has booked nothing of it, and a trade is of an order that is over), `DealsOK`
(a task's uncommitted row is its own, and its pair has no other open deal) and `BarrierOK`
(the count is the number of tasks inside the barrier, which needs finiteness, and a request
is woken or told ready at count zero).

* `TypesHold`, `OneDealAPair`, `TradesComplete`, `NoDealEmpty`, `BarrierIsHeld`: the type
  invariant and the four safety invariants of the runs.
* `LedgerKept`: `Spec => ImplementsLedger`, the opening side of the same ledger.

`TradingLeaderProofs`, for every TTL, interval, delay and set of processes
(`DurationsAssumption`, `HoldersAssumption`, `BoundsAssumption`):

* `TypesHold`; `LeaseAgeKnown`: `Spec => []LeaseAge`. With `TypeOK` it is inductive: a
  reply is at most one call older than the grant, so `own + since >= TTL - MaxDelay` for
  every leader.
* `OverrunIsBounded`: a leader outlives its lease by less than `Interval + 2 * MaxDelay`.
* `LeaseStaysOwn`: `Spec => LeaseIsOwn`, an action property: only `Release`, and the end of
  a process, take a lease that still runs from its owner.

`ClientSessionProofs`, for every number of tabs, users, logins, requests, tokens and
subscribers. The invariant is `TypeOK`, `RefreshMutex`, `WaitersHeld`, `TokensOfOneLogin`,
`RequestsOK` (what the token, the count and the state of a request say of each other),
`HoldersOK` (a request is refreshing exactly while a refresh of its own, in its tab, is
under way) and `TokensOK` (a token on its way has been issued, once, and no tab and no
request has it yet). The last is why a retry carries another token than the one refused;
the mutex and the waiters are inductive only together, since a list kept while nobody
refreshes would be called by nobody.

* `TypesHold`, `MutexHolds`, `WaitersAreHeld`, `TokensBelongTogether`, and the action
  property `RetriesAreNew`.

`GameRoomsProofs`, for every set of users, rooms and games and any number of losses:

* `RegistryHolds`, `RegisteredAreMembers`, `HostsAreMembers`. The three invariants are
  inductive together; there is a lemma for each function of the registry and one for each
  handler, over what they leave alone.

`RaceModeProofs`, for every set of scores and kinds of race and any number of reports and lost
sockets. Results agree although each page decides alone, because what a page knows of the
other is never wrong, only late: the invariant `IInv` says so of the messages on their way
(`MessagesTrue`) and of the state and the rendered copy of each page (`ViewsTrue`), and a
result that is shown compares the scores of two that have ended (`ResultsCompare`).
`CountsTogether` is what `StartsTogether` needs of the countdown.

* `TypesHold`, `ResultsAgree`, `ResultsAreEarned`, `StartsAreTogether`.

`GamesProofs`, for every deck, deal, number of seats and stakes that `Games` assumes, and
wires and losses of any number. The inductive invariant `GamesInv` has a part for each game
and one they share:

* `Latest`: the last message to the guest is the host's table as it is, or the wire is
  empty and the guest has it, or it was lost. `PagesInSync` is not inductive without it.
* Speed: the cards of each rank on the table are `SpeedCopies` and no hand is above its
  size; a late click plays an index into a hand that has changed, so clicks are any numbers.
* Memory: `TableAgrees`, and the two open cards of a locked table differ (`TwoKinds`), for
  the timer turns back what the lock was set for.
* War: the host has flipped only before the cards are compared, and then both have cards;
  the guest's flip counts in any phase, which is why nothing like it holds for the guest.
  The battles of a war are proved to lay each card down once (`PutDown` and what follows).
* Go Fish: the cards are kept and the turn can be taken in the game and in the copy the
  handlers read, since either may be what the next action starts from.
* Tic-tac-toe: the pages show one board, or one is a mark ahead with the mark on its way or
  lost (`MarkAhead`); that is the refinement mapping of `TicTacToe`.
* Hold'em: chips and pot are what was paid in and the bonuses (`ChipsAre`); whoever is in and
  not all in has chips, and has put in on the streets before as much as anybody (`HandOK`);
  whoever has the turn is in the hand with somebody else.

The lemmas count cards by adding up over a finite set one element at a time, a
well-founded argument with a set of counterexamples in place of an induction scheme.

* `CardsAndChipsKept`, `MemoryAgrees`, `TurnsCanBeTaken`, `PagesAgree`: the four invariants
  of the run; `PlayPassesOnRight` and `WarKeepsCards`: its action properties;
  `TttIsOneGame`: `Spec => TttPlaysOneGame`, two boards implement one.

Only model-checked: liveness under fairness and everything with `ENABLED`, which are out of
this prover's reach, as are induction over data and recursive operators (`GoFish` and its
loop). Every invariant and every action property of a passing run is a theorem; what is left
are the liveness properties `TerminalIsSettled`, `FilledIsBooked`, `TaskFinishes`,
`WaiterAnswered`, `Succession`, `EveryRequestSettles` and `GamesEnd`.

## 5. What could come next

* `PaperBalances` (`exchange_clients/paper_trading_client.py`): two event loops, a lock of
  each, one stored balance; conservation of the balance.
* `SingleFlight` (`cache.py`): callers, cancellation and invalidation of `get_or_fetch`,
  against a cache that never answers an invalidated value.
* `PropGuard`: pre-flight, kill switch and monitor; no order after the switch is thrown.
* A market close after a partial limit fill and `total_quote_received`
  (`sell_executor.py:363`); adds booked on a position closed meanwhile
  (`buy_executor.py:169`).
* The other two-player games over `HostSync`; invitations to rooms.
* The short side, perpetuals and the grid, which repeat the shapes of `LimitClose` and
  `DealBuying`.

## 6. Not modelled

Signal arithmetic and indicators (which signal fires is a free choice); HTTP, signing and
parsing of exchange clients (an exchange is orders, fills, expiries, lost replies and
look-ups that fail); the order update route; reports, news, AI team, backtesting,
migrations, chat. Of the frontend: the trading pages, which are forms and tables over the
routes; word lists, levels, songs and drawings, which are data; the engines of the arcade
and puzzle games, which are loops of one thread and one player. These are most of the
frontend's lines, so the share of it that the models translate is small, and would stay
small whatever else of it were modelled.

Code that exists and that the program does not reach is left out on purpose:

* placement of safety limit orders: no caller passes a `safety_order` trade type
  (`buy_executor.py:534`), so their monitor (`services/safety_order_monitor.py`) has
  nothing to watch;
* the manual add-funds route: it calls `execute_buy` with an argument it does not take, and
  always fails (`position_manual_ops_router.py:88`);
* `forfeit()` and `finalizeResult()` of `useRaceMode.ts`, which no game calls;
  `finish_game` and `expire_disconnected_players` of the room manager.

A limit base order is placed in `DealBuying` and stays there: no monitor of the code books
its fills (`buy_executor.py:516-531`).
