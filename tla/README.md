# Verification of the open-chat backend

TLA+ models of the Go backend in `src/backend`, model-checked with TLC on small
instances, with theorems proved by TLAPS for all instances. The models are
translated from the code; documentation and comments are used only where a run
compares them with what the code does.

## 1. Inventory

The backend is one Go process (`cmd/server.go`) that serves an HTTP API and
websockets, and an [asynq](https://github.com/hibiken/asynq) worker that runs in
the same process or in its own (`cmd/worker.go`). State is in a SQL database
(gorm), in Redis (the asynq queue: an external server or one embedded in the
process), and in memory (websocket subscriptions, callback registry, caches).

| Component | State it keeps | Operations | Hard behaviour | What makes it correct |
|---|---|---|---|---|
| **Bot reply pipeline** `workqueue/`, `queue/`, `api/chats/MessageSend.go`, `RerunMessage.go` | message rows, one asynq task per chat, handler goroutines with contexts | send, rerun, interrupt; enqueue (signal, delete, enqueue); claim, retry, archive, recover; generate, post, return; shutdown, crash, restart | every request is several independent calls; cancel signals arrive late or never; asynq abandons a handler that goes on running | an accepted message is answered or withdrawn, at most one handler has the mandate of a chat, no duplicate answer without a cause |
| **Interaction status** `api/chats/InteractionStatus.go` | none (reads queue and rows) | resolve | read while the queue changes | never "finished" while a reply is produced |
| **Generated reply** `api/msgmate/openai.go`, `MsgmateBotAIHandler.go` | counters, cache of executed calls, four channels, text and tool calls of the message | rounds with the provider, tool calls, completion tools; consume, pause, final message | two goroutines on unbuffered channels, closed in an order the consumer does not see; limits; cancel at any time | errors are reported, no text is missing, tools that ran are in the message, limits hold |
| **Confirmable actions** `api/tools/confirmable_actions.go` | statuses in the metadata and tool calls of a message, event messages | execute an action | the tool runs outside the transaction; the transaction writes back a whole JSON document read before | an action is handled once, what the message shows really happened |
| **Websocket hub** `api/websocket/` | subscribers, their buffers, connections | subscribe, publish, close slow, shut down | publishers never wait; the closing goroutine races with the set-up | in order, complete unless closed as slow, nothing left open |
| **Registration** `api/user/Register.go`, `api/admin/RegistrationRequests.go` | users, registration requests | register, approve, reject; backfill of usernames at a start | concurrent registrations and decisions, a restart that changes the sign-up flag | an approved request owns its account, a rejected registrant has none, one decision counts |
| **Tool init store** `database/tool_init.go`, `api/tools/handler.go` | one row per chat and tool, mirrored in the chat's shared config | store, set an expiry, resolve, dispose at the end of a reply | whole-document writes of the shared config, expiry, revived and duplicate rows | data disposed of does not come back, row and mirror agree |
| **History** `MsgmateBotAIHandler.go`, `LoadMessages.go` | none (reads messages), the message stored at the end | assemble the request, slash commands, store the reply | the window of newest messages moves while replies wait; a call without a result is refused by the provider | the message answered is asked, once and in order |
| **Tools of a reply** `MsgmateBotAIHandler.go`, `Tools.go` | a map of instances per reply | look up, give data, run at the start and the end | one tool configured several times, names that clash | a tool runs with its own data, once |
| **MCP tools** `api/msgmate/mcp_tools.go` | none | call, initialize on demand, try again | loss and restarts of the server, concurrent callers | a call runs its tool at most once |
| **Text of a reply** `MsgmateBotAIHandler.go` | answer, thoughts, a buffer of unfinished text | add a piece, end, clean up | tags divided between pieces, ends within a thought | what is shown does not depend on the pieces |
| **Sessions** `server/middleware.go`, `api/session.go`, `Login.go`, `Logout.go` | session rows, cookies of a browser | log in, ask, follow redirects, log out, expire | several cookies of one name, answers that arrive late | a logout ends what it was sent with, a dead cookie does no harm |
| **Second factor** `Login.go`, `TwoFactorSetup.go` | secret, recovery codes, sessions | set up, switch off, log in | check-then-mark of a code, set-up without a transaction | a code works once, shown codes work |
| **Access tokens** `PermissionsAndTokens.go`, `middleware.go` | tokens, pending logins of command line clients | create, hand out, use, revoke | count-then-create, racing polls, a stale row written back | the limit holds, a token is handed out once, a revoked one stays revoked |
| **Integration access** `api/integrations/Access.go` | grants (soft-deleted rows, unique index) | grant, revoke | a revoked row still occupies the index | the last decision counts |
| **Chats and links** `api/chats/Create.go`, `SharedChat.go` | chats, messages, shared configs, shares | create, send, publish, end publication | whole-row saves, check-then-create | the reply finds everything, a chat that is not shared has no link |
| **Files** `api/files/handler.go`, `MsgmateBotFileHandler.go` | files on disk, their rows, accesses, copies at the model's store | upload, attach, read, assemble, delete | disk and row change one after the other | a row has its file, a deletion can be repeated |
| **Bots** `api/bots/Bots.go`, `cmd/bot_config_bootstrap.go`, `server/server.go` | bot users, profiles, runtime rows, owners, contacts | create, change, delete, use; start of the server | starts that stop in the middle, indexes over deleted rows | a start completes what an earlier one began |
| **Models** `database/model_config.go`, `api/models/Models.go`, `MsgmateBotProfiles.go` | model rows, the profiles that show them | seed, synchronise keys, create, patch, delete, select, rebuild | read-then-write of whole lists, delete-then-make | the catalogue is ready after a start, only overlapping changes are lost |
| **Queued tools** `queue/tasks/tool_execution.go`, `queue/redis_runtime.go`, `cmd/worker.go` | task, result row, the Redis in use | choose a Redis, enqueue, attempt, retry | attempts that overlap, two processes that choose apart | a completed task ran, attempts are bounded |
| **Mobile proxy cache** `server/mobile_proxy_cache.go` | cached responses (soft-deleted rows) | serve, upsert, prune | count-choose-delete beside other requests | the cache stays bounded, the oldest goes |
| Function registry, command line client, routing, lists, validation, admin views, metrics, generators | rows read, or nothing | reads and formatting | none beyond single rows | |

How they interact: a request stores a message and calls the queue; the worker
calls the handler, which opens a bot session, generates the reply with producer
and consumer goroutines, streams it through the websocket hub and posts the
final message through the HTTP API of the same process; a reply may suggest
confirmable actions, and confirming one may schedule a further reply; the status
endpoint and the CLI observe the queue from outside.

`PROJECT.json` lists the hazards of this code at their lines with the properties
that would catch it going wrong, and for those without one the reason.

## 2. Plan

Modules, in the order of importance, all written:

1. `ReplySlot` (abstract), `BotReply`, `BotReplyRefinement`, `BotReplyProofs` - the
   bot reply pipeline. `BotReplyProofs` also has the theorem about `ThinkTags`.
2. `ToolStream` - one generated reply; `ThinkTags` - its text; `ChatHistory` - what
   the provider is asked and what is stored; `ToolSetup` - its tools; `McpCalls` - tools
   on other servers; with `ReplyProofs`.
3. `ConfirmableAction` - actions that users confirm.
4. `WebSocketHub` - streaming to clients; `Sessions` - who the clients are; with
   `HubProofs`.
5. `Registration`, `SecondFactor`, `AccessTokens`, `IntegrationAccess` - accounts, with
   `AccountProofs`.
6. `ToolInit`, `Chats`, `Files` - what belongs to a conversation, with
   `ConversationProofs`.
7. `BotProfiles`, `ModelConfigs` - bots, models and starts of the server, with
   `ModelProofs`.
8. `ToolQueue`, `ProxyCache` - tools in the background and the cache. `AssistantProofs` has
   the theorems about these two, `BotProfiles` and `ConfirmableAction`.

`DataLemmas` has what the proofs share: induction over numbers, and what operators on
sequences do.

Composition: components that share state are in one module (a bot's start and the
API on the same rows in `BotProfiles`, a chat's creation and the messages sent to it
in `Chats`, second factor and sessions in `SecondFactor`). Components that share none
are checked side by side in one run: a variable `part` chooses one at the beginning,
and the others stand still (`MCReplies`, `MCModels`, `MCAccounts`, `MCConversations`,
`MCAssistants`, `MCWebSocketHub`). That loses nothing, because no step of one reads
what another writes, and it keeps their state spaces a sum and not a product.
In two of them a variable `coming` also chooses which requests come in a behaviour,
where all together would be too many: a behaviour without some requests is one of the
module, and the sets of `MCCompany` are chosen so that every two kinds of request that
touch the same rows meet in one of them.

Open: a refinement that maps the end of `ToolStream`'s consumer ("finished",
"failed", "paused") to Respond, FailResponse and PauseResponse of `BotReply`; the
administrator's bootstrap (`cmd/server.go`, renaming of users that are in the way);
two channels of `WebSocketHub`.

## 3. The modules and the code

### BotReply: `workqueue/bot_reply.go`, `queue/tasks/bot_reply.go`, `api/chats/MessageSend.go`, `RerunMessage.go`, `InteractionStatus.go`, `cmd/server.go`

A request is a process of four steps, as in the code: store the message (or, for
a rerun, soft-delete the tail of the chat and recreate it), publish a cancel
signal, delete the task, enqueue (`MessageSend`/`RerunMessage`, `EnqueueSignal`,
`EnqueueClear`, `EnqueueTask`). Between any two of them other requests, the
worker or a stop of the process may come. The queue is external: `task[c]` is the
asynq task with the id of chat c, `worker[c]` the attempt whose outcome asynq
waits for. `Claim`, `AbandonAttempt`, `FinishTask`, `Forward` and `Recover` are
what asynq does with the options the code sets (unique task id, MaxRetry,
Timeout, retention 0). The important detail is that asynq does not stop a handler
goroutine: when a context ends, the task is retried while the old handler goes on
(`fate = "abandoned"`). `LoadSource`, `Respond`, `FailResponse`, `PauseResponse`
and `ReturnResult` are the handler. Shutdown closes the HTTP server, through which
handlers post, before the worker (`CloseHTTP`, `StopWorker`).

`ReplySlot` says what this promises: a chat owes one reply at a time, one handler
has the mandate for it, and a message is scheduled once. `BotReplyRefinement`
maps the queue to it: what a chat owes is the message of its task while the task
is live, and the mandate is a worker whose attempt has a live context.

Left out: Redis failures and lease expiry of a stalled but living worker, the
session and task-result rows (they follow the handler's `pc`), the status
fallback on the newest message, and users that are not bots. What keeps a handler
from beginning (bot, message, sender or session missing) is one disjunct of
`LoadSource`; the chat is told nothing then.

### ToolStream: `api/msgmate/openai.go:241-839`, `api/msgmate/MsgmateBotAIHandler.go:537-1019`

The producer (`streamChatCompletion`) and the consumer
(`processStreamingResponse`) are two processes. A send on an unbuffered channel is
the producer waiting in `chunk`, `usage`, `announce` or `report`, and the receive
takes it on: one joint step. The error channel holds one error. The provider is
external and may send any sequence of text, usage, usable and unusable tool calls,
end the stream or break it. A tool call is announced, run and reported; a signature
that was executed before in the same reply is answered from the cache; a
confirmable call is run, its result dropped, and may stop the reply. `Close` is the
deferred closes in their order, `SeeClosed` the consumer's `chan = nil`. Pieces of
text are numbered, and `shown` holds the numbers that are in `fullText`; `mark` is a
history variable.

Left out: partial messages; what `ThinkTags`, `ChatHistory` and `ToolSetup` say of the
same reply. `calls` is what the message records, under the id of a call (`IdOf`): ids
are the provider's, so with `RepeatedIds` one may be given to several calls, also of
different tools, and one may be empty (`NoId`); the later call takes the place of the
earlier one. `latest` is the history of which call had an id last.

### ConfirmableAction: `api/tools/confirmable_actions.go`

One message with several actions. A request reads metadata and tool calls
(`Read`), runs the tool (`Run`), and commits (`Commit`): the metadata it has read
with its own action changed, the tool calls it has read if the tool succeeded, and
two events. `CommitFails`, `Stop` and `DeleteMessage` can come at any point. The
history variable `overlapped` says whether a request ever began while another was
under way.

### WebSocketHub: `api/websocket/handler.go`

A subscription is registered before its connection is accepted; then the
connection is handed to `closeSlow` under a mutex (`Assign`), registered, and
served. A publisher offers a message to all subscribers under the hub's lock and
starts `closeSlow` for those whose buffer is full. Both kinds of channel (user and
chat) have the same code; the model has one channel. The deferred calls of the
handler are one step.

### Registration: `api/user/Register.go`, `api/admin/RegistrationRequests.go`, `database/migrations.go`

A registration is up to three queries without a transaction: the lookup of the
address (`CheckEmail`), and then either the account (`CreateUser`) or, when sign-up
needs an approval, the lookup of a pending request (`CheckPending`) and the request
(`CreateRequest`). A decision is one transaction; its reads are steps of their own
(`Review`, `LookUpEmail`), because under READ COMMITTED other requests commit between
them, and its writes take effect together (`Approve`, `Reject`). `account[e]` says
which registration the user of address e was made from, `row[r]` is the status of
r's request. An approval makes a user without a username; the column has a unique
index, so `Approve` fails while another such user is there, until `Restart`, which
runs the migration that fills usernames in, and may change the sign-up flag.
`crossed` (requests with two decisions under way at once) and `raced`
(registrations that looked for a pending request while another of their address was
about to create one) are histories: the properties say what holds outside of them.

Left out: passwords, profiles and contacts of the new user (same transaction, or
failures that are only logged), the e-mail notifications, and a registration with
the address of a user that was not made by registering.

### ToolInit: `database/tool_init.go`, `api/tools/handler.go`, `api/chats/MessageSend.go:370-413`

The data of a tool is in a row and, as a copy, in the `tool_init` document of the
chat's shared config, the mirror. A row has the name of the store that inserted it;
`id` is its primary key, which decides which of two rows a query returns. A store is
a transaction of `Find`, `Save` and `Commit` (or `Fail`, at either place), then, for
a store that names one, `SetExpiration`; `InTurn` is the loop of a message that
brings data for several tools. `Locked` are the rows an uncommitted store has
written, which other writers wait for. A disposal collects and deletes the rows of
the chat (`DeleteRows`) and replaces the mirror by its shape with null values
(`Dispose`, `DisposeFails`). A reader loads the chat with its config (`Load`), looks
at the row (`Get`) and, if it has expired, deletes it by its key (`DeleteExpired`) and
uses what was loaded. `Expire` is the clock passing a row's expiry. The mirror is
written as a whole document, whatever has been written since it was read: `config[s]`
is the document as store s has read it. `gone` and `crossed` are the histories of
disposals, `doubled` and `overlapped` those of concurrent writers, `last` and `recent`
the values a reader may return.

Left out: the JSON itself (what is removed is "the data", what remains "its shape"),
chats without a shared config, whose mirror does not exist, and SQLite, where one
transaction at a time writes and fewer behaviours are possible.

### ThinkTags: `api/msgmate/MsgmateBotAIHandler.go:749-1019`

The text of a reply is a sequence of symbols that comes in `Piece`s. With reasoning
on, `reply` is what the consumer keeps: answer, thoughts, whether it is in a thought,
and the buffer that may be the beginning of a tag. `FirstCall` clears it; `Finished`,
`Paused` and `Failed` store the message, whose text is cleaned of the tags that are
left. `Process` takes one tag after the other from the buffer (`TakeTag`) and passes on
what no tag can begin in (`PassOn`); it and the other recursions are recursive functions,
so that they can be reasoned about. `Whole` is the reference: the division of the text
taken at once. The tags are
two and three symbols of an alphabet of four, so that one may begin within another.

### ChatHistory: `api/msgmate/MsgmateBotAIHandler.go`, `LoadMessages.go`, `MsgmateBotHistory.go`

`rows` are the messages of a chat with their calls of tools. `SendMessage`, `Rerun`
and a confirmed call with continuation (`Confirm`) queue a reply; `Load` reads the
newest `context` messages, `Ask` makes the provider's request from them, a `Command`
is answered without it. `Answer`, `PauseReply`, `FailReply` and `Refuse` store what
came of it. A provider refuses a request in which a call has no result. The request is
the concatenation of what each row of the `Window` is shown as, with the message to be
answered at the end if it is not among them; one that nothing can be asked of (`Empty`)
is not. `refused` counts the refusals since the last rerun and `before` adds up those
before, with the reruns; a rerun repairs nothing, it brings the call back to the end.

### ToolSetup and McpCalls: `MsgmateBotAIHandler.go:454-530,1032-1156`, `Tools.go`, `mcp_tools.go`

`RegisterTool` takes one entry of the chat's configuration, finds its tool (built in,
described as a REST call, or of an MCP server), gives it its data and puts it into
`tools`, one map of strings, under its entry and its function, so that a function may take
the place of another entry that is named like it, and marked entries into a list. `RunMarked` runs those for the start and the
end; `ModelCalls` those the model asks for. A chat tagged skip-core does without the
model. In `McpCalls` several calls of one server run at once, each with the session it
has made for itself: `CallTool`, on a refusal `Initialize` and `Notify`, and `CallTool`
again. `Lose` is a request or an answer that is lost, `RestartServer` forgets all
sessions.

### Sessions: `server/middleware.go`, `api/session.go`, `api/user/Login.go`, `Logout.go`

A browser with one cookie per scope and several requests under way. `Login` stores a
session and answers with its token; `Resolve` looks up a request's tokens one after
the other, until one is alive, and serves it as its user; `Logout`
deletes all sessions it is sent with. The answer is `Receive`d later, and only then
are cookies set or cleared and redirects followed, so that an answer may clear what a
login has set since. `Expire` is a session's end. The server's answers name only the
scopes `Cleared` gives, so dead cookies of another scope stay.

### SecondFactor, AccessTokens, IntegrationAccess: `api/user/`, `server/middleware.go`, `api/integrations/Access.go`

`Confirm` switches the factor on and creates its codes one by one, `Disable` switches
it off and removes them; a `Login` reads the user, looks for an unused code and marks
it, each a query of its own. Tokens are counted and created (`Create`), created by a
browser and kept for a client (`AuthInsert`, `AuthStore`, `Pop`), loaded and touched by a
request that bears one (`Resolve`, `Touch`), revoked and expired. A grant is looked for
and inserted (`FindGrant`, `InsertGrant`); a revocation is a soft deletion, whose row
the unique index still counts.

### Chats and Files: `api/chats/Create.go`, `SharedChat.go`, `MessageSend.go`, `api/files/handler.go`, `MsgmateBotFileHandler.go`

`InsertChat` to `Schedule` are the writes of a creation in their order, two of them the
whole row as it was loaded, and `ShareFiles` may miss a file; `LookUpChat` and `SendMessage`
are a message sent meanwhile, refused if it brings data for tools to a chat without a config
(`Refused`), `LookForConfig` and `LinkConfig` a bot's request that stores such data and gives
the chat a config if it had found none; `EnsureShare`, `MakeShare` and `Unpublish` the links. A file is bytes on
disk and a record: `CreateFile`, `CopyFile`, `SendToModel`, `InsertRecord`; `RemoveFromDisk`,
`DeleteRecord`; `FilesCrash` comes at any step. An assembling reply reads the record,
asks whether the model's store has a copy and makes one if not.

### BotProfiles: `cmd/bot_config_bootstrap.go`, `server/server.go`, `api/bots/Bots.go`, `api/contacts/Add.go`

A `Start` goes through the configured entries: user, mark, and then in one transaction
profile, owners and contacts (`CreateUser`, `MarkAutomated`, `ApplyEntry`; an entry that overwrites sets the flags of the
file, `Overwritten`, one that is new is active whatever the file says), a `Crash`
may come between any two, and the next start goes through them again. Requests create
bots, change them (`ResolveOwned`, `WriteProfile`), and make interactions, which are
committed before they are scheduled. Rows deleted softly still occupy the indexes.

### ModelConfigs: `database/model_config.go`, `api/models/Models.go`, `api/admin/BotModelSelection.go`, `MsgmateBotProfiles.go`

`Boot`, `SeedEntry`, `BeginSync`, `SyncRow` and `BeginProfiles` are a start, `Halt` cuts it
off. A rebuild deletes the profile of a bot, lists its models and inserts a profile;
that of a start and those of selections run at once. A patch is checked against the row
it has read (`ReadRow`) and written to the row as it is by then (`WriteRow`); a selection
reads the list of a row's bots and writes it back. `HasRead` tells which patches have
read their row. A row lists its bots by the names of their users (`name`), which are neither
unique nor constant: `RenameBot` changes one, and bots of equal names share their models;
`called` is the name that a selection has read. A patch may also give a default row a configuration with another backend:
the default bot then has the row, or does not, by the backend it had at the last start
(`UpToKeys`).

### ToolQueue and ProxyCache: `queue/`, `cmd/worker.go`, `server/mobile_proxy_cache.go`

Each process asks for its Redis once, when it starts, and has one of its own if the external
one is `silent` then. The queue claims, times out, retries and
recovers a task as in `BotReply`, but the handler has no context: an attempt goes on
(`RunTool`, `WriteSuccess`, ...) when the next has begun. The cache's store, count, choice
and deletion are steps of different requests between which others store and serve.

## 4. Runs

| Run | Question | Bounds |
|---|---|---|
| `BotReply_requests` | do racing sends, reruns, interrupts, deadlines, retries and restarts keep owner, status and answers straight; is every step one of the reply slot? | 1 chat, 2 messages (symmetric), 1 interrupt or 1 stop (`CONSTRAINT Apart`: both together are in `BotReply_liveness`, with one message), 3 attempts, MaxRetry 1, external Redis |
| `BotReply_liveness` | does every chat come to rest, is an accepted message answered, also when the queue dies with the process? | 1 chat, 1 message, 1 interrupt, 3 attempts, 1 stop, embedded Redis; `FairSpec` |
| `BotReply_conflict` (violation) | does a new message cancel the reply that is being generated? | 1 chat, 2 messages, of which the second is sent while an attempt at the first generates (`SentMeanwhile`) |
| `ToolStream_serial` | reply: do limits, completion tools and stop work; does the consumer always send a final message? history: is the right message asked, in order, and how long is what follows refused? tools: does each run once and with its own data? MCP: does a call run its tool once? | 4 calls (two with one signature, one confirmable), limits 2 and 1, 2 pieces of text, one call in a round, ids fresh or empty, cancel; 5 messages, or 6 of one text, 3 of them shown; configurations of up to 3 of 6 entries, with functions that clash with each other and with an entry; 2 callers, 1 restart |
| `ToolStream_parallel` | reply: are errors, text and tools complete under any order of channels? text: does it matter how it is divided? models: what can overlapping changes lose? | 3 calls, several in a round, one id given to two calls, one empty, ids used again, limits 2 and 2, 1 piece of text, cancel; texts of 6 symbols in pieces of up to 2; 2 entries of files, 2 starts, 1 added row, 1 deletion, and either 2 patches and 1 chat, or 3 selections, or 1 patch and 2 selections, or 1 patch and 1 selection of a default row, or a bot that comes to have another one's name and 1 or 2 selections |
| `Assistants` | actions: is an action handled once? bots: does a start complete what others began? queue: how often does a tool run? cache: is it bounded? | 3 requests for 2 actions; 2 starts, 2 configured bots (one overwritten, made public and inactive by the second start), 2 creations, 4 changes; 1 task, 3 attempts; 4 fetches of 2 paths in 2 sessions, a cache of 1 |
| `ConfirmableAction_stale` (violation) | does a handled action stay handled? | 3 requests, 2 actions |
| `WebSocketHub_messages` | hub: order, completeness, and is a slow subscription given up? session: who is served as whom, and what does the browser lose? | 2 subscriptions, buffer 2, 4 messages; 2 requests under way (one of them a page, as pages change nothing), 2 logins, 3 scopes, the server's cookies in the parent domain, one of two users unverified |
| `Registration_decisions` | who has an account and who gets in? | 3 registrations, 2 addresses, 5 decisions, 2 restarts; 2 set-ups of 2 codes, 3 logins; 2 tokens of the API, 2 of browsers, limit 2; 2 integrations, 3 grants, 1 revocation (logins with one code, browsers and polls symmetric) |
| `Registration_approve` (violation) | does an approval create the user? | the same registrations, no restart |
| `Conversations` | secrets: does removed data come back? chats: is everything there when the reply runs? files: do disk and record agree? | 3 stores (the third follows the second in one message), 2 tools, both or none with data at the creation, 1 expiry, 2 disposals (symmetric), 1 reader; 2 creations, 1 end of a publication, and either 2 messages and 1 publication, or 1 message and 3 publications, or 2 messages and a bot's store; 2 files, 2 deletions (symmetric), 2 replies |
| `Bots_renamed` (violation) | can a configured bot be renamed? | 2 starts |

Each run checks, beside properties that stand alone, one property per component that
is the conjunction of the component's named parts; each part is stated, with the code
it is about, in its module. A component with invariants and action properties that
belong together has both in one conjunction.

| Run | Property (module): its parts | Alone |
|---|---|---|
| `BotReply_requests` | | `TypeOK`, `LiveHandlerOwnsTask`, `StatusCoversWork`, `NoUnexplainedDuplicate`, `AcceptedNotLost`, `ImplementsReplySlot` |
| `BotReply_liveness` | | `TaskSettles`, `AcceptedIsAnswered` |
| `ToolStream_serial` | `RoundsKept` (`ToolStream`): `TypeOK`, `ToolCallsWithinLimit`, `CompletesWhenAnswered`; `RequestsWellFormed` (`ChatHistory`): `HistoryTypeOK`, `RequestInOrder`; `HistorySeen` (`ChatHistory`): `CurrentIsAsked`, `ContinuationSeesResult`; `ToolsSetUpRight` (`ToolSetup`): `SetupTypeOK`, `OwnData`, `OfferedOnce`, `EachOnce`; `CallsKeptApart` (`McpCalls`): `McpTypeOK`, `RunAtMostOnce`, `FailsForAReason` | `NothingAfterStop`, `ReplyEnds`, `RefusalsEnd` (`ChatHistory`) |
| `ToolStream_parallel` | `PiecesDoNotMatter` (`ThinkTags`): `TagTypeOK`, `AnswerInPieces`, `ThoughtsInPieces`, `SameEitherWay`; `OnlyOverlapLoses` (`ModelConfigs`): `ModelTypeOK`, `MismatchNeedsOverlap`, `BoundAsAsked`, `LostToOverlap`, `ProfileThere`, `OneProfile` | `NoSwallowedError`, `FinalTextComplete`, `CallsAccountedFor`, `CatalogueReady` |
| `Assistants` | `OutcomesTold` (`ConfirmableAction`): `TypeOK`, `StatusHasCause`, `EventsMatchOutcome`, `HandledOnceInSequence`; `InteractionsKept` (`BotProfiles`): `BotsTypeOK`, `InteractionsWhole`; `StartsRepair` (`BotProfiles`): `StartCompletes`, `RevivedKnowingly`; `RunsAccountedFor` (`ToolQueue`): `QueueTypeOK`, `CompletedRan`, `RunsBounded`, `WaitsWhereTaken`; `CacheKept` (`ProxyCache`): `CacheTypeOK`, `CacheBounded`, `OwnAnswers`, `PrunesOldest` | |
| `WebSocketHub_messages` | `DeliveredRight` (`WebSocketHub`): `TypeOK`, `CompleteUnlessSlow`, `InOrder`; `SessionsHold` (`Sessions`): `SessionsTypeOK`, `LogoutEnds`, `DeadCookieHarmless` | `SlowLeaves`, `KeptUnlessStale`, `RedirectsEnd` |
| `Registration_decisions` | `DecisionsHold` (`Registration`): `TypeOK`, `ApprovedOwnsAccount`, `RejectedStaysOut`, `DecidedOnce`, `PendingOnce`; `CodesHold` (`SecondFactor`): `FactorTypeOK`, `CodeWorksOnce`, `NoCodesLeftOver`, `ShownCodesWork`; `TokensHold` (`AccessTokens`): `TokenTypeOK`, `HandedOnce`, `LimitHolds`, `RevokedForGood`; `GrantsHold` (`IntegrationAccess`): `AccessTypeOK`, `AnswersHold`, `RevokedStaysRevoked` |  |
| `Conversations` | `RowsHold` (`ToolInit`): `TypeOK`, `OneRow`, `MirrorAgrees`, `ResolvesCurrent`; `ChatsHold` (`Chats`): `ChatsTypeOK`, `ReplyFindsAll`, `OwnLinks`, `EndedStaysPrivate`, `LatestKept`; `FilesHold` (`Files`): `FilesTypeOK`, `RecordHasFile`, `DeletionRepeats`, `ServedRightly`, `ModelReads` | `DisposedStaysGone` |

The bounds are small because the hazards are: each needs two actors that get
between the steps of each other, one retry or one stop, a buffer that overflows
and one more message. Three stores let a row be deleted, revived and found twice;
two disposals let one come between the two halves of another. Six symbols hold a
thought with its two tags and one symbol before, within or after it, and a piece of
two ends within a tag of three; three messages shown of five let a call be shown
without its result, and be pushed out, and of six two refusals fit before that, or one
after a rerun. Three attempts let one that outlives its time overlap two others.
Two logins give a browser two cookies, or one that a late answer takes away. Deadlock
checking is off everywhere: the systems stop when users stop sending and the bounds
are used up.

What the violation runs show:

- **A message sent during a reply is stored and refused.** While the bot writes its
  answer the chat's task is active; `CancelProcessing` is asynchronous and `DeleteTask`
  refuses an active task, so `Enqueue` finds the task id taken; the client reads a 500
  for a message that exists.
- **A handled action becomes pending again** by the stale metadata of a request for
  another action, and can be executed twice.
- **The second approval since a start fails.** Users made by an approval have no
  username, and the unique index admits one such user at a time.
- **A configured bot that was renamed keeps the server from starting.** The next start
  looks for the profile by its name, makes another for the same user, runs into the
  unique index and ends.

What the models contain and no property forbids, because nothing in the repository
says otherwise:

- A cancelled reply is generated again: asynq sees the context end and retries.
- The limit on tool calls is looked at once in a round, so several calls of one
  response all run. `ToolCallsWithinLimit` is checked with one call in a round.
- A tool that requires confirmation is run when the model calls it, its result is
  dropped, and it is run again when the user confirms.
- An entry of the bot configuration that is new makes an active bot also with
  `is_active: false`: the insert leaves out a value that is the zero of its type, and the
  column's default is true. Only an overwriting start deactivates.
- A subscription that is found slow during its set-up leaves its connection to the
  client's own time limits.
- The answer to a request that was sent before a login may clear the cookie of the
  login (`KeptUnlessStale` names the case), and with cookies of two scopes a browser
  is served as the user of either of them.
- An integration that was revoked cannot be granted again, and a response that was
  pruned is not cached again: their rows are still in the unique index.
- Two logins may share one recovery code and two requests pass the limit of tokens, if
  they overlap; the properties say that nothing else lets them.
- A second factor that is set up over another one leaves the earlier one's unused
  recovery codes valid (`TwoFactorSetup.go:107-135` deletes none). `NoCodesLeftOver` says
  that no code outlives the switching off of the factor.
- A handler that cannot begin, because its bot, message, sender or session is missing,
  gives its task up without a message in the chat (`bot_reply.go:28-67`).
- A call that was left without a result makes the provider refuse what follows until
  newer messages have pushed it out; a rerun deletes those and brings it back, so that
  refusal and rerun may go on for ever. `RefusalsEnd` bounds the refusals by the reruns.
- A provider that gives one id to two calls of a reply, or none, makes the later one take
  the earlier one's place in the message: a tool that ran is missing from it then, and
  only then (`CallsAccountedFor`).
- A function that is named like another entry of the chat runs whichever of the two was
  registered last, except for marked entries (`OwnData`).
- A model lists its bots by the names of their users: a bot that is renamed leaves its
  models to the old name, bots of equal names share theirs, and one selected for removal
  goes from all of them. Of two selections that overlap one may be lost. `LostToOverlap`
  says that a bot loses a model by nothing else.
- A server or a worker that does not find the external Redis when it starts takes one of
  its own: tasks of the server wait for ever if the worker reads another one, and the
  other way round (`WaitsWhereTaken`).
- A reply is scheduled without access to a file that was not found or could not be shared
  (`Create.go:250,266`); a bot's store of data may replace the shared config of a chat that
  it had looked up before the config was saved; and a message sent between the two saves
  of a creation is not the chat's latest one afterwards.
- Data whose row has expired is still resolved, once, through the mirror; a store
  that revives an expired row keeps its expiry.

## 5. Fairness

The safety properties hold without fairness; `ToolStream_serial` and
`WebSocketHub_messages` assume it because a liveness property is in the same run, and
only of the reply and of the subscriptions: the other parts of these runs may stop
after any step, as those of all other runs. `BotReply`: asynq's loops run (claim, retry, forward,
recover are driven by its goroutines and timers), a context's deadline passes, a
request that has begun is carried through, and a handler makes progress, as
`http.Client` and the task have timeouts; a stopped server is started again.
Users are never forced to send or cancel. `ToolStream`: goroutines run, tools
return, and a round ends at the latest by the 300 s timeout of the HTTP client,
which is strong fairness of the round's end, as text may come again and again.
`WebSocketHub`: goroutines run, a write ends within its 200 s timeout.

## 6. Proofs

All theorems are for every value of the constants under the assumptions the modules
name. The assumptions say what kinds of things the constants are: requests of different
kinds are different, sets that are counted are finite, a value that stands for "none" is
no proper value. They assume nothing about the order of events.

Nearly every property is proved from an inductive invariant that says more than the
property: what processes under way have read, and how that relates to what is stored by
now. TLC checked each of these invariants before it was proved, but for the one about the
text of a reply.

- `BotReplyProofs`: `IInv` is type correctness, `TaskInv` (a task carries a message of
  its chat), `WorkerInv` (the worker's attempt is one at the active task and its
  message) and `AttemptInv` (an attempt that asynq does not wait for any more and
  that still runs has a context that is over). `LiveHandlerOwnsTask` is not
  inductive: nothing in it says that the attempt the worker waits for is the one
  that runs, so a claim could give the task away. From `IInv` follow
  `LiveHandlerOwns` and `StatusCovers`. `HistoryKept` adds what became of the scheduled
  replies: only accepted messages get into the queue (`AcceptedInv`), one that asynq has
  settled does not come back to life (`DoneInv`). It gives `NothingLost` and
  `NoDuplicate`, and, with a lemma for each action, `Refinement`: every step of the
  pipeline is a step of `ReplySlot` or changes nothing that the slot shows.
- `BotReplyProofs`, text of a reply: `PiecesDoNotMatter` compares what was told with the
  division of a text that is still coming in, and is not inductive, as a division is not
  that of its parts: a tag may lie across them. What is inductive speaks of everything
  that may still come: `Answers` says that, whatever text follows, the answer of the whole
  is what was told and then the answer of the buffer with that text; `Ended` says the same
  of the thoughts, with the thought that goes on. A tag that is taken and text that is
  passed on keep both: a tag in the buffer stays the first whatever comes
  (`MoreAfter`), and no tag that comes can begin in what is passed on. The recursion
  of `Process` is shown well founded (a tag that is taken makes the buffer shorter) and
  then keeps both too. With nothing more to come they give the property. What is stored
  is taken apart by sections and not by alternating tags; for a text with its tags in
  order, induction over its length shows that the two agree. TLC cannot enumerate
  every text that may follow, so `TagInv` itself is not part of a run: its consequence is.
- `ReplyProofs`, reply: `ChannelInv` (closing is the last thing the producer does, a
  channel that the consumer dropped is closed and empty) gives `ErrorsReported`;
  `TextInv` (what is shown is exactly what was handed over since the mark, and a
  first call on its way has the mark of now) gives `TextComplete`; `AccountInv` (a call is
  announced before its tool runs, and one that is announced and not reported is the one
  the producer is at) and `LatestInv` (what is recorded under an id is the last call that had
  it, unless that one is on its way) give `Accounted`. `Rounds` and `StopStops` are about replies with
  one call in a round and ids that are fresh or empty, and say so in a hypothesis, `Serial`: with several
  calls the limits are passed, as section 4 tells. `LimitInv` counts the tools that were
  run against counters that are one behind inside a round. MCP calls: `RunAtMostOnce`
  needs that a tool has not been run before its call has ended; `FailsForAReason` that the
  server knows the session of a call from its initialization to its end, unless it was
  restarted.
- `ReplyProofs`, tools: `EachOnce` speaks of replies that are over and is far from
  inductive. `MarkedInv` says that the entries with a mark passed by the set-up and the
  list of marked entries correspond, one to one and in order; `TurnsInv` that the places
  of that list whose turn was and the runs under that mark do; composed, the two give
  `EachOnce`. `PhasesInv` keeps runs of different phases apart, `ToolsInv` says what is
  registered under which key, and `RanInv` that a run was with what is registered.
- `ReplyProofs`, history: what a request holds is read off the concatenation of the parts
  (`FlattenSeq`, `DataLemmas`): every entry of a part is in it, nothing else is, and
  entries come in the order of the parts and in each part's own. `RequestInOrder` then follows from the order inside each part. That a reply to
  a confirmed call finds its result needs that only calls with a result are replied to
  (`MayBeAsked`). `RefusalsEnd` is not inductive, as it does not say where the call without
  a result is: `BehindInv` counts the messages that are newer than it, at least two for
  every refusal since the last rerun, with one for a reply that is queued and one for a reply
  under way, so that a call that is still shown cannot have been refused too often since then
  (`RefusedInv`); `BeforeInv` adds the reruns up.
- `HubProofs`: handler and hub agree on who is subscribed (`PlaceInv`), and what a
  client has received, what its handler holds and what its buffer holds is one rising
  sequence (`OrderInv`). `InOrder` alone speaks of neighbours, and a message that a
  returning handler takes along could leave wrong ones; that all pairs are in order
  survives it. It gives `Delivered`. Sessions: of a request, the tokens it has stepped over
  are dead, and of an answer that clears cookies none of the tokens sent is alive any more
  (`Good`). That stays true because a login only adds a token nobody has been given yet
  (`GoodLater`). It gives `LogoutEnds`, `DeadCookieHarmless` and the action property
  `KeptUnlessStale`. `NoRedirectLoop` needs where the second and the third request of a
  chain of redirects lead (`Short`), which depends only on whether one of the browser's
  cookies is valid.
- `ModelProofs`: `ReadInv` (a patch that has read its row was right for the row as it was)
  and `MismatchInv` (a row whose configuration names another model was written by one that
  had read another id) give that only overlapping patches split a row; `BoundInv` carries
  this over to the chats that are bound to a row. `LostInv` says of the name a
  selection has written what `LostToOverlap` says of the bot, and is inductive with the types,
  `FreshInv` (a selection that has not begun has read no row) and `NameInv` (a bot's name is
  one that it was given); it gives `LostToOverlap`, as the bot either has that name still or
  was renamed. `QuietInv` (no request rebuilds a profile while the server starts) and
  `OneInv` (a bot whose rebuilds did not overlap has one profile, or none and one rebuild
  under way) are about profiles; `CatalogueInv` and `ShownInv` say of a start what the
  entries, rows and bots before the one it is at have, and end in the action property
  `CatalogueReady`.
- `AssistantProofs`, actions: everything a request has read has a cause
  (`RequestInv`), so a stale write only restores true statuses; without overlap a
  request under way has read what is stored and nobody handled its action
  (`AloneInv`), which gives `OnceInSequence`. Queue: every attempt but the first is one
  the queue was asked for or one that was put back (`BudgetInv`), and a process
  is in the external Redis or alone with its own, a waiting task in the external one or in
  that of the running server (`HomeInv`). Cache: of any requests that
  have counted, one removes enough rows for all of them (`RemovesInv`); the bound alone
  does not say that prunings that are under way will bring it about. Bots: a start has
  settled the entries before the one it is at (`StartInv`), whatever requests and earlier
  starts did; it never takes away what an earlier entry was given.
- `AccountProofs`, registration: the four safety properties are part of one inductive
  invariant with `RegInv` (how far a registration can have come with or without a
  row), `PendingInv` (a pending request is not linked to a user), `WindowInv` (while
  a decision is under way its request was pending, and still is unless another
  decision crossed it), `DoneInv` (a decision that took effect left its status) and
  `RaceInv` (two claims on one address include a raced one). `RejectedStaysOut` alone
  is not inductive: it does not say that a decision under way still sees a pending
  request. Second factor: unless set-ups and switchings off have met, a set-up under way is
  the only one, and the factor was not switched off since it began (`ApartInv`), its codes are created in their order (`CreatedInv`), and a
  login that looks for a code looks for one that exists (`OfferInv`). Tokens: a request
  that has counted finds the limit as it counted it unless it was overtaken (`RoomInv`);
  what a poll was handed waits for nobody else (`HandedInv`). Access: a request whose
  insert will be refused has lost a race or comes after a revocation (`MissingInv`).
- `ConversationProofs`, tool data: `DisposedStaysGone` with `ConfigInv` (a document that a
  saved store will write holds removed data of another tool only if a disposal crossed the
  store), `StoredInv` (removed data was committed, so the data a new store brings is
  never removed data), `DoomedInv` (the rows a disposal deletes hold all committed
  data there was when it began) and `TargetInv` (a store under way works on a row
  of its own tool). Without `ConfigInv` the whole-document write of a store could
  bring back anything. `RowsAndMirror` adds that overlaps have been seen (`DoubledInv`,
  `AloneInv`) and what a writer that is alone has read (`FoundInv`, `SeenInv`).
  Files: nothing is asked of a file before its upload has been answered (`OrderInv`), so
  no deletion meets a record that is still to be written, and whoever comes after a
  deletion finds a deleted record at each step (`ReadInv`). Chats: what a request holds of a
  row is a row of that chat, so writing it whole brings nothing foreign, and a config that a
  bot gave was given by one that had found none (`RowsOfChats`, `Linked`);
  how far a creation is says what is in place (`CreationInv`); a dead link was ended by
  its user (`SharesInv`).

`DataLemmas` proves induction over the natural numbers in the form the provers can use:
not with a predicate as a parameter, but as a fact about a set of numbers that holds 0 and
with every number the next (`AllNaturals`, from the well-foundedness of <). With it, the
recursive function behind `FlattenSeq` is shown to exist and to be the concatenation
(`FlattenSeqIs`), and a recursion over a set whose members have a size is shown to define
a function if it only asks for its values at smaller ones (`RecursionExists`), with induction over
the size (`AllSmaller`).

Only model-checked: the liveness properties `TaskSettles`, `AcceptedIsAnswered`,
`ReplyEnds` and `SlowLeaves`, as fairness and ENABLED are outside the prover.

## 7. Not modelled

- The function registry (nothing in the repository registers a function) and the cancel
  functions of chats (nothing stores one); `GenerateNewRecoveryCodes`, which has no
  route; `EnsureDefaultAdminIntegrationAccess` and the other functions that are never
  called.
- The command line client, routing, lists, validation of documents against schemas,
  admin views, metrics, the API reference and the generators: they read and format, or
  run before the server does.
- The administrator's bootstrap, with the renaming of users that are in the way, SSH
  keys and the parsing of flags; contacts beyond adding one.
- Errors of single queries whose handler does not look at them (`Create.go:238`): the
  models let a transaction, a file operation, a remote call or a start fail, and every
  process stop, but not each read of the database.
- Messages sent by users who are not in the chat, reads of chats, the choice of a
  websocket channel by user or chat.
- What a tool, a provider, an MCP server or a submodule does: its outcome is left open.

Third-party code (asynq, gorm, coder/websocket, browsers, providers, the integration
submodules) is modelled from how the backend uses it. `PROJECT.json` gives the reason
for each component that is not or only partly modelled.
