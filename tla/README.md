# async-smtp in TLA+

A model of the `async-smtp` crate: an asynchronous SMTP client that sends
emails over a stream its caller opened.  The modules are written from the
sources under `src/src/`; `PROJECT.json` maps each definition to its lines.

- [The system](#the-system): components, state, operations, hazards
- [Modules](#modules): which module models what, and how
- [Runs](#runs): what TLC checks, with which bounds
- [What the violations say](#what-the-violations-say)
- [Fairness](#fairness)
- [Proofs](#proofs)
- [Limits](#limits): only model-checked, abstracted, not modelled
- [Plan](#plan)

To repeat a check: `tlc -config Pipelined.cfg MCSmtpTransport`, and
`tlapm SmtpTransportProofs.tla` (and so for the other modules named `...Proofs`).

## The system

```
 caller --- new / send / quit / starttls / auth ---> SmtpTransport (smtp_client.rs)
   ^                                                   | server_info (extension.rs)
   |  Result (error.rs)                                | commands (commands.rs), Mechanism (authentication.rs)
   |                                                   v
   |                                                 SmtpStream (stream.rs)
   |        ClientCodec (codec.rs): content  ----->    |  write_all, flush
   |        parse_response (response.rs)    <-----     |  read_line
   |                                                   v
   +--- opens, upgrades and drops the stream --->   connection <---> SMTP server
```

| component | state it keeps | operations | what makes it correct |
|---|---|---|---|
| `SmtpTransport` (smtp_client.rs) | `server_info`, the stream, `pipelining`; per call of `send`: how much of MAIL, RCPT..., DATA, content is written and answered | `new`, `auth`, `send`, `quit`, `starttls` | every reply is taken for the answer to the command it answers; `Ok` means the server took this message for all of its recipients, once; `Transient`, `Permanent` mean it did not; options come from the current session; a call returns |
| `SmtpStream` (stream.rs) | the inner stream; the `buffer` of one `read_response` | `command`, `send_command`, `read_response`, `message` | one call, one whole reply; one end of data per message |
| `ClientCodec` (codec.rs) | `escape_count` | `encode` | the server gets the bytes of the message, and its end only at its end |
| `parse_response` (response.rs) | none | `parse_response`, `is_positive`, `has_code`, `first_word` | severity and extent of a reply |
| authentication (smtp_client.rs, authentication.rs, commands.rs) | `challenges` | `try_login`, `auth`, `Mechanism::response`, `AuthCommand` | `Ok` means logged in; the number of challenges is bounded |
| `ServerInfo` (extension.rs) | name, features | `from_response`, `supports_feature`, `supports_auth_mechanism` | features are those of this session, and those the server offers |
| errors (error.rs) | none | `From<Response> for Error` | kinds of error tell what the server did |
| emails (types.rs) | envelope, message | `Envelope::new`, `SendableEmail`, `EmailAddress::new`, `Message::poll_read` | an envelope has a recipient; an address stays inside its field |
| commands (commands.rs), parameters and client id (extension.rs), xtext (util.rs) | none | `Display` | the server reads the command that was meant, one for each line |

The code runs in one task: `send` takes `&mut self`, so two calls never overlap.
What is concurrent is the other end.  Between any two awaits the server may
answer, say nothing, refuse, shut down with 421 or vanish; several replies may
be on their way at once (PIPELINING); the caller may drop the future of a call.
The crate has no timeout, no retry and no way to mark a transport as spent: what
the caller does with an error belongs to the behaviour, and is modelled.  The
hazards this leads to are listed, each at its line, in `PROJECT.json`; the main
ones are

- a reply carries nothing that tells which command it answers, so that one reply
  too many or too few shifts all the later ones (stream.rs:70);
- in a pipelined batch the first negative reply ends `send` and leaves the others
  unread (smtp_client.rs:235), and the whole batch is written before anything is
  read (smtp_client.rs:223);
- the reader of the message is the caller's and may fail after 354
  (stream.rs:108);
- the boundary cases of the codec: empty message, first byte, blank line
  (codec.rs:28, 10, 43);
- replies of several lines, well-formed or not, read line by line (stream.rs:76),
  and lines ended by a bare LF, which are lines to `read_line` and text to the
  parser (response.rs:227);
- a future of `auth`, `send` or `quit` dropped at an await, with a command or the
  content half written or a reply unread, and a transport that can still be used
  (smtp_client.rs:198);
- text from outside that goes into a line as it is (types.rs:26, util.rs:20);
- `auth` gives up on a challenge without telling the server
  (smtp_client.rs:184), and counts challenges apart from the reply
  (smtp_client.rs:190).

## Modules

| module | models | extends / uses |
|---|---|---|
| `SmtpWire` | commands, replies, the script of commands of one email | |
| `SmtpServer` | the connection and an SMTP server (external: RFC 5321, 2920, 4954) | `SmtpWire` |
| `SmtpTransport` | `new`, `auth`, `send`, `quit`, `starttls` with their caller | `SmtpServer`, `MailSubmission` |
| `KeptTransport` | how long a caller may go on with its transport: a history variable over `SmtpTransport` | `SmtpTransport` |
| `MailSubmission` | abstract: what the caller of `send` is promised | |
| `SmtpTransportProofs` | theorems on `SmtpTransport` | `SmtpTransport`, `TLAPS` |
| `SmtpDeliveryProofs` | what the result of `send` says about the message | `SmtpTransportProofs` |
| `SmtpCallerProofs` | what follows for the caller: waiting, the features used, the refinement of `MailSubmission`, and what holds for every caller on a connection whose calls were all finished | `SmtpDeliveryProofs`, `KeptTransport` |
| `DotStuffing` | `ClientCodec::encode`, `SmtpStream::message`, a server that undoes the dots | |
| `ReplyReader` | `read_response` and `parse_response` over lines | `ReplyStream` |
| `ReplyStream` | abstract: whole replies in order, one per call | |
| `SaslExchange` | `try_login`, `auth`, `AuthCommand`, with a server (RFC 4954) | |
| `CommandText` | the commands, parameters, client id, addresses and xtext as text; `ServerInfo::from_response`; what a server reads in a line | |
| `TextSession` | commands written piece by piece and cut short, and the lines the server finds | `CommandText`, `CommandStream` |
| `CommandStream` | abstract: commands in the order written, some cut short, and what a line of them is read as | |
| `DotStuffingProofs` | theorems on `DotStuffing` | `DotStuffing`, `TLAPS` |
| `ReplyReaderProofs` | theorems on `ReplyReader` | `ReplyReader`, `TLAPS` |
| `SaslExchangeProofs` | theorems on `SaslExchange` | `SaslExchange`, `TLAPS` |
| `CommandTextProofs` | lemmas on `CommandText`: where things stand in the text of commands, whole and cut | `CommandText`, `TLAPS` |
| `TextSessionProofs` | theorems on `TextSession`, the refinement of `CommandStream` among them | `TextSession`, `CommandTextProofs` |
| `MC...` | instances for TLC | |

### SmtpTransport

A call is cut at its awaits: `pc` names the await the caller is at.  Each
`write_all` + `flush` is an action guarded by room in the connection
(`Write`), each `read_response` one that takes the head of `s2c` (`Consume`;
that real lines come out as whole replies is what `ReplyReader` shows).  The two
branches of `send` differ in two guards, as in the code: `MayWrite` (with
pipelining all commands up to DATA, otherwise one at a time) and `MayRead` (with
pipelining only once the batch is written).  `sent` and `acked` stand for the
position in the code: step 1 is MAIL, then one RCPT per recipient, DATA
(`DataStep`), the content (`ScriptLength`).

| code | actions |
|---|---|
| `SmtpTransport::new` | `Connect`, `ReadGreeting`, `SendEhlo`, `ReadEhlo` |
| `send` | `Send`, `WriteCommand`, `ReadStepReply`, `WriteMessage` or `ReaderFails`, `ReadFinalReply`, `ReadNegativeReply` |
| `auth`, `try_login` | `Auth`, `ReadChallenge`, `Respond` or `RespondFails`, `ReadAuthReply`; `sent` and `acked` count the lines of the login and their replies |
| `quit`, `starttls` | `Quit`, `ReadQuit`, `Starttls`, `StarttlsUnsupported`, `ReadStarttls`; the caller's TLS handshake and `new` without a greeting: `UpgradeTls` |
| errors of the stream | `ReadEof` ("incomplete"), `WriteFails` |
| the caller | `Reuse`: after which errors of `auth`, `send` and `quit` it keeps the transport; `Cancel` drops the future of a call and the transport with it, `Abandon` only the future, of one of these three calls ("cancelled" in `Reuse`), or of `send` if the drop falls between a reply and the next command ("between"); `Drop` |

`result[e]` is what `send` returned for `e`.  `delivered` is the log of what the
server accepted, each entry with sender, recipients and content as the server saw
them; a reply carries the command it answers (`to`), which no action of the
client reads: both exist so that the properties can relate what the caller was told to
what happened.

`new` and `starttls` take the transport, or make it, and an error of theirs leaves
none.  The others borrow it, and nothing in it tells the caller whether it is still
good: not an error that leaves replies unread, not one before the script is over
(`ReaderFails`, `RespondFails`), not a future dropped.  What the lines of a login say
is in `SaslExchange`; here a login is what it does to the stream, and its errors
those of a reply, of a challenge without an answer ("challenge") and of the last
challenge ("parsing").  A reply that is no reply and one that is not UTF-8 are two
kinds of error ("parsing", "io"), and a caller may keep the transport after either.
At the end of the stream and after a failed write it is dropped: there is nobody to
talk to.

`Abandon` may leave something in the stream (`WriteCut`): a `Fragment`, a command
without the end of its line, or a `Piece` of the content.  The server makes one
line of a fragment and the command after it and refuses it (`SGlue`); that such
a line is no command is what `CutIsRefused` of `TextSession` shows.  After a
piece it may instead take the next commands for content.  A server that waits for
the answer to a challenge takes any line for it (`SSasl`), a glued one too.

`KeptTransport` adds `unfinished`: a call has ended, with its transport kept, before
it was done with the server (`LeavesUnfinished`).  These are the ends of a `send`
with replies still to come (`SendLeaves`) or with a server that waits for content, of
an `auth` with a server that waits for an answer (`AuthLeaves`), of any call with a reply it
could not read, of a future dropped anywhere but between a positive reply and the next
command of `send` (`AbandonLeaves`), and the empty message.  All other ends, errors included,
leave the connection as good as new: a refused login, a refused MAIL, RCPT or DATA
without pipelining, a refused last reply of a batch, `quit`.  That is what the three
properties say: while nothing is `unfinished`, replies stay in step, what is taken
is as addressed, and `Ok` means taken.  `PipelinedReuse`, `EmptyMessage` and `Abandoned`
show what happens after.

The server of `SmtpServer` is as free as the RFCs let it be: it refuses any
command but QUIT with 4yz or 5yz, offers any set of keywords, forgets to give
its name in EHLO, says 354 without recipients, answers lines it does not know,
takes a command line inside DATA as content, shuts down, and loses the
connection with any prefix of both directions delivered.

### MailSubmission

Without commands and replies: an email is handed over once, the server takes it
at most once, "sent" is only reported if it was taken and "rejected" only if it
was not and never will be; "unknown" (broken connection, unreadable reply,
dropped future) promises nothing.  `KeepsPromise` is the refinement: `Outcome`
maps results, `Inbox` maps deliveries, where one that is not as addressed is no
email of the abstract inbox and so breaks the refinement.

### DotStuffing, ReplyReader, SaslExchange

`DotStuffing` first reads the message, chunk by chunk, into `frame`
(`read_to_end` over `Message::poll_read`), then keeps `escape_count`, `idx` and
`start` of `encode`, one action per byte, and lets the server read the bytes
while they are written; the reader may fail, and the connection may break after
any byte.  Only CR, LF, dot and "any other" are told apart.

`ReplyReader` has lines instead of text: the digits of the code, the separator
that follows, how the line ends (CR LF, a bare LF, not at all) and whether it is
UTF-8.  `parse_response` is the verdict of the nom parser over the lines read so
far, for which a line after a bare LF is text of the one before it (`Start`); a
call keeps nothing for the next.  A call dropped at its await (`Cancel`) loses the
lines it has read, and may lose the start of the next one with them, since
`read_line` is not cancel-safe: what is left of that line (`Remnant`) is what the next
call reads first.

`SaslExchange` has one line or one reply in flight.  `Answer` is
`new_from_response` with `Mechanism::response`: which challenges can be answered,
with what, and which error the others end in.  Credentials are known by what they hold.

### CommandText, TextSession

`CommandText` has operators only.  A text is a sequence of tokens: each fixed
word of a command is one, each character of an address, an argument or a value
another.  Above a line are the `Display` implementations (`Words`, `Parameter`,
`ClientId`, `XText`), `EmailAddress_new` and `from_response`; below it is the
other end, written from the RFCs and not from the code: `ReadCommand` finds the
path up to the first `>`, the parameters between blanks, and decodes xtext;
`Offered` reads the keywords of the reply to EHLO without regard to case and
from its second line on.

`TextSession` is one connection from EHLO on: `Start` is `send_command`, `Flow`
the pieces `write_all` hands over, `Cut` a caller that drops the future in
between, `ReadLine` the server, which finds lines by their CR LF.  After EHLO
any command may follow any other; which of them `send` writes when is the matter
of `SmtpTransport`, which for its part takes for granted what is checked here.

`CommandStream` is what it takes for granted, without text: a command is written,
the write of the last one is abandoned (nothing of it came out, or a cut one stays),
and a line is read, which is that of the next whole command and of the cut ones before
it.  One whole command is read as itself, unless it is `Doubtful` (a client id that
looks like one of another kind, a command of the caller's own that lacks what its
verb asks for, a value with a character below 16); a line that starts with a cut command
of `send` is read as `Unknown`.  This is `Take` and `SGlue` of `SmtpServer`.
`WholeCommands` is the refinement: `written` is what follows, in `meant`, the command
that ended the last line read (`Done`); `Flow` and the reply to EHLO are stutters.

## Runs

| run | distinct states | question |
|---|---|---|
| `Sequential` | 184 823 | no pipelining, transport kept after 4yz and 5yz, and after a `send` dropped between two of its commands: `AwaitsOwnReply`, `SentOkDelivered`, `RejectedNotDelivered`, `DeliveredIntact`, `NoStall` |
| `Pipelined` | 230 083 | the defaults, transport dropped on the first error: the same promises, `SyncInv`, `OptionsOffered` across STARTTLS and connections, the refinement `KeepsPromise`, and `CallReturns` |
| `Kept` | 3 417 458 | the transport kept after every error and every dropped future of `auth`, `send` and `quit`, pipelining on, one email empty, the readers of both unreliable: `KeptInStep`, `KeptAsAddressed`, `KeptOkTaken` |
| `Transparency` | 490 121 | all messages the codec is made for: `Transparent`, `EndsOnce` |
| `Framing` | 1 444 728 | malformed replies, bare LF, closed connections, dropped calls: `WholeReplies`, `RightVerdict`, `RefusalSeen`, `ReaderReturns` |
| `Login` | 37 643 | every offer and every sequence of challenges: `LoginOutcome`, `OkMeansLogin`, `AuthReturns` |
| `Text` | 464 301 | commands in any pieces, cut anywhere: `ReadAsMeant`, `CutIsRefused`, `OneLineEach`, `FeaturesRead`, `ParametersOffered`, and the refinement `WholeCommands` |
| `PipelinedReuse`, `EmptyMessage`, `SmallWindow`, `LeadingDot`, `Abandoned` | | violations, see below |

Bounds, and why they are enough:

- `Emails`: two, which is what it takes for one call to disturb the next.  One has
  several recipients (two, or three in `PipelinedReuse` and `SmallWindow`, so that
  a stale batch covers a whole later script), the other one.
- `MaxConns`: two connections where the session before may matter
  (`OptionsOffered`, an email cancelled on one and another sent on the next, a
  connection left unfinished and a new one), one elsewhere.  `MaxFaults`: one shutdown, loss or garbled reply, at any point; the
  server's own refusals are not counted.
- `Window`: commands, and replies, the connection holds.  1 without pipelining; 4
  or 5 holds a whole batch; 2 in `SmallWindow` does not.  3 in `Kept` holds the whole of
  the shorter batch and most of the longer.
- `OnlySendsAfter`, a constraint of `Kept`: once something is unfinished only `send` is
  called on that transport.  All properties of that run are about connections on which
  nothing is, so that what is left out is of interest only for what it delivers before
  the next connection; the theorems have no such bound.
- `MaxLength`: messages of up to 6 bytes, 4 in `LeadingDot`: the codec's state
  depends on the last three bytes, so 6 hold two escapes and what surrounds them.
- `MaxReplies`: three replies, one call more: an error, what it leaves behind and
  what comes after.
- `MCReplies`: a reply of each shape the parser tells apart: one line and two,
  two codes, a digit out of range, a code and nothing else, a bare LF, not UTF-8.
- `MCAddresses`, `MCOtherCommands`: one address for each character that
  `EmailAddress::new` looks at, one value for each that `XText` escapes, and a
  command of each form.  `MaxCommands`: EHLO, one that is cut and one that follows.
- `Challenges`: 10 in `Login`, the value in the code; 2 in the passing runs of `SmtpTransport`,
  for one that is answered and the last one.  `MaxCalls`: three, for a failed login,
  another one and a later command.

## What the violations say

Five runs state what the crate's documentation says and find the code doing
otherwise; each is a finding in `PROJECT.json`.

- `PipelinedReuse`: `send` returns at the first negative reply of a
  batch; the next `send` on the same transport reads the leftovers as its own, and
  says `Ok` for a message that was not taken as addressed.  The theorems
  `RepliesInOrder` and `InStepWhenFinished` say when this cannot happen: no
  pipelining, a transport dropped on error, or an error that was the last reply of its batch.
- `EmptyMessage`: the empty frame is the codec's end-of-data, and
  `message` writes the end again; the server answers the surplus lines.
- `SmallWindow`: a batch larger than the buffers: the client waits to write, the
  server waits to be read, for ever.
- `LeadingDot`: the codec starts in the middle of a line, so a dot that is the
  first byte of a message is not doubled.  (A dot after CR CR LF is missed as well: in
  state 1 a CR leads back to 0; `MCFaithful` leaves both out of `Transparency`.)
- `Abandoned`: a challenge `auth` cannot answer leaves the server waiting for a
  response; it reads the next command as one.

Also modelled, with the exceptions spelled out in the properties:

- `try_login` returns `Ok` when no accepted mechanism is offered (result
  "skipped"; `OkMeansLogin` says that this is the only case), and a login granted
  after exactly ten challenges is reported as an error ("limit").
- A line ended by a bare LF hides the line after it, be it a refusal
  (`RefusalSeen`), or leaves the call waiting (`ReaderReturns`).
- A reply line that is a code and nothing else is a parsing error, though the comment
  on `Response` (response.rs:123) calls the text optional, and RFC 5321, 4.2.1 has a client
  prepared for the blank to be missing.  It is `WellFormed`; `RightVerdict` names this one case
  as its exception, and everywhere else a parsing error means an ill-formed reply.
- `XText` writes a character below 16 with one digit, so that a value with a TAB
  in it is always misread (`ReadAsMeant`); no parameter of `send` has a value.
- A server whose name is a keyword, or that spells its keywords in small letters,
  has features found that it does not offer, or not found that it does; in the
  second case nothing is asked of it that it does not offer (`ParametersOffered`).

## Fairness

- `SmtpTransport!FairSpec`: weak fairness of `CallStep`, since the runtime polls a
  future whose stream is ready, and of `ServerMoves`, since a server that is alive
  gets to what it was sent.  Faults, new calls, `Cancel` and `Drop` have none:
  `CallReturns` does not count on a caller that gives up.
- `ReplyReader!FairSpec`: weak fairness of reading only; the server may stop in the
  middle of a reply, and `ReaderReturns` speaks of calls for which an ending
  line has come or the connection was closed.
- `SaslExchange!FairSpec`: weak fairness of the client's and of the server's
  steps.  The server may challenge as often as it likes.

## Proofs

`TypeCorrect` (four modules): `Spec => []TypeOK` for any emails, envelopes,
features, messages and bounds.  For the transport this includes `acked \in 0 .. sent`, for
the login that `challenges` never falls below zero, for the codec that its count
never gets to the arms marked unreachable and its slices are in bounds.

`RepliesInOrder`: `Orderly => (Spec => []AwaitsOwnReply)`.  `Orderly` is an
assumption on constants: no empty message, and a transport kept after an error
was sequential and the error a 4yz or 5yz, or the call a `send` dropped between two of its
commands.  The negations of its parts
are what `EmptyMessage` and `PipelinedReuse` show to be needed.  `AwaitsOwnReply`
is not inductive: it speaks of replies already sent.  `SyncInv` adds

- `InvCall`: what `sent` and `acked` can be at a point of `send`, without
  pipelining at most one command ahead;
- `InvReplies`: replies in flight answer, in order, what is awaited; only a last
  word (421) answers nothing, and is negative;
- `InvInFlight`: while both ends are alive replies and commands in flight together
  are exactly what is outstanding, the commands following the replies.  This
  makes a reply the server is about to send the right one;
- `InvData`: the server reads content exactly from its 354 to the content.  Without it a
  command could be absorbed and never answered, or content answered as
  commands;
- `InvAuth` and `InvLogin`: the counters of `auth`, and that the server waits for an
  answer only to a challenge `auth` is about to answer;
- `InvDropped`: a dropped transport leaves nothing for the next connection.

Each is a lemma per conjunct with one step per action; `StaysInSync` puts them together
(`Orderly => (Spec => []SyncInv)`) and is what the other theorems on the transport
start from; TLC checks `SyncInv` in `Pipelined`.  What the lemmas ask of a step is `TidyStep` and not `Orderly`: content of
an empty message is not taken; a failing reader, a challenge without an answer and a reply that
cannot be read end in a dropped transport, and so does a negative reply before the
last of a batch; and a call is abandoned only between a reply and the next command of
`send`.  An orderly caller takes no other steps (`OrderlyIsTidy`).

`NeverStalls` and `OnlyWhatIsOffered` rest on the same assumption and on `SyncInv`.
The first follows from it at once: with nothing in flight nothing is outstanding,
and then no call waits.  The second follows the features from one place to the
next, which is `OptionsInv`: the server's offer, the first reply a client in `new`
can read (`FirstOffers`, for which it matters that this reply answers this EHLO
and that nothing else is in flight), `server_info`, and the options of `send`.

`OkMeansTakenOnce`, `RejectedMeansNotTaken`, `NothingMisaddressed`:
`SentOkDelivered`, `RejectedNotDelivered` and `DeliveredIntact`, for an orderly caller.
They speak of results and of the log of the server; what relates the two is
`DeliveryInv`, on top of `SyncInv`:

- `TxnInv`: as long as all replies taken and in flight are positive, the server's
  transaction is what they say, the sender and the recipients so far;
- `ContentInv`: content on its way is alone, on its way to a server in data mode
  that holds the whole envelope of that very email, be the client still there or
  not.  A message that is taken after its caller gave up is as addressed for
  this reason;
- `OnceInv`: content not written, or rejected, is neither taken nor on its way, and
  content on its way was not taken before;
- `VerdictInv`: the reply to the content tells whether it was taken, and a 421 the
  server sends on its own cannot come in its place.

`PromiseKept`: `Orderly => (Spec => KeepsPromise)`, the refinement of
`MailSubmission`.  `Send` is `Submit` there, the end of a call is `Report`, the server
that takes the content is `Accept`, and everything else a stutter; `DeliveryInv` gives
the guards of the abstract steps.

`InStepWhenFinished`, `AsAddressedWhenFinished`, `OkWhenFinished`:
`KeptSpec => []KeptInStep`, `KeptSpec => KeptAsAddressed` and `KeptSpec => KeptOkTaken`, with no
assumption on the constants: every caller, every `Reuse`, empty messages too.  The inductive
invariant `KeptInv` has two halves.  One holds always: types, that an email is `sending` only
in its call, that one not yet handed over is nowhere (`FreshInv`), and that a dropped
transport leaves nothing (`InvDropped`).  The other, `InStep`, holds while nothing is
`unfinished`: `SyncInv`, and the parts of `DeliveryInv` that speak of the email being sent.
The theorems of an orderly caller cannot be used as they are, since an earlier
connection may have been left unfinished and have delivered anything; their lemmas about
steps can: a step that leaves nothing unfinished is tidy (`FinishedIsTidy`), a new
connection starts in step whatever went on before (`ConnectsInStep`), and a connection
that is in step after a step was so before it, or is new (`InStepBefore`).

`LoginTold`: `Spec => []LoginOutcome`.  The strengthening `GrantInFlight` says
that while `auth` waits, 235 is on its way exactly when the login was granted
in this call, and that a call starts with nothing in flight.  `OkIsLogin`:
a call that found a mechanism it accepts never ends in "skipped" (the invariant
`NeverSkipped`), and for the others `LoginOutcome` says the rest.

`ContentIsMessage` and `DataEndsOnce`: `Transparent` and `EndsOnce` for messages of
every length that are `Faithful`, an assumption on the constant `Messages` that leaves
out the two cases the codec misses (a first dot, a dot behind CR CR LF).  The
properties speak of the server, the codec runs ahead of it: what is invariant is
what the server will make of the bytes still in the pipe, those the codec has
gone over and not written included (`Pipe`).  `Leads` says from where to where they lead it, as
the existence of a path through the server's states; a byte put in lengthens the
path at its end (`LeadsOn`), a byte read shortens it at its start (`LeadsFirst`),
a broken connection cuts it (`LeadsPartly`).  `Sync` says that it leads to the place
that `escape_count` stands for (`Encoded`), with `idx - 1` bytes of the message
taken; the one place where it stands for another is the second case above.

`OkHidesNoRefusal`: `Spec => []RefusalSeen` for every server, which may say any
lines at all; all that is assumed of `Replies` is that a server ends its lines
(a line without an end is one the closing connection cut, `CutLast`).  The step
that matters is the line that makes a call succeed (`SuccessIsHeard`): the lines up to the
one the parser stops at have its code, and if the call went on after that one, it was for want
of a CR LF (`Unended`), so that each line behind it follows a bare LF.

`TheRightVerdict` and `ReadsWholeReplies`: `RightVerdict`, and the refinement
`WholeReplies` of `ReplyStream`, for every set of replies with `Delimited`: the last line of
a reply does not announce another one, and no earlier line is a code followed by a
blank (RFC 5321, 4.2.1).  Anything else may stand in a line.  Neither property is
inductive, since both speak of calls that returned.  `StreamInv` adds

- `OnTrack`: as long as no call was stopped, calls and replies are counted alike.  The
  lines of all replies said are one sequence (`Laid`); the lines the call has
  read, those on the wire and those the server has still to send follow one another
  in it, from the place where the reply begins that is as old as the call (`InPlace`).
  A closed connection leaves a first part of them, the last line perhaps torn (`Torn`);
- `Told`: each call before the first one that was stopped took its reply, and its outcome
  is that of the code;
- `Blamed`: the first call that failed to parse had a reply before it that is not
  well-formed, or is a bare code.

The step that matters is again the line that ends a call.  By `Delimited` it is the last
line of its reply, neither an earlier one nor one of the next reply, so that the
next call starts at the next reply.

`TextInvariant`: `Spec => []TextInv`, with `TextInv == Typed /\ Placed`.  `Placed` says that
there is one text, that of all commands written one behind the other, each whole or cut
short (`Laid`); that `stream` and then `todo` are what follows its first m commands
(`Sent`); and that the lines read are those of the first m commands, the n-th ending
with the n-th whole one (`Heard`).  The step that matters is `ReadLine`: the first CR LF
of the stream is the end of the next whole command, since no command has a CR or a
LF before its end (`DisplayEnds`).  That is where the text of commands comes in:
`EmailAddress::new` takes neither, and `XText` writes neither, whatever the
characters.  `TextAssumption` asks the same of the texts the crate does not look at
(the client id, and `OneLiners` of the commands a caller writes itself).

- `NoLineIsLost` (`OneLineEach`) counts the lines of `Placed`.
- `CutNeverObeyed` (`CutIsRefused`): a line that begins with a command of `send` cut short
  is its first k tokens, then the verb of another command (`Glued`).  For DATA that
  is too long a line.  For MAIL and RCPT it depends on where the cut is (`PathCut`):
  before the path the verb stands where the line needs something else; inside the path the
  path holds a blank, or never ends, since no later `>` comes without a blank before it;
  behind the path the verb lies in a parameter, and `VerbNoParameter` says that one with a
  verb in it is none.  `Split` is taken apart for this by lemmas that say which of its
  pieces holds a given token (`SplitPiece`) and where a piece comes from (`SplitSource`).
- `OffersAreUsed` (`FeaturesRead`) compares `FeaturesOf` and `Offered`, line by line.
- `OptionsOffered` (`ParametersOffered`): a line read as a MAIL is a whole one by
  `CutNeverObeyed`; each parameter in it begins behind a blank, and behind each blank there is
  the keyword of an option of `send` (`Optional`), which has it only of a feature found,
  and from the second line of a reply on what is found is offered.

- `AllReadAsMeant` (`ReadAsMeant`): a line of one command is what is read of its words
  (`LineAlone`), and the invariant `Issued` says whose words can be written: those of EHLO,
  of `send`, and of the commands a caller writes itself.  Its hypotheses are about the
  constants: a client id can be told from those of the other kinds (`IdRead`; the crate
  does not look at the text of `ClientId::Domain`), and the other commands have what their
  verbs ask for (`WellFormed`; the crate leaves that to the caller).  The instance has both
  (`MCWellFormed`).  The rest is the round trip of one command, `WellFormedRead`:
  no character of an address ends its path (`PathParts`); no parameter has a blank in it,
  so the pieces a server splits the rest of the line into are the parameters
  (`BlankedSplit`); and each says what it said (`ParameterRead`).
- `XTextRoundTrip`: for values of any length, over the characters the model tells apart,
  `Decoded(XText(v))` is v if and only if v has no character below 16.  `XLaid` says
  where in the text each character of v is; the signs of escapes, and no
  others, stand at those places (`EscapesAre`).  In the other direction,
  the one digit of a character below 16 is followed by the end of the text, by what is no
  digit, or by a digit that makes it stand for something else (`TwoDigits`, `CharOther`).
- `SendReadAsMeant`: of what `send` writes no hypothesis is needed, and no exception.
- `CommandsInOrder` (`Spec => WholeCommands`) puts these together, with no hypothesis on
  the texts: TextSession implements `CommandStream`.  From `Placed` follows which command
  `Done` is (`DoneIs`: the one that has as many whole ones up to it as lines were read) and
  that a step which only touches later commands leaves it alone (`DoneSame`).
  `Start` is `Write` there (`WriteStep`), `Cut` is `Abandon` (`AbandonStep`), and the line
  read is that of the commands up to the next whole one (`DoneMore`, `ReadStep`); what
  it is read as is `Newest`, in the state after the step.

Where a model has a CASE, its arms exclude each other: TLA+ leaves open which of two
true arms is taken, TLC takes the first, and tlapm neither.

Induction over naturals, which some of these lemmas need (the recursion of `FlattenSeq`,
the k-th end of a piece), is done with sets: `Least` says that a set of naturals that is
not empty has a least element, which follows from the library's `WFMin`, and `Induct` is
induction for a set in place of a predicate.

## Limits

Only model-checked: all liveness (`CallReturns`, `ReaderReturns`, `AuthReturns`), which needs
fairness and ENABLED.  Every invariant and action property of a passing run, and each of
the three refinements, is a theorem.

Abstracted: in `SmtpTransport` an email is its identity, its number of recipients,
whether its message is empty and whether its reader may fail, and a write is
whole unless its call is dropped.  A connection that breaks in the middle of one
is left to `DotStuffing`, which shows that a partial content is never taken for
the whole.  A fixed word of a command is one token of `CommandText`, so that a
line is not cut inside one: half a word and what follows is no word either.

Not modelled: a server that leaves RFC 5321 (250 to DATA); the TLS handshake; the
texts of errors and the `Display` of replies and of `ServerInfo`, which go to the
log; base64; the kinds of `Error` nothing in the crate builds; lib.rs, which
holds feature gates.

## Plan

1. The content on the same text as the commands: `TextSession` stops at DATA and
   `DotStuffing` starts there, so that an abandoned content (`Piece` in `SmtpServer`)
   is not yet derived from the bytes as an abandoned command is.
2. AUTH in `TextSession`: its lines are values of `SaslExchange`, which has one in flight.
