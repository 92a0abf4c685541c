# Verification of the GNSS tracker firmware

TLA+ models of the firmware under `src/` (an Mbed OS program for a tracker with
a cellular modem, a GNSS receiver, a LoRa radio, an inertial sensor and an
EEPROM), the TLC runs that check them and the TLAPS proofs of their main
results. `PROJECT.json` lists components, runs, the lines each definition
models, findings and hazards.

    tlc -workers 2 -config MCTracker.cfg MCTracker.tla      # a run
    tlapm Tracker_proofs.tla                                # the proofs

## 1. The system

`main()` builds one `Tracker` and calls `update()` for ever. There is one
thread: `update()` polls the inertial sensor and calls, in a fixed order, every
handler of the current *state object*; a state object implements the few it
cares about and the others return at once. Peripheral modules are state
machines of the same kind, polled the same way. The concurrency is that of the
environment (modem, server, gateway, radio, EEPROM write delays, timers, user,
watchdog) with the handlers, and the difficulty that much of the program's
state is `static` or shared and outlives the object whose progress it records.

| Component | State it keeps | Operations | Hard behaviour | What makes it correct |
|---|---|---|---|---|
| Tracker and its 13 states | state object and its status, operation mode, data objects, formatted message, sequence number, hash chain | one handler per state; `changeState` | 20 statuses handed from state to state; data objects shared by a new and a reloaded report; restart anywhere | every report accounted for, chain follows the confirmations, a report describes one wake-up, a cycle ends |
| EEPROMManager | cells; static progress of clear, push, pop, write | `pushStringToEEPROM`, `popStringFromEEPROM`, `clearAll` | one page per call; page edges; full memory; interruption | a bounded stack of whole strings |
| Slepping and Tracker's wake-up logic | movement event, latency timer, shared silent/keep-alive timer, statics of `awake` | `awake`, `setLatency`, `setSilentTimer`, `updateMovementEvent` | a timer with two purposes; events visible for one call; an expiry read once | always something left that wakes it; modem off until then |
| ExchangingLoRaMessages | chunk index, time-outs, number (all static or in Tracker) | `exchangeMessages`, `checkMessageIntegrity` | lost chunks and ACKs, late ACKs, undefined buffer contents | an exchange an ACK ends stands for a report that arrived |
| Transceiver states (HTTP) | state object, attempts, statics of PostHTTP | `exchangeMessages` of each state, `enableTransceiver` | lines not tied to commands; repeated commands; late results | success and response belong to this message; it gives up |
| ATCommandHandler | line buffer | `sendATCommand`, `readATResponse` | lines read by whichever state is current; overflow | no line lost or merged |
| CellularModule, connection states | connection state object, attempts, cell information, SIM slot, statics of the neighbour list | `connect` of each state, `enableConnection`, `retrivNeighborCellsInformation`, `switchSIMCARD` | an OK names no command; a failed pass is resumed by a later wake-up; a list given up half way | a connection reported is confirmed, cell information complete and of this pass, neighbours listed now, it ends |
| PowerManager | power state object, pulses and attempts (static), supply and key pins | `turnOn`, `turnOff`, `reboot`, `measureBattery`, `startStopUpdate` | button, failing or mute modem, progress that outlives a wake-up | off means off, no cut without asking, every operation ends |
| GNSSModule and its states | positioning state object, attempts; lines left on the serial line | `retrivGeopositioning` of each state | an inverted comparison; a receiver switched off one cycle late; answers to repeated commands | a position obtained is of this cycle, the acquisition ends |
| IMUManager | stability, motion counter, samples, the one event of the driver | `initialize`, `checkStability`, `obtainInertialMeasures` | two readers of one event; a reset of the sensor; a failed initialization repeated | what the program needs is enabled, nothing is counted twice, no null pointer is followed while nothing fails |
| BNO08x driver (`sh2.c`, `shtp.c`) | one operation and its state, channels, sequence numbers, the payload being assembled | sixteen operations, `sh2_service` | operations without time-out; refused writes; lost fragments; answers nobody waits for | an answer belongs to its operation, a payload to one cargo, a request arrives |
| LoRa driver | registers and FIFO of the SX1276 | `begin`, `beginPacket`, `endPacket`, `parsePacket`, `read` | flags and bytes that outlive a transmission | no exchange accepts what it did not receive |
| Message handlers, AES | none between calls | sign, encrypt, encode, checksum and back | failure of one stage; stale buffers | only a whole, own message passes the chain |
| JWTManager and the replies | none between calls | `encodeJWT`, `decodeJWT`, the fields of a reply | truncated, tampered or incomplete replies | an order is taken only as it was signed |
| Report codec | none between calls | `formatMessage`, the parsers of LoadingMessage | formats, arguments and parsers nobody compares | what was stored is what is sent |
| NonBlockingDelay | duration, start, running; the shared tick counter | `read`, `restart`, `write` | a ticker per object, one counter | a delay elapses once and in time |

The cipher, the debug log and the date conversion are left aside; see `components`
in `PROJECT.json`. `hazards` there lists what is hard to test, each at its line,
with the properties that would catch it.

## 2. Modules

| Module | Models | Role |
|---|---|---|
| `ReportLedger` | what the tracker promises about reports: one in hand, a bounded stack, nothing lost silently | abstract specification |
| `Tracker` | `Tracker.cpp` and the state objects under `TrackerState/` | implements `ReportLedger` |
| `MCTracker` | the module TLC runs | |
| `Tracker_proofs` | ten theorems about `Tracker` | TLAPS |
| `ReportCodec` | the formats of `FormattingMessage`, the parsers of `LoadingMessage` | operators, used by `Tracker` |
| `ServerReply` | the token of a reply and what it orders (`JWTManager`, `ExchangingMessages`, the latencies of `Tracker`) | operators, used by `Tracker` |
| `MessageStack` | what the EEPROM manager promises: a stack of strings in `Size` bytes | abstract specification |
| `EEPROMManager` | `EEPROMManager.cpp`, byte by byte and page by page | implements `MessageStack` |
| `MCEEPROMManager` | the strings of its instances | |
| `EEPROMManager_proofs` | five theorems about `EEPROMManager`, up to the refinement of `MessageStack` | TLAPS |
| `WakeUp` | `Slepping::awake()`, `GoingToSleep`, the timers and orders it reads | |
| `LoRaExchange` | `ExchangingLoRaMessages` with radio and gateway; packets are read as wholes | what `LoRaLink` implements |
| `MessageChain` | the six handlers and the four chains made of them | operators, used by `LoRaLink` |
| `LoRaRadio` | the driver of the SX1276 | operators, used by `LoRaLink` |
| `LoRaLink` | the exchange with handlers, driver, fragments and `accumulatedBuffer` | composes the three, implements `LoRaExchange` |
| `LoRaLink_proofs` | eleven theorems about `LoRaExchange` and `LoRaLink` | TLAPS |
| `HTTPSession` | `TransceiverUnavailable`, `ConfigurePDPForHTTP`, `ConfigureSSL`, `PostHTTP`, `DeactivatePDP` with the modem | |
| `HTTPSession_proofs` | four theorems about `HTTPSession` | TLAPS |
| `Connection` | the eleven connection states and the list of neighbour cells, with the modem | |
| `MCConnection` | the lists of its instance | |
| `Connection_proofs` | seven theorems about `Connection` | TLAPS |
| `PowerManager` | `PowerManager` with the states `PowerONState`, `PowerOFFState`, `ManualPowerOFFState`, and the modem | |
| `PowerManager_proofs` | four theorems about `PowerManager` | TLAPS |
| `ATCommandHandler` | the assembly of lines from characters | operators, used by `GNSSSession` |
| `NonBlockingDelay` | the delays and the tick counter they share | operators, used by `GNSSSession` |
| `GNSSSession` | the five positioning states and the battery reading before them, with receiver and modem | |
| `GNSSSession_proofs` | two theorems about `GNSSSession`, five about `WakeUp` | TLAPS |
| `SHTP` | `shtp.c`: channels, advertisement, assembly of payloads | operators, used by `SH2` |
| `SH2` | `sh2.c` with the sensor hub | used by its two clients |
| `SH2Client` | any client: sessions and all sixteen operations | |
| `IMUManager` | the program's client: `IMUManager.cpp` on top of `Adafruit_BNO08x.cpp` | |
| `SH2_proofs` | seven theorems about `SH2Client`, six about `IMUManager` | TLAPS |

How they fit together: `Tracker` has a report's whole life and sees each
peripheral as the set of answers it can give; the other modules open one of those
boxes each.

* The stack in `Tracker` is the one `MessageStack` promises (whole strings, last in
  first out). What of a report comes back from it is `RestoredParts` of `ReportCodec`.
* The outcomes `replyAccepted`, `noReplyRead` and `exchangeFailed` of `Tracker` include
  all that `HTTPSession` shows a session to end with; the modes and latencies a reply
  may order are those of `ServerReply`. `loRaAcknowledged` and `loRaTimedOut` are those of
  `LoRaExchange` (the report may have arrived or not in each), which `LoRaLink` implements.
* `connected` and `connectionFailed` of `Tracker` stand for a pass through
  `Connection`, `attach` for its `begun`; `power` for the state of `PowerManager`, whose
  `OffIsOff` is the assumption under which `LoRaWithModemOff` means that the modem is off;
  position obtained or unavailable for what `GNSSSession` ends with.
* `awake` of `Tracker` leaves open when the tracker wakes, which `WakeUp` decides; the
  motion `WakeUp` reads is what `IMUManager` counts.

**Tracker.** One action is one call of a handler that changes state; calls that
only wait are stutters. `update()` calls the handlers in a fixed order, the
model interleaves them freely, which only adds behaviours. A measured value is
the number of the wake-up ("cycle") that measured it, a report its kind with
the origin of each field, a hash the report and chain position it was computed
for. `status` is the `currentStatus` of the state object. `attach` stands for
the connection state: the cycle its current pass began in. History variables
`acked`, `delivered`, `given_up` are read by properties only.

**EEPROMManager.** The byte array, 16-bit addresses, and the static variables of
each operation. One action is one call; `pushWaits` is a call that finds the
write delay still running. Strings are sequences of non-zero bytes. The EEPROM
starts all zero or all 255. I2C calls are taken to succeed.

**WakeUp.** One action is one call of `awake()`, a timer coming due, a change of
the measured motion, or a server's order. Durations are left out: a running
timer comes due at any time. Its definitions are named `WakeSpec` and so on because it is
extended together with `GNSSSession` by the module that holds the proofs of both.

**ReportCodec.** A format is its conversions and the arguments it is called with.
What a conversion prints follows from where `va_arg` finds it on the ARM target, so that
a format with one conversion too few prints what the target prints. Wording, precision
and the sizes of buffers are left out.

**ServerReply.** A token is its segments, the signature the two it was made of. The
fields of the payload are read in the code's order, and the first missing one ends
the reading. Multipliers and durations are the code's, in milliseconds.

**LoRaExchange.** One action is one call that does something, or a step of the
link. The text to send lives in a local array filled in one call and read in
later ones; a call finds it intact or overwritten (`Overwritten` are the lengths
`strlen` may then return).

**LoRaLink.** Has the actions of LoRaExchange with the radio's registers and the bytes
on the way. A message is a sequence of tokens that know what they were computed of: a
CRC, an HMAC and a cipher fit exactly the message they were made for. The gateway's ACK
comes in fragments; each may be damaged, missed, heard before, during or after the
window, or be mixed with strays. `transmitChunk` overwrites the FIFO, but a reception
flag nobody read makes the driver read the chunk as if received. The handlers are
applied in the order the chains are built in (`MessageChain`).

**HTTPSession.** One action is a state's first pass (its command), a line, or a
time-out. Lines carry nothing that ties them to a command. The modem takes what
it was sent in order, answers at any time or never, may answer `ERROR`, and takes
whatever comes next as data after a `CONNECT`. `DeactivatePDP` reads a member of
an object it has just deleted: its result is either value.

**Connection.** A call of a handler sends, reads at most one line and looks at the
timer; each is a step, so that a call is one to three steps. The states that ask
for information wait for their line and then for an OK; the others for an OK
alone. A measured value is the wake-up in which the modem said it and whether it
is acceptable (registered, strong enough). `begun` and `late` are history: the
wake-up in which the pass began, and whether a time-out of it overtook an answer.
Lines nobody waits for are read by other modules (`Drain`). The slot left and the
exchange that follows are one step each; the clock set from the network's time and
`reboot()` of a missing card beyond powering down are left out.

**PowerManager.** Sending, reading a line and looking at the timer are a step each in
`measureBattery()` and `turnOff()`, as in Connection; the other calls are one step.
`statics` holds the static variables, which every wake-up shares, `object` the
members of the state object, which a change of state resets. `powerStatusInput` shows
an unpowered modem, a starting one and one that is off alike. Pressing the key starts
a modem that is off and supplied, and may stop one that is on. `phase` is what the
tracker is at, and with it the calls it may make: `startStopUpdate()` in every phase,
each of the others in its own. `announced` and `leftover` are history: whether the modem has
said `POWERED DOWN` since it started, and whether it started with such a line unread.
`SleepState` is left out: only `PowerONState::goToSleep()` enters it, which nothing calls.

**GNSSSession.** One action is a state's first pass, a line or a time-out, as in
HTTPSession. A position carries the cycle it was measured in. The rest of a cycle is
one step that reads some of the lines left and switches the modem off or, in pursuit,
leaves it on. `MaxLate` bounds the time-outs of a cycle that strike while an answer is
under way; it is below `MaxTries`, because otherwise an answer to the search of one
cycle can be read in the next (section 5).

**SHTP, SH2, SH2Client, IMUManager.** The driver is a record and its functions are
operators on it. A payload is a sequence of reports, a transfer a part of one. `write`,
`poll`, `hubTakes` are a bus write that the driver repeats when it is refused, one
transfer read and dispatched, and one request taken by the hub. `SH2Client` calls any
operation, `IMUManager` those the program calls, from `update()` in the tracker's order.
Each sensor value is only the fact that it was reported; metadata records, the
gyroscope channel and time stamps are left out. Words of `setFrs` are sent
once the payload that asked for them has been handed on: the code sends them from within
the listener, which services the transport over the payload still being read (`sh2.c:1205`,
`shtp.c:309`); the program never calls `sh2_setFrs()`. A null pointer that is followed ends the
behaviour (`lib.broken`); the two ways to get there are in section 5. The definitions of
`IMUManager` are named `IMUSpec` and so on for the reason those of `WakeUp` are.

## 3. Runs

| Run | Question | States |
|---|---|---|
| `tracker` | Do the safety properties of the report cycle hold, does it implement the ledger, and does a wake-up end? | 208,838 |
| `tracker_pursuit` | *violation:* in pursuit after a LoRa cycle it does not end | |
| `eeprom` | Is the EEPROM a stack of strings, in spite of pages, interruptions, a full memory? | 3,320 |
| `wake_up` | Does a sleeping tracker always keep something that wakes it, and stay quiet until then? | 2,074 |
| `lora` | Does the link with handlers, driver and fragments implement stop-and-wait, and does each exchange an ACK ends stand for an arrival of its own? | 309,271 |
| `lora_late_ack` | *violation:* an exchange an ACK ends did not deliver its own report | |
| `http` | Do success and response belong to this message, and does an exchange give up? | 451,152 |
| `gnss` | Is a position obtained one of this cycle, and does the acquisition end? | 188,361 |
| `connection` | Is a connection reported one that exists, with complete and current cell data, and does connecting end? | 112,105 |
| `power` | Is a modem turned off really off, never cut off unasked, and does every power operation end? | 326,524 |
| `sh2` | Does every operation of the sensor driver end, answered by its own reports? | 564,611 |
| `imu` | Are the reports the program wants enabled, none counted twice, and no null pointer followed while nothing fails? | 327,274 |

### Properties

* `Tracker`: `StatusFits` (no state object gets a status it has no branch for),
  `MessageInHand` (what is sent or saved is the report in hand, and the hash to be
  chained was computed for it at this place), `ChainFollowsAcks` (the chain and
  the sequence number follow exactly the confirmations decoded), `AckedIsFinal`
  (a confirmed report is never stored or sent again), `Accounted` (no report slips
  away), `OneCycleReports` (a report describes one moment), `LoRaWithModemOff` (one
  radio at a time),
  `CycleEndsOrWaits` (a wake-up ends or stands still where a wait has no bound) and the refinement
  `ImplementsLedger`, from which follows that the stack is in order, newest on top and each report once (theorem `StackOrdered`).
* `EEPROMManager`: `BlankBehind` (between operations everything behind the last string
  is blank), the refinement `ImplementsStack`, `OperationsEnd`.
* `WakeUp`: `KeepAliveArmed` (a tracker at rest has a timer running or knows that one
  elapsed), `QuietSleep` (the modem is not woken without a reason), `WakesUp`.
* `LoRaLink`: `NumbersConfirmedOnce`, `ArrivalPerAck` (exchanges that end with an ACK stand
  for different arrivals, each of its own report or of one given up since the last ACK),
  `AcceptedIsWhole` (an ACK taken is one the gateway sent, whole),
  the refinement `ImplementsExchange`, fairness included, and `ExchangeEnds`.
* `HTTPSession`: `SuccessWasPosted`, `ReplyIsOwn`, `GivesUp`.
* `GNSSSession`: `PositionIsOfCycle`, `AcquisitionEnds`.
* `Connection`: `ConnectedIsAttached` (no OK of another command passes for the
  attachment), `CellIsComplete`, `NeighborsAreCurrent`, `ConnectingEnds`.
* `PowerManager`: `OffIsOff` (from a `turnOff()` that returned true to the next
  `turnOn()` the modem is off, whatever the button and late answers do),
  `OrderlyShutdown` (a running modem is cut off only if it said it was going down, or
  after its attempts), `PhasesEnd` (measuring, turning off and waking come to an end).
* `SH2Client`: `AnswersAreOwn` (an operation ends with a report that answers it),
  `PayloadIsConsecutive` (a payload handed on is one cargo without a gap), `RequestsArrive`
  (an operation that waits has reached the hub), `OpEnds`.
* `IMUManager`: `ReportsEnabled` (after an initialization that succeeded and the events of
  a reset, the hub reports what is waited for), `CountedOnce` (no report is counted by two
  calls), `NullNeedsFault` (a null pointer is followed only after the sensor was not found
  or answered too late, the bus refused a write, or a transfer was lost; section 5 has the cases).

The runs that show a violation check what a comment of the code says: `CycleEnds` of `Tracker` and
`ConfirmedArrived` of `LoRaExchange`. Three more such properties (`UnsentIsSaved` and `LoadedAsSaved` of
`Tracker`, `KeepsCard` of `Connection`) are kept with a configuration each, by which TLC finds their
counterexamples (section 5); they are not among the runs.

The runs have no type invariants: where the values of a module must be known to be of
their types, a theorem says so. Each property has a mutant: a definition of the model
changed as a plausible bug would change the code, under which TLC finds the property
violated (definitions marked `Mutant` in the modules).

Pure algorithms are stated against a reference and evaluated by TLC at the start of the
runs that use them:

* `ReportCodec`: `TextsFitTheirArguments` (each text sent has as many conversions as
  arguments), `ParsersFillTheMessage` (each parser fills what its kind needs), `EventsComeBack`;
  `Tracker`: `FieldsComeBack`, which the proofs cite; `MCTracker`: `FieldsAreThePartsPrinted`.
* `ServerReply`: `KeepAliveOutlastsLatency`, `OrdersAreSigned` (a truncated or altered token
  orders nothing).
* `ATCommandHandler`: `LinesAreWhole` (each line comes once, in order and whole, or cut as
  the buffers cut it), `LinesOutliveCallers` (a line begun for one state is finished for the next).
* `NonBlockingDelay`: `DelaysElapse` (once, after its duration, although the counter wraps; with
  `n` live objects after an `n`-th of the time), `WrittenDelaysCount`.

### Bounds

* Tracker: `MaxCycles = 3`, `Capacity = 2`, `MaxResets = 1`: two reports
  stored, a third in hand, a full EEPROM, reports reloaded and stored again, and
  a restart in the middle. Pushing beyond the capacity, the order of three
  reports and a chain of three confirmations all occur. The proofs remove these
  bounds. The tracker stops at the last cycle with `awake` still enabled, so no
  run of it switches deadlock checking off. `tracker_pursuit` needs no faults.
* EEPROM: `Size = 8`, `PageSize = 2`, records of 2, 3 and 4 bytes: records begin on either
  side of a page edge, span one to three pages and can fill the memory but for the
  last byte; two restarts, between operations or inside a push (`CrashPoints`).
* WakeUp has no parameters.
* LoRa: messages shorter than two chunks, and of exactly two; three reports; up
  to three time-outs (five in the code); a text found intact, empty or grown; three
  fragments put together before the buffer is cleared (51 in the code). `MaxAir = 4`: two ACKs
  of two fragments in the air, and what exceeds that is lost, as radio loses it anyway. The ACK of a
  report given up may come in any later exchange. `lora_late_ack` needs two reports, one
  time-out each and one ACK.
* HTTP: two exchanges (what one leaves to the next), two attempts (20 and 5 in
  the code), two inputs in the modem's buffer, four lines on their way; what does
  not fit is lost.
* GNSS: three cycles (what one leaves reaches the next, and what that leaves the third),
  three attempts (20 and 40 in the code), two lost answers or stops of the receiver,
  two late answers a cycle, which is sharp: with as many as attempts `PositionIsOfCycle` fails.
* Connection: two wake-ups (a pass and one that resumes it), two attempts for each
  state (20 and 40 in the code), two weak signals, one repetition of the list (15),
  three rows (30) and one neighbour (12), so that both limits are met; two
  commands unanswered, four lines unread; a card in the second slot only, so that
  the slot must be changed.
* PowerManager: one counted attempt to turn off (11 in the code), two readings that
  find the modem off (20), one reading of a modem started by the button (1000), one
  press, one failure, one command unanswered and one line unread: enough for
  a late line to answer the wrong command, for counts and half pulses to be left
  to the next wake-up (TLC finds `OrderlyShutdown` violated without its case for a
  line left unread), and for every way of `turnOff()` to end. `EarlyFailures = FALSE`: a
  modem fails only once `startStopUpdate()` has seen it on (section 5).
* sh2: sequence numbers modulo 3 (256), three entries of a product list and two words of a
  flash record, so that an answer has a first, a middle and a last report; one sensor, two
  operations of the sixteen in any order, one refused write, one lost transfer, two resets of the
  hub, of which the first is the one `sh2_open` asks for.
* imu: sequence numbers modulo 2, one or two reports to an answer, one refused write, one
  reset after the first, three sensor reports of which one waits and one is late; one motion
  report that counts as motion, two that count as rest, one sample of each kind.

Deadlock checking is off in `lora`, `lora_late_ack`, `http`, `gnss`, `connection`, `sh2`
and `imu`, where a bound ends a behaviour (in `imu` a null pointer that is followed does too), and on in the others.

### Fairness

`main()` calls `update()` in an endless loop and the ticker interrupt runs, so
every handler that can act does so (weak fairness per handler). Nothing is owed
by the environment except in:

* `Tracker`: fair (`Fairness`) are only the handlers whose wait the code bounds: connecting and the
  list of neighbours (`ConnectingEnds`), turning the modem off (`PhasesEnd`), formatting, pursuing and
  going to sleep, and the EEPROM (`OperationsEnd`, so but for a memory full to its last byte). The others
  wait as long as it takes: for a stable sensor and its samples (`IMUManager.cpp:197-284` never gives
  up, and after a reset of the hub only the stability is enabled again), for a modem that comes
  up and tells its battery (`PowerONState.cpp:294-327`), for the receiver to be turned on or off
  (`TurningOnGNSS`, `TurningOffGNSS`), for the OK of `DeactivatePDP`, and for a `begin()` that
  succeeds (`ExchangingLoRaMessages.cpp:63`). `CycleEndsOrWaits` assumes nothing of them: it says
  that a wake-up ends or stands still in one of their states (`UnboundedWaits`), and never goes round
  from state to state instead, but for a reloaded IMU report (section 5). `tracker_pursuit` and
  `MCTrackerRetry.cfg` do assume that these peripherals answer (`PeripheralsAnswer`), so that what they
  show is none of their doing.
* `EEPROMManager`: the watchdog bites when a call never returns.
* `WakeUp`: a running timer comes due, and a modem whose power key was pulsed comes up.
* `LoRaLink`: strong fairness of the time-out. An elapsed timer stays elapsed
  until it is read, and it is read in every call that is not occupied by a packet
  which fails verification, so packets that keep coming cannot hold it off for ever.
  Nothing is owed by radio or gateway.
* `HTTPSession`: the timer elapses. Nothing is owed by the modem.
* `GNSSSession`: the timer elapses and a modem that is on takes what it is sent; the answer
  may still be lost, and the receiver may stop, a bounded number of times.
* `PowerManager`: the timer elapses, a modem whose key was pressed comes up, and it does not
  leave every command without an answer; only measuring needs the last.
  A line that is there is read in the end (strong fairness), as a call reads
  before it looks at the timer.
* `Connection`: the timer elapses, and an exchange and `turnOff()` end, which is
  shown by, or left to, other modules. Nothing is owed by the modem. A line read
  restarts the timer of some states, but the modem speaks only when asked, so
  lines cannot hold a time-out off for ever.
* `SH2Client`: an operation goes on writing or polling, the hub takes a request it was sent. `OpEnds`
  leaves out a lost transfer and a reset during the operation, after which it waits for ever.
* `IMUManager` has safety properties only.

## 4. Proofs

Every theorem holds for all values of the constants its module's assumption allows.

| Module | Theorem | Statement |
|---|---|---|
| `Tracker_proofs` | `TypeCorrect` | `Spec => []TypeOK` |
| | `StatusesFit` | `Spec => []StatusFits` |
| | `RightMessage` | `Spec => []MessageInHand` |
| | `StackOrdered` | `Spec => []NewestOnTop` |
| | `ChainUnbroken` | `Spec => []ChainFollowsAcks` |
| | `AcknowledgedOnce` | `Spec => []AckedIsFinal` |
| | `NothingSlipsAway` | `Spec => []Accounted` |
| | `ReportsOfOneCycle` | `Spec => []OneCycleReports` |
| | `OneRadio` | `"button" \notin Faults => (Spec => []LoRaWithModemOff)` |
| | `TrackerImplementsLedger` | `Spec => ImplementsLedger` |
| `EEPROMManager_proofs` | `EEPROMTypes` | `Spec => []TypeOK` |
| | `LayoutInvariant` | `RestartsSpareErasing => (Spec => []Layout)` |
| | `NothingBehind` | `RestartsSpareErasing => (Spec => []BlankBehind)` |
| | `StackImplemented` | `RestartsSpareErasing => (Spec => ImplementsStack)` |
| `LoRaLink_proofs` | `LoRaTypes` | `Spec => []TypeOK` |
| | `StartsClean` | `Spec => []CleanStart` |
| | `AttemptsKept` | `Spec => []AttemptsBounded` |
| | `NumbersKept` | `Spec => []NumbersConfirmedOnce` |
| | `Arrives` | `Spec => []ArrivalPerAck` |
| | `LinkImplementsExchange` | `LinkSpec => Spec` of `LoRaExchange` |
| | `AcksAreWhole` | `LinkSpec => []AcceptedIsWhole` |
| | `LinkNumbersKept` | `LinkSpec => []NumbersConfirmedOnce` |
| | `LinkArrives` | `LinkSpec => []ArrivalPerAck` |
| `HTTPSession_proofs` | `HTTPTypes` | `Spec => []TypeOK` |
| | `SuccessIsPosted` | `Spec => []SuccessWasPosted` |
| | `ReplyBelongs` | `Spec => []ReplyIsOwn` |
| `Connection_proofs` | `ConnectionTypes` | `Spec => []TypeOK` |
| | `CellGathered` | `Spec => []CellIsComplete` |
| | `AttachmentConfirmed` | `Spec => []ConnectedIsAttached` |
| | `NeighborsListed` | `ListsGrouped => (Spec => NeighborsAreCurrent)` |
| `GNSSSession_proofs` | `GNSSInvariant` | `Spec => []GNSSInv` |
| | `PositionsAreOfCycle` | `Spec => []PositionIsOfCycle` |
| | `WakeTypes` | `WakeSpec => []TypeOK` |
| | `LatencyKept` | `WakeSpec => []LatencyRemembered` |
| | `KeepAliveKept` | `WakeSpec => []KeepAliveArmed` |
| | `SleepsQuietly` | `WakeSpec => []QuietSleep` |
| `PowerManager_proofs` | `PowerTypes` | `Spec => []TypeOK` |
| | `StaysOff` | `Spec => []OffIsOff` |
| | `ShutsDownOrderly` | `Spec => OrderlyShutdown` |
| `SH2_proofs` | `DriverTypes` | `Spec => []Typed` |
| | `RequestsInvariant` | `Spec => []ReqInv` |
| | `RequestsReachHub` | `Spec => []RequestsArrive` |
| | `CommandsInvariant` | `NumbersSuffice => (Spec => []CmdInv)` |
| | `OwnAnswers` | `NumbersSuffice => (Spec => []AnswersAreOwn)` |
| | `TransportInvariant` | `FewLost => (Spec => []TransportInv)` |
| | `PayloadsConsecutive` | `FewLost => (Spec => []PayloadIsConsecutive)` |
| | `IMUTypes` | `IMUSpec => []IMUTyped` |
| | `ReportsInvariant` | `IMUSpec => []ReportsInv` |
| | `ReportsKept` | `IMUSpec => []ReportsEnabled` |
| | `ReportsCounted` | `IMUSpec => []CountedOnce` |
| | `SoundInvariant` | `IMUSpec => []SoundInv` |
| | `NullsNeedFaults` | `IMUSpec => []NullNeedsFault` |

**Tracker.** The argument goes in layers, each inductive relative to the one below.

1. `Typed == TypeOK /\ StatusFits /\ MessageInHand`. Types alone are not
   inductive: `formatMessage` and `exchangeFailed` look a status up in a table, so
   the domain of the table has to be known to contain it (`StatusFits`), and a
   saved message must be of a kind that can be parsed back (`MessageInHand`).
1. `Ordered == Typed /\ Numbered /\ NewestOnTop`. Lemma `ReportStep` reduces the
   actions to seven things that can happen to the report in hand and to the
   stack (stay, drop, keep, recall, spoil, take, wipe); `Numbered` bounds every
   report number by `cycle`, so that a new report is newer than all.
2. `Acked` adds the chain and `AckedIsFinal` to `Ordered`: a confirmed report is
   dropped in the same step and, by the order, is on the stack nowhere else.
3. `Accounted` and the refinement follow from `Ordered` and `ReportStep`; the seven
   cases are the actions of `ReportLedger`. `OneRadio` needs only `Typed`.
4. `Dated` adds to `Typed` that the data objects were measured in this cycle by the time
   a report is taken from them (`Fresh`); a report loaded again keeps its dates by
   `FieldsComeBack`, which TLC evaluates for the formats and parsers of the code.

`OneRadio` excludes the button because `startStopUpdate` of an intermediate state
turns a modem the user restarts back on.

**WakeUp.** The invariant is `WakeInv`: the properties with `Rested`, which says that `awake()`
leaves its static variables as it found them whenever it wakes the tracker. Without
it the next sleep could begin with an expiry remembered from the last one. The
lemma the proof turns on is `ReadTimer`: `read()` leaves a timer running unless
that very call reported its expiry, so that either the timer or `timeToWakeUp`
still holds the reason to wake.

**LoRaExchange.** `LoRaInv` adds `NumberOfReport` (there are never more numbers in use
than reports, which bounds `number`), `AtRest` (which static variable may be used in
which state), `Counted` (the time-outs of this exchange against the counter that
no ACK resets) and `Confirmed` (the confirmed numbers lie below the one in use: that
is why the next confirmation keeps them increasing). `Arrives` is about ACKs that
outlast their exchange, so that one may confirm a later report under the number the code gives it again. `ArrivalInv`
says that what is on its way or received carries a number given so far, and if it is the one in use, a report
has arrived that is newer than all confirmed ones (`AcksAreAnswers`, `ArrivedSince`): a number is given to
no other report once it is confirmed, and those that had it before were all begun since then.

**LoRaLink.** `LinkInv` says what the fragments heard, the FIFO and the assembled buffer can be
made of. No byte of an earlier exchange survives the reset in `begin()`, and none of an
earlier message the clearing of the assembly, so that tokens which pass the chain of
handlers are one ACK, and the step is the one of `LoRaExchange` that hears it. `LinkArrives` and
`LinkNumbersKept` then follow from the theorems about the abstract module.

**HTTPSession.** `HTTPInv` says, for an exchange that found nothing left over (`clean`), that
every input the modem holds was asked for in it (`Carried`) and every line it may still read
was told in it and is backed by a POST (`Backed`); success and response are read from such lines.

**Connection.** `ChainInv`: the lines and pending commands belong to the state in hand or to the
one before it, those of the one before come first, and what may be stored was measured in this
chain. It holds whatever the time-outs overtake, because a state is left only by
an OK behind its own information. `AttachInv`, while no time-out of the chain has overtaken an
answer: a state sends only when nothing is under way and leaves with the last line of the
answer, so that an OK read in `AttachingToPacketService` or `DefinePDPContext` answers its
command. `ConsultingNetworkStatus` sends two commands at once, and is the case the invariant is
complicated for: the line it looks for answers the second. Its part
`CardRead` says when the slot is left rightly: a missing card is then said once, as the last line, of the slot still
selected. After a time-out that overtook an answer it does not hold, which is what `MCConnectionSlot.cfg` shows (section 5).
`NeighborInv` is about rows of `AT+QOPS`. A list asked for again after a time-out may leave rows, or
the command, on the line at the end of a wake-up; they come before the first information of the
next chain, which is read before the next list begins (`RowsFirst`). Within a list every cell,
kept or still to be read, stays below its operator (`KeptGrouped`, `ReadGrouped`), also when
there is no room and the rest is dropped. What the rows then give is a function over them (`found`);
that it is total and that its cells are sound (`FoundEquation`, `FoundSound`) is shown by
descent to the least exception, as natural numbers are well-founded. The hypothesis `ListsGrouped` says that
the modem puts cells below their operators: the code keeps the operator of an earlier list and
would give it to a cell that comes first.

**GNSSSession.** What is on its way from the modem is the lines, then what the inputs will give,
in the order of the commands. `GNSSInv` says that while the battery is measured all that is left of
an earlier search comes before the battery (`PositionsFirst`), and during the search all that is left of
the battery before the positions (`BatteriesFirst`), so that a search that has read past the battery reads
positions of its own cycle. A state could give up before that; but a try is only counted when an answer
is late or the line silent, and fewer answers are late than a state has tries, `MaxLate < MaxTries`
in the assumption, so that a state that gives up has seen the line empty (`SilentOnce`).

**PowerManager.** `RestsUnsupplied` (which states leave the modem without supply or off) and
`PowerDownIsExplained` (a line `POWERED DOWN` was said since the start or left over at it).

**EEPROMManager.** The types of the static variables are not inductive without `WriteInside`: a
write under way lies inside the memory and follows the address of the push, which a restart
may interrupt anywhere. What is stored is the invariant `Layout`: the memory is `Packed`, that is
strings one behind the other, each with its terminator, and blank behind the last (`BlankFrom`), except for
what the operation under way has done so far, one conjunct for each: `Pushing` (the string is written up to an
address, terminator first or last as the pages fall), `Reading` and `Popping` (what the search has
found is the top), `Clearing` (blank up to an address). It holds under `RestartsSpareErasing`, that is
`CrashPoints \subseteq {"none", "push"}`: a restart in `clearAll` or in the erasing of a pop leaves the tail of
strings that are no longer there, which section 5 describes and no invariant can exclude. The lemmas
about the operators are what the proof rests on: the searches return the greatest address with a property
(`GreatestRanked`), so that the last terminator is found by `TextEnding` without induction, a write of a string leaves
the others (`StringsKept`), and a string read is the one written (`TextRead`, `FullRead`). `StackImplemented`
maps the completed push, pop and clear to those of `MessageStack` and every other step to a stutter.

**SH2Client.** First what a payload can do to the driver, whatever its reports are: it keeps what is
being written, may end the operation in progress, and lets it hear only responses with the number of
its own command (`PayloadAfter`, by descent to the least report at which that fails, as a payload is
handed on by a recursive function). `ReqInv` then follows a request from the call to the hub.
`CmdInv` says that the commands and responses on their way (`OnWay`: with the driver, the hub, on the
wire or in a payload half put together) have numbers below the next one, and those with the number of
the command in progress are its own. It needs `NumbersSuffice`, `MaxCalls < SeqModulus`: the code counts
commands in 8 bits, so that a response 256 commands late would be taken. `TransportInv` says that the
transfers of a channel on the wire have consecutive numbers up to the hub's next one (`InSequence`), that a
fragment is followed by the next one of its cargo (`Chained`), and what a payload under construction can go on
with (`Assembly`): its own next fragment, or, behind `g` lost transfers, a number that is `g` ahead
(`Gap`), or after a reset nothing before the first cargo of the new session (`AfterReset`). It needs
`FewLost`, `MaxLosses < SeqModulus /\ MaxLosses < 4`, and both parts are sharp: with as many losses as
numbers the next fragment fits again; and when the three transfers of a reset and the first fragment of the
next answer are lost, the second fragment may have the number an old payload waits for, as the numbers
begin anew. TLC finds that payload with `MaxLosses = 4`, `SeqModulus = 8`, and none with three losses.

**IMUManager.** `ReportsEnabled` speaks of two moments far apart, a request of the initialization and
what the hub reports much later, with refused writes, answers and a reset in between. `Control` follows
each report of the list over that way: it is behind what the initialization has gone through
(`Enabling`, `Initialized`) and then enabled, on its way to the hub or in the driver's hands (`Asked`); once the
hub has lost what it was asked, the reset is still to be told, read or acted on, or the stability is asked for
again (`ResetTold`). That no write is dropped between the refusal and its repetition is the lemma
`Served`, which reduces what `sh2_service` and a payload can do to the driver to the few fields `Control`
reads. `CountsInv` is a sum: for every kind of report, what was counted or zeroed, what the counter
holds and what is still on its way (`Pending`: with the driver's one event, in payloads, on the wire, with the hub)
are together no more than what the hub has made; reading the event moves one from `Pending` to
the counter, and it could be counted twice only if the event were not emptied before the
next service, or a payload kept on the wire once handed on. `NullNeedsFault` cannot be followed from
where a pointer is used: what has to be known is that, until something fails (`Faultless`), the first
initialization succeeds, so that no second one meets an open session. `SoundInv` says so of every moment
before it: the hub advertises its channels before it tells the reset (`ChannelsFirst`), so that
an operation that begins knows them; no sensor reports before it is asked (`Quiet`), so that no event
comes while there is nowhere to put it; and the session that was opened still has its
transport (`Attached`).

Only model-checked: liveness (`CycleEndsOrWaits`, `OperationsEnd`, `WakesUp`, `ExchangeEnds`,
`GivesUp`, `AcquisitionEnds`, `ConnectingEnds`, `PhasesEnd`, `OpEnds`), which is beyond the
prover like `ENABLED`; and the fairness part of `ImplementsExchange`, whose safety part is
proved. What the pure modules compute is evaluated on bounded inputs.

## 5. Where the code and its documentation disagree

Shown by a run:

* `tracker_pursuit`: `GoingToSleep` starts a new cycle without waking the modem;
  if the last one used LoRa the modem is manually off, where `measureBattery`
  never succeeds.
* `lora_late_ack`: a LoRa exchange that is given up does not use up its number
  (`ExchangingLoRaMessages.cpp:248`), so an ACK that comes late passes `checkMessageIntegrity`
  (`Tracker.cpp:535`) in the next exchange, which ends without its report having arrived;
  `Tracker.h:267` promises "the correct ACK". What does hold is `ArrivalPerAck`.

Shown by a configuration that is not among the runs (`tlc -config MCTrackerRetry.cfg MCTracker`):

* `MCTrackerRetry.cfg` (`MCTracker`, `UnsentIsSaved`): a reloaded IMU report whose exchange fails keeps
  its status, for which `ExchangingMessages.cpp:231-239` has no branch; it is formatted and sent again
  for ever and never saved, though line 240 speaks of a message formatted "in order to be saved in
  memory". `CycleEndsOrWaits` has this one report as its exception, and no other status.
* `MCTrackerReload.cfg` (`MCTracker`, `LoadedAsSaved`): the stored text of a report with position and
  cell has one `%d` too few (`FormattingMessage.cpp:806`), so that a reloaded one has other inertial
  data, and its band points into a returned frame (`LoadingMessage.cpp:191`) until a restart;
  `LoadingMessage.h:100` says it parses them.
* `MCConnectionSlot.cfg` (`MCConnection`, `KeepsCard`): two answers to a repeated `AT+CPIN?` toggle the
  slot twice, from the one with the card back to the empty one (`ConsultingSIMCardStatus.cpp:89`),
  where `ConsultingSIMCardStatus.h:26` says it switches "if no SIM is detected".

Seen while reading or modelling, and part of the models where they have that state,
without a run of their own.

Reports and replies:

* After `SEND_OK` with no response read, the tracker goes on without counting the
  message (`ExchangingMessages.cpp:214`), though the server may have (`Tracker.h:338`).
* In silent mode the inertial data are those of an earlier wake-up
  (`GettingGNSSPosition.cpp:83`); `OneCycleReports` leaves them out for that kind.
* A copy of a stored text is cut at 1050 bytes before it is parsed, and `strtok` skips empty fields.
* A reply that cannot be decoded leaks four buffers (`JWTManager.cpp:151`); the payload of a
  token is printed into a buffer sized for 256 bytes.
* Handlers: `encryptedSize` takes stale bytes behind the terminator along; the decoder takes a
  last byte from 1 to 16 for padding; a base64 encoding that fails leaves the previous message
  and reports it processed, a decoding that fails goes on with a stale buffer; the verifier of a
  packet shorter than its HMAC underflows; NUL bytes of an HMAC become `'0'`, and its bytes may
  contain the delimiter `||`.

EEPROM:

* With no blank byte after the last string `popStringFromEEPROM` wraps and reads for ever
  (`EEPROMManager.cpp:151`; `EEPROMManager.h:70` promises a result), and a push into such a memory
  searches until the watchdog restarts. `OperationsEnd` leaves that state out.
* An interrupted `clearAll` leaves a stale tail (`EEPROMManager.cpp:106`): restarts
  inside `clearAll` and `pop` are therefore not among the `CrashPoints` of the run.

Waking up and time:

* The end of silent mode consumes the expiry the keep-alive would have woken by; a
  movement asks for the modem in a single call, and the modem needs many: neither wakes the tracker.
* The silent period is replaced by the keep-alive when the device stops
  (`Slepping.cpp:81`), and a keep-alive armed by an earlier stop may be found
  running or over (`Slepping.cpp:92`).
* The tick counter advances once per live delay every 10 ms (`Non_Blocking_Delay.cpp:30`;
  `Non_Blocking_Delay.h` says every 10 ms). Six delays live for good, so that a constant named
  `_MS` counts ticks of 1.67 ms, and of 1.43 ms while the LoRa or the sampling delay lives too. The
  counter has 64 bits and is read with the interrupt on.
* The keep-alive of the LOW latency uses the multiplier of VERY_LOW (`Tracker.cpp:435`): 20 hours
  where the comment of line 21 says 4. `HOUR_MS` is a test value of 3 minutes (line 29).
* `setSilentTimer` computes in `int` and overflows from 11,931 hours on (`Tracker.cpp:374`).

LoRa:

* A reception flag left from before makes the tracker read its own chunk out of the FIFO.
* The settings of the constructor (spreading factor 12, sync word, `Tracker.cpp:153`) are lost in
  the reset of the next `begin()` (`LoRa.cpp:81`); a `begin()` that fails is retried for ever
  (`ExchangingLoRaMessages.cpp:63`).

Cellular module:

* `watingForResponse` of `PostHTTP` outlives an exchange that gave up while it awaited a
  response, and the time-outs of the next count as success; `SuccessWasPosted` and `ReplyIsOwn`
  therefore speak of exchanges that found it unset.
* Within one HTTP exchange a late result lets the response of an earlier POST of
  the same exchange confirm; an empty response keeps `READING_DATA` and
  `DECODING_DATA` in a loop; the second line that answers the PDP query
  is taken for the answer to the next command.
* `DeactivatePDP.cpp:86` reads `transmissionWasASuccess` after its object was deleted.
* `readATResponse(string, size)` drops all it holds when a line exceeds 1023 characters, so that
  the rest passes for a line (`ATCommandHandler.cpp:100`).
* The attachment and the PDP context are confirmed by any OK: after a time-out the
  late OK of a repeated command confirms the next one (`AttachingToPacketService.cpp:90`).
  A pass resumed after a power-off goes on where it was, so a modem may be
  reported connected that was never attached since it was turned on. These are the
  conditions `~late` and `begun = wakeUp` of `ConnectedIsAttached`.
* `ConsultingAvailableOperators` and `RetrievingTimeAndDate` keep the line they
  retrieved over a time-out and over a power-off (lines 109 and 107), so a resumed
  pass may report data said in an earlier wake-up: `CellIsComplete` dates them
  from the beginning of the pass only.
* `IdleState` does not reset its attempts when it gives up, nor
  `CheckingSignalStrength` its weak signals: resumed, they
  give up at the first time-out or weak signal.
* A failed connection leaves its state object and the cell data (the reset at
  `CellularModule.cpp:62` is commented out): a later wake-up resumes in the middle and
  reports values measured before, where `CellularModule.h:124` promises current ones. It is
  why `CellIsComplete` speaks of the pass (`begun`) and not of the wake-up.

GNSS:

* `TurningOnGNSS` and `TurningOffGNSS` compare without `== 0` (`TurningOnGNSS.cpp:85`), so that any
  line but the expected error confirms, the echo of the command among them; neither bounds its
  attempts. When as many answers of a cycle are late as it has attempts, a position of one
  cycle is read in the next.

Power:

* `PowerONState::turnOff` keeps `readyToSend` and its retry count in static variables
  that the soft path does not reset (`PowerONState.cpp:234`): time-outs add up over
  wake-ups, and when they exceed the maximum the supply is cut although the modem
  answers, where the comment of line 272 speaks of "no response". The `readyToSend` of
  `measureBattery` stays false after a success: the next reading sends only after a time-out.
* `PowerONState.cpp:108` compares its count with `==`. The count is reset only when the
  modem is seen on, so that after a power-off was detected a modem that fails before
  `startStopUpdate()` sees it on is never noticed: with `EarlyFailures = TRUE` TLC
  finds `PhasesEnd` violated.
* A modem that comes up in the middle of a pulse leaves the key pressed until a later
  wake-up finishes the pulse (`ManualPowerOFFState.cpp:128`, `PowerOFFState.cpp:45`).
* `POWERED DOWN` left unread by a wake-up in which the modem was cut off passes for the
  answer of a later one (`PowerONState.cpp:261`), which then cuts off a running modem.
* With the supply cut, the button of `ManualPowerOFFState` cannot start the modem:
  only `turnOn()` restores the supply (`ManualPowerOFFState.cpp:52` and 134).
* `startStopUpdate()` writes `status` after the object was deleted
  (`PowerOFFState.cpp:53`, `PowerONState.cpp:114`).

Inertial sensor:

* A sensor that is not found leaves a null SHTP instance which the next call follows
  (`CalibratingInertialSensor.h:39`); the instance is never freed, so that a later `sh2_open` fails.
* After a reset of the hub only the stability report is enabled again (`Adafruit_BNO08x.cpp:339`).
  `_reset_occurred` is already set by `sh2_open`: the first `checkStability()` sets the interval
  a second time.
* A write refused during the initialization leaves `_sensor_value` null; an event that comes
  then is written through it.
* A reset or a lost transfer during an operation hangs it, and the program, until the watchdog;
  a reset of the hub while the samples are gathered leaves `obtainInertialMeasures()` waiting for ever.
* After a reset of the hub, whose numbers begin anew, four lost transfers can leave a payload with
  fragments of two cargos (`shtp.c:592`; `FewLost` in section 4).
* The answer that a flash record is empty sets the result of `getFrs` and goes on to the check of its
  offset, which may set another one (`sh2.c:971-992`).
* The tail of a cargo whose beginning was lost is handed on as a payload; `getFrs` ends with
  `SH2_OK` after a gap before its last report; of several reports in a cargo only the last is kept.
* `sh2_finishCal` never writes its `status`; the counter of motion is not reset by rest.

## 6. What remains

The reports come first because a lost, duplicated or mixed-up report is the worst
the program can do; then what wakes the tracker, the two ways to send, and the
peripherals in the order a wake-up uses them. What could be added:

* the driver's metadata records, gyroscope channel and time stamps;
* `Connection`, `HTTPSession`, `GNSSSession` and `PowerManager` on one serial line: each now
  stands for the others with lines that are left, read or lost.

Not modelled:

* `ActivatePDP`, `CreateSocket`, `Sending`, `Receiving`, `CloseSocket`: `enableTransceiver()` enables the
  HTTP session only, so that nothing reaches the TCP states.
* `SleepState` and `PowerONState::goToSleep()`, `Encrypter` and `Decrypter`, the driver functions of the
  LoRa radio the program does not call: no caller.
* AES, SHA-256, base64 and the decoding of sensor values: computations without state, whose
  strength or numbers no property here is about; a cipher or a signature is a token that fits
  what it was made of.
* `Debugger` and `timeStampTools`: logging, and a date converted to seconds.
* I2C, SPI and UART electrical behaviour and timing: a transfer succeeds, fails or is lost as a whole.
