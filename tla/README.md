# A TLA+ model of the Relacon firmware

Relacon-FW is the firmware of a USB relay board that speaks the ontrak ADU
protocol: eight relays, eight digital inputs with debounced event counters, and
a watchdog that opens all relays when the host falls silent. It is one C program
for an STM32F0: a main loop of three tasks that never blocks, a hardware timer
that wraps, a USB stack that delivers requests from interrupts, and input lines
that move when they like. Each function is a few lines long. What is hard is
what happens between them: a 32-bit timer that comes round every 71 minutes, a
setting that changes while a time is running, a response nobody collected.

The modules here model that program from power-up on, the configurations check it
with TLC on small instances, and the `*Proofs` modules prove what matters most of
it for every value of their constants.

## The system

| Part | Source | State | Operations |
|---|---|---|---|
| Main loop | `src/Main.c` | the task it is in | `UsbTask`, `EventCounterTask`, `WatchdogTask` in turn for ever |
| Watchdog | `src/Watchdog.c` | time of the last kick, period (0 = disabled) | Init, Task, Kick, TimeoutSet, TimeoutGet |
| Event counters | `src/EventCounter.c` | for each line: state, time of the rising edge, 16-bit count; one debounce time | Init, Task, Read (and reset), DebounceTimeSet/Get |
| Command parser | `src/AduProtocol.c` 107-128, 231-767 | none | table of prefixes, argument checks |
| Command processor | `src/AduProtocol.c` | response buffer and its length | ProcessCommand, GetResponse, twelve handlers |
| USB glue | `src/Usb.c` | none; the stack holds the endpoints | set-report, get-report and set-idle callbacks, Init, Task |
| Board | `src/boards/Relacon_rev1/Board.c` | timer, relay port, two banks of inputs | bring the board up, read the timer, read and write the ports |
| USB descriptors | `src/UsbDescriptors.c` | one scratch buffer | device, configuration, report and string callbacks |
| DFU image builder | `tools/mkdfu.py` | none | builds a file |

How they interact. The USB stack queues a report in an interrupt; `UsbTask`
hands it to `tud_hid_set_report_cb`, which calls `AduProtocolProcessCommand`.
The handler it selects reads or writes the relays, the counters or the
watchdog's period, leaves a response in the buffer, and every command, good or
bad, ends in `WatchdogKick`. If the command succeeded and left a response, the
callback gives it to the IN endpoint, which may still be busy with the one
before. `GET_REPORT` reads the buffer itself. The counters' task samples the
timer and then the lines; the watchdog's task may disarm the watchdog and open
the relays. Before all this, `main()` brings up clocks, pins and timer, each of
which may fail for good, and only then the USB stack, which fetches the tables of
`UsbDescriptors.c` for the host to enumerate the device. There are no locks: what
protects the state is that all of it is touched from the main loop only.

What makes each part correct:

- *Watchdog*: after a silence longer than the period the host last left (plus
  one turn of the loop) no relay is closed; without such a silence neither the
  relays nor the period change; whatever the timer does.
- *Event counters*: a bounce is never counted as a second event, an event after
  a clean release is never missed, and a released line is ready again.
- *Parser*: each documented command is understood, and nothing else acts.
- *Processor and USB*: the response in the endpoint is that of the last command;
  relays close only by a command that names them; no count is lost on its way.
- *Main loop*: requests are handled and silence is noticed, for ever.
- *Board*: no host sees a board whose start has failed or is not over.
- *USB descriptors*: a host that persists learns all it needs; a string arrives
  whole, though all share one buffer that outlives the callback.

The hazards behind these are listed in `PROJECT.json`, each at the line where it
bites. The firmware keeps nothing across a reset, so there is no crash recovery
to get right.

## Modules

| Module | Models |
|---|---|
| `Board`, `BoardRelays`, `BoardInputs` | the timer and its arithmetic, the relay port, the two banks of input lines |
| `BoardStart` | `BoardInit` and the calls of `main()` before its loop |
| `Sizes` | the sizes on which four source files have to agree |
| `DeadMansSwitch` | the watchdog's promise with no timer in it |
| `Watchdog` | `Watchdog.c`, and the refinement of the switch |
| `EventCounter` | `EventCounter.c` |
| `AduCommand` | how a text becomes a command: the handler table, `strtoul`, the argument checks |
| `AduReport` | how a report becomes a text, over a buffer that keeps what earlier reports left |
| `AduManual` | the commands as the handlers' comments document them, and a host that types |
| `AduProtocol` | the handlers, the response buffer, the kick; extends the three above |
| `Usb` | `Usb.c`, with the stack's endpoints and the host; extends `AduProtocol` |
| `Relacon` | `Main.c`: the whole firmware, its host, its lines and its timer |
| `UsbDescriptors` | the tables and callbacks of `UsbDescriptors.c`, and their scratch buffer |
| `Enumeration` | power-up to a configured device: `BoardStart`, `UsbDescriptors`, the stack's control transfers and the host |
| `BoardProofs`, `WatchdogProofs`, `EventCounterProofs`, `AduCommandProofs`, `ManualProofs`, `RelaconProofs`, `ResponseProofs`, `EnumerationProofs` | theorems |
| `MC*` | constants for TLC |

`Watchdog` and `EventCounter` are specifications of their own, with a
`WatchdogCommand` and a `CounterCommand` that stand for whatever the rest of the
firmware may do to them. `Relacon` does not reuse those; it composes the real
handlers, and `ImplementsWatchdog` and `ImplementsCounters` say that every step
of the composition is one the component's specification allows. So what is
checked and proved of a component holds in the firmware.

Correspondence with the code:

- Functions keep their names. A C function that runs to its end in the main loop
  is one action, for interrupts touch none of its state; `EventCounterTask` is
  three (`EventCounterTaskStart` reads the timer, `EventCounterTaskReadBank1` the
  first port, `EventCounterTask` the second, and runs the loop), because time and
  lines move between the reads. A handler that reads the lines is still one
  action, in which the lines may move between its two reads (`DigitalInputsRead`).
- `uint32_t` times are `0 .. TimerMod - 1` and subtraction is modulo `TimerMod`;
  counts are modulo `CountMod`. A port's byte is the set of its bits that are
  one. `ResponseBuf` is the part of the buffer below `ResponseBufLen`.
- A text is the characters before its NUL. In `AduReport` a report is laid over a
  memory that ends in a NUL somewhere: `strnlen` sees the report's length,
  the handlers see the text up to the NUL, and the length of an empty report wraps.
- `BoardStart` keeps of the clocks, pins and peripherals whether they are on: a call
  of the HAL that returns a status may fail, and the board then spins for ever; a
  port or a timer without a clock ignores what is written to it. `tusb_init` may fail
  too, but its result is not looked at (`Usb.c:147`): the main loop then runs on a board
  that no host can see.
- `GET_REPORT` for another type or report is a request of its own (`OtherGetReport`),
  which the callback refuses. A report on the IN endpoint is cut to the bytes it has
  beside its ID (`tud_hid_report`).
- A descriptor is a record of the fields a host acts on; `wTotalLength` decides
  which of its parts arrive. A string goes out in packets, each read from the
  scratch buffer when it is sent, long after the callback returned.
- `UlongMod` stands for 2^32, which TLC cannot represent; the assumption on it says
  when this makes no difference.
- `BoardDebugPrint` is left out: it is empty in a release build.
- History variables are marked as such in each module and no action of the code
  reads them: `silence`, `granted` and the lags, the counters' `age`,
  `shortest`, `longest` and `released`, `lastCommand` and `lastReply`, and the
  ledger of events `edges` and `received`. In `AduProtocol` the silence of the host ends
  with each command it sends, handled or not (`HostSpeaks`), while `WatchdogKick` sets
  only what the code sets: a command that forgot the kick, an unknown or over-long one
  included, would be a step that `ImplementsWatchdog` does not allow.
- `released` says whether a pass has read the line low since its last event and
  after its window, given that the clock and both banks are read at three moments:
  `"Surely"`, `"Maybe"` or `"No"`. Correctness is two-sided: `"No"` must not be
  counted, `"Surely"` must be.

## What is checked

| Run | Question |
|---|---|
| `watchdog` | Does the watchdog open the relays of a silent host in time, and only those? Does it implement `DeadMansSwitch`? Is silence always noticed? |
| `event_counter` | Is every count an event and every event a count, over wraps, changes of the debounce time, skewed reads and lines of either bank? Is a released line always ready again? |
| `command_grammar` | Is each documented text obeyed, does any other text act, and does a report act as sent whatever the buffer held before it? |
| `firmware_relays` | The whole firmware under relay, watchdog, unknown and over-long commands and control requests: relays close only by name, responses belong to the last command, settings can be read, a host that was told a watchdog period, be it after a trip and a late command, can rely on it, the watchdog's specification is implemented. |
| `firmware_counters` | The whole firmware under counter and debounce commands: the ledger of events balances, the counters' specification is implemented. |
| `firmware_progress` | With an impatient host and bus resets: every request is handled, silence is noticed. |
| `enumeration` | From power-up, with failing clocks and a host that gives up, resets and asks for anything: does only a ready board answer, does every string arrive whole, is the device configured in the end, and do its reports then fit? |

Every property has a mutant, an operator beside the one it breaks (`..._OffByOne`,
`..._Dropped`), under which the run fails.

Five runs show the code doing something else than its comments say:

| Run | What happens |
|---|---|
| `long_command` | A command of more than five characters returns before the response is cleared (`AduProtocol.c:734`, 741), so `GET_REPORT` returns the response of the command before. |
| `get_report` | `GET_REPORT` passes `sizeof(reqlen)` as the size of the buffer (`Usb.c:60`): two digits of each response. |
| `unread_response` | When the IN endpoint is busy the new response is dropped and the old one stays (`Usb.c:139`); `AduProtocol.h:48-50` says the reverse. |
| `failed_command` | `WDn` sets the period and returns failure (`AduProtocol.c:649-654`). |
| `lax_settings` | `DBx` and `WDx`, with `x` any character that is no digit, select setting 0 (`AduProtocol.c:601`, 649): `WDx` disarms the watchdog. |

### Bounds

`TimerMod` is 8 for the components alone and 3 or 4 for the whole firmware. What
matters is that the timer wraps while a watchdog is armed or a line settles, and
that a period plus a turn of the loop is just below a turn of the timer
(`WatchdogAssumption`, `EventCounterAssumption`); both happen at every start
value of the timer. On the board the longest period is 60 s against a turn of
4295 s.

`MaxLag` bounds the ticks between two runs of one task, `MaxSkew` the ticks
between the two reads of a pass over the counters. They are the one assumption
about speed: without it the comparison at `Watchdog.c:55` would be wrong, as a
loop slower than the timer could skip over the timeout.

Relays: two (a command names one and leaves the other). Lines: one, for lines do
not interact: in `event_counter` a line of bank 1, whose value is held while time
passes, in `firmware_counters` one of bank 2; the proofs are about any number of
lines in either. `CountMod` is 3. The texts of the
firmware runs cover every handler that changes state, one of each kind that
reads, an unknown command and one that is too long; `command_grammar` covers the
rest, with the board's own limits and the characters on both sides of each. In
the firmware runs the host sends at most one request a tick (`sent`), and
`CollectsFirst` tells a host that collects each response before it sends again
from one that does not. `silence` and `age` stop at `TimerMod`.

`enumeration` has the board's own tables: strings of 12, 24, 30 and 23 characters, a
serial number of 40, which has to be cut, the buffer of 32 words, packets of eight
bytes, and hosts that ask for two bytes (the length) or 255 (the whole), for every
index up to one that does not exist and for both a right and a wrong language and
configuration number. The characters of each string tell it and its place apart.

`Memories` in `command_grammar` are a buffer with an earlier command in it, and one
that an earlier report filled so that the first NUL is behind it.

Every run but `enumeration` checks for deadlock: the main loop always has a step.
There the board may hang on its way up, which is a state with no step.

### Fairness

`WatchdogFairSpec`, `CounterFairSpec` and `FairSpec` are weakly fair to the tasks
of the main loop, which has no blocking call and no exit (`Main.c:43-49`). The
timer is hardware: `FairSpec` makes `Tick` strongly fair, for its guards are the
bounds above, which the timer does not know of. Nothing is assumed of the host,
the lines or the bus.

In `enumeration`, `StartUp` and `Answer` are weakly fair, for `main()` goes on.
`HostProceeds`, which asks for what a host needs next, is strongly fair: it stands
for a host that wants the device, whatever else it asks for in between. The property
assumes of it besides that it stops giving up and resetting; a device cannot be
configured by a host that never waits. And it lets the start end without a device:
`main()` may hang in a call that fails, or reach its loop with no USB stack.

The fairness of `UsbTask` with the bound on `sent` says that a host does not
deliver requests faster than the task drains them. On the board the endpoint's
interval of 10 ms (`UsbDescriptors.c:192`) against a few microseconds a command
justifies this.

## What is proved

For all values of the constants that satisfy the named assumptions
(`BoardAssumption`, `RelaysAssumption`, `InputsAssumption`, `WatchdogAssumption`,
`EventCounterAssumption`, `AduCommandAssumption`, `AduManualAssumption`,
`AduProtocolAssumption`, `UsbAssumption`, `UsbDescriptorsAssumption`), with no bound on
the number of steps, every invariant and every action property that a passing run
checks, the three refinements included:

- `WatchdogProofs`. `WatchdogInv` is inductive given the types: while armed, the
  difference of the two readings modulo `TimerMod` *is* the real silence, which
  stays below the period plus the lag and so below a turn of the timer; while
  disarmed, either the host left no period or the relays are open. The promise
  (`SilenceOpensRelays`), its converse (`TripsAreDeserved`) and the refinement of
  `DeadMansSwitch` (`WatchdogIsASwitch`) follow from it. The promise alone is not
  inductive: it says nothing of the kick.
- `EventCounterProofs`. `EventCounterInv` is inductive given the types: a settling
  counter's reading lags the real time since the event by no more than the skew
  and never comes round, the debounce time stays between the least and the
  greatest in force since the event, and the state agrees with what the passes
  have read. `EventsAreDebounced` and `EventsAreNotMissed` follow.
- `BoardProofs`. The facts about modular subtraction both use.
- `AduCommandProofs`. What the parser's operators return: the entry that is found is
  the first that matches, and it is the one the letters name, `RPK` before `RP`
  (`MatchingEntries`, `EntryIsNamed`); the first NUL ends a text; what `strtoul`
  converts is its digits behind white space and a sign (`Conversion`,
  `DigitsConvert`, `ConvertedSuffix`). The value is a fold over the text, which no
  induction is needed for: at most three characters reach `strtoul`, so it is
  unrolled for each length (`NumberIsSum`), and what holds at any length, such as
  where the digits begin and end, is shown by a least counterexample (`LeastIsThere`).
- `ManualProofs`, for whatever characters the host has and whatever memory lies behind
  a report, so long as no key types a NUL and one lies behind the buffer
  (`AduManualAssumption`; without one, `strncasecmp` and the handlers would run on).
  `TextInv` is inductive: a text is made of typed characters and fits a report.
  `ManualIsAlwaysObeyed`: each documented text, in any mixture of cases, has
  the meaning its handler's comment gives it, by one lemma a kind (`BarePrefixIsObeyed`,
  `NumberedIsObeyed`, `PortIsObeyed`, ...). `NothingElseEverActs`: what acts without
  being documented is a relay port value that is empty or has white space or a sign
  before its digits, or a `DB` or `WD` with one character that is no digit, which selects
  setting 0; it goes through the handlers one by one (`UndocumentedText`). `ReportsAreTakenAsSent`: a
  report that is full or terminated acts as the text in it, because every text too
  long for its NUL to fit is also too long for any handler (`LongTextsAreInvalid`).
- `RelaconProofs`. For every set of texts a host may send, each step of the firmware
  is a step of the watchdog's specification and of the counters' or leaves their
  variables alone (`FirmwareImplementsWatchdog`, `FirmwareImplementsCounters`), so
  that the theorems above hold of the firmware (`FirmwareOpensRelays`,
  `FirmwareCountsEvents`). The invariant they need, `RelaconInv`, says that no command
  runs during a pass over the counters. The step from a text to a number in range
  needs only what the handlers test, not what `strtoul` computes. Besides:
  `RelaysAreCommanded`, that only a command naming a relay closes it, and
  `QueriesAreAnswered`, by `SettingsInv`: the times in force are those of some entry.
  `AnsweredPeriodsHold` is for at most ten settings, which one digit tells apart: by
  `AnswerInv`, a period that a host was told is the one its last command left.
- `ResponseProofs`, for a host that collects each response before it sends again
  (`CollectsFirst`) and at most seven lines a port (`INPUT_PORT_NUM_PINS` is 4 on the
  board; a report has seven bytes beside its ID). `PairingInv` is inductive: one request
  or one response is under way at a time, and a response is that of the last command,
  for each handler that succeeds has written its own and all of it fits
  (`SuccessLeavesResponse`, `ResponsesFit`). `ResponsesAreCurrent` follows. With
  counters of at most five digits (`CountMod` up to 100000; 65536 on the board)
  `LedgerInv` is inductive too: a read-and-reset moves a count into the endpoint and
  its digits stand for it (`CallbackMovesCount`, `DigitsStandForCount`), a pass adds
  to the ledger and a counter alike, and a collection moves the number on;
  `EventsAreAccountedFor` follows. It needs `PairingInv`, for a response that finds the
  endpoint busy would take its count with it.
- `EnumerationProofs`, for every table of strings and every buffer of up to 127 words
  (beyond which the length byte wraps). `TransferInv` is inductive: while a
  string is under way the buffer holds it, for no callback runs before another
  request, and what has been sent are its first words; `StringsAreRight` follows.
  `StartInv` is inductive too: what each call of `main()` leaves behind stays, and none
  is reached unless those before it returned; `ReadyBoardsAttach` follows. It rests
  on the order of the calls, which `CallsInOrder` reads off `BoardInit` and `Main`.
  `HostInv` is inductive: what a host knows is what the tables say, an interface,
  its reports and its endpoints are known only with the whole configuration, and no
  string is refused that the table has. It needs the length
  of the configuration to be that of its parts (`PartsAddUp`, over a fold of the
  parts). `EnumeratedHostsCanTalk` follows, and `NamedStringsAreThere` for every table
  with more than five strings: this hypothesis is the hazard itself, for the table
  (`UsbDescriptors.c:219-227`) and the indices are kept in step by hand. `BufferInv`
  is inductive given `TransferInv`: what is promised of a string, its header included,
  fits the buffer; the type invariant (`EnumerationTypeCorrect`) follows.

Only model-checked: liveness under fairness (`SilenceIsNoticed`, `Rearmed`,
`RequestsAreHandled`, `EnumerationCompletes`), which is out of the prover's reach; and
the five disagreements with comments and documents, which are counterexamples.

## What is not modelled

- `tools/mkdfu.py`: a sequential script of the build, which shares no state with the
  firmware; a test reaches what it does.
- `stm32f0xx_hal_conf.h`, the linker script and the Makefile: compile-time switches.
- The debug UART of builds with `ENABLE_UART_DEBUG`, and with it the length that
  `BoardDebugPrint` transmits.
- The interrupt handlers, which only call the HAL and the stack; TinyUSB below its
  callbacks, but for the control transfers in `Enumeration`.
- A report that fills no buffer and has no NUL: the stack leaves old bytes behind it,
  and what the handlers read then is what they find. `ReportsActAsSent` is about
  reports that are full or terminated, which the ADU protocol's reports are.
- The copy past the size it was given in `AduProtocolGetResponse`, which copies as many
  bytes as the response has (`AduProtocol.c:773`). A caller gets the
  lesser of both lengths, and the buffer of either has room for any response.
- Two requests under way in `ResponsesMatchCommands` and `EventsAccountedFor`, which are
  about a host that collects first; `unread_response` shows what happens to another.
- `tud_hid_set_idle_cb`, which refuses every request and changes nothing.
- White space other than blank and tab in `strtoul`.

## Plan

1. Done: the components (`Board*`, `Watchdog`, `DeadMansSwitch`, `EventCounter`,
   `AduCommand`, `AduReport`, `AduManual`, `AduProtocol`, `Usb`, `UsbDescriptors`), their
   compositions (`Relacon`, `Enumeration`), the proofs of the components, that the
   firmware implements them, of the responses and the ledger of events, of the grammar
   and the reports, of the start, the transfers, the tables and the host.
2. Extend: an abstract debouncer that `EventCounter` implements; a device that is
   configured again while commands are under way, which joins `Enumeration` and `Usb`.
3. Prove: the debouncer's refinement, and the safety half of `EnumerationCompletes`.
