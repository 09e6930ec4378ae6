# Verification of the Xiao BLE nRF52840 applications

This directory holds TLA+ models of the programs in this repository, the TLC
configurations that check them, and proofs that TLAPS checks. It is meant to be
read beside the sources.

The repository is a collection of independent Zephyr programs and sensor
drivers for one board; no program calls another. The ones with concurrency and
state worth a model are the USB programs under `013.usb`. The richest of them,
`usb_hid_cdc`, is modelled completely; the two serial-port samples and the
periodic HID report follow. The other models are of the sensor drivers
`bme680`, `bme280`, `lps22hb` and `max30208`, of the storage programs
`littlefs` and `flash_sam_2`, of the clocks and alarms on the RTC counter, and
of the two programs that read lines through a ring buffer.

## Inventory

| Part | State it keeps | Operations and interaction | What is hard, what must be right |
|---|---|---|---|
| `usb_hid_cdc`: event pool, FIFO, `evt_sem` | heap of event blocks, FIFO, binary semaphore | the GPIO interrupt, the CDC handlers on the USB work queue and main itself allocate, queue and give; main takes | three contexts interleave; no wake-up lost, no block lost, order kept, what happens when the pool is empty |
| `usb_hid_cdc`: application | `usb_sem`, two HID endpoints, `string`, `str_pointer` | main handles 13 events; the host polls; the keyboard handler replaces the string while main types it | every press released, the string typed back, main never blocked for ever |
| `usb_hid_cdc`: CDC ports | two line buffers, `data_transmitted`, the driver's FIFOs | handlers cut reads into lines; `write_data` hands texts over | arbitrary cuts of the input; a flag shared by two ports |
| `usb_cdc_acm` | ring buffer, throttle, interrupt enables | one handler moves bytes both ways | the throttle must be lifted, nothing lost or reordered |
| `usb_cdc_acm_composite` | two rings, wiring | one handler serves both ports | crosswise wiring, one port wakes the other, drops |
| `usb_hid` | busy bit, timer, work item, configured flag | timer interrupt, work queue, USB callbacks | recovery after a failed write or a bus reset |
| `max30208` | sensor registers and FIFO, `skin_temperature` | I2C register access, FIFO reading, alarms | error codes narrowed to `uint8_t`, partial failures |
| `bme680`, `bme280`, `lps22hb` | calibration, last sample, SPI page cache, power state | fetch, get, init, power management | stale page cache, integer widths, order of trigger and read |
| `littlefs` | two files | one run per boot | power loss between steps, counter wrap |
| `flash_sam_2` | flash sectors | erase, check, write, read back | a chip that ignores a command without an error |
| `rtc` alarms and clock | counter, alarm, displayed time | alarm interrupt, main loop | 24-bit wrap, skipped seconds |
| `pwm_ring_buf`, `ring_buffer` | line buffer, ring, the buffer behind it | one loop polls the UART | old bytes behind a short line |
| `usb_mass`, `fs_sample`, `watchdog`, `uart`, `spi`, `pwm`, `bt`, `rtos`, `aes`, `adc`, `i2c` programs, LEDs | little or none | linear or one loop | mostly library calls; see "Not modelled" |

`PROJECT.json` lists every part with its files, modelled or not, and under
`hazards` the lines where something can go wrong that a test would hardly reach.

## Modules

| Module | Models | Uses |
|---|---|---|
| `EventQueue` | what the event FIFO promises: one event at a time, in order, none dropped before the fault | |
| `HidEvents` | pool, FIFO, `evt_sem`, the raising of events in three contexts, main's loop | refines `EventQueue` |
| `HidCdc` | every handler of main, endpoints, host, string | EXTENDS `HidEvents`; each step is one of its steps or leaves it alone |
| `CdcPorts` | the two CDC receive handlers and `write_data` | stands before `HidCdc`'s `Stimulus` and inside its `WriteText` |
| `ByteChannel` | what an echoing port promises | |
| `CdcEcho` | `usb_cdc_acm` | refines `ByteChannel` |
| `CdcBridge` | `usb_cdc_acm_composite` | |
| `HidKeymap` | the key table of `usb_hid_cdc` against the US layout | gives `HidCdc` its constants in `MCHidCdc` |
| `UsbHid` | `usb_hid`: timer, work item, busy bit, bus status | |
| `Bme680` | the `bme680` driver: start-up, fetch, memory pages on SPI, resets | |
| `Bme680Calc` | the driver's arithmetic: heater and gas codes, channel values | |
| `Bme280` | the `bme280` driver: start-up, power management, forced and normal mode | |
| `SensorValues` | the values that `bme280` and `lps22hb` hand out | EXTENDS `Bme680Calc` |
| `LittleFs` | the boot counter and the pattern file of `littlefs` | |
| `Max30208` | `max30208_zephyr_nordic`: the driver's calls, main's loop, the chip's FIFO | |
| `RtcClock` | `alarm`, `alarm_2` and `set_time` of `008.rtc(count)` | |
| `SerialLine` | `pwm_ring_buf` and `ring_buffer` | |
| `FlashTest` | `flash_sam_2` | |
| `HidEventsProofs`, `HidCdcProofs`, `CdcPortsProofs`, `CdcEchoProofs`, `CdcBridgeProofs`, `Max30208Proofs` | theorems | EXTEND their module; `HidCdcProofs` also `HidKeymap` |
| `BmeProofs` | theorems about the Bosch and ST sensors | EXTENDS `Bme680`, `Bme280`, `SensorValues`, which share nothing |
| `ProgramsProofs` | theorems about five small programs | EXTENDS `UsbHid`, `FlashTest`, `RtcClock`, `SerialLine`, `LittleFs`, which share nothing |
| `MCSensors`, `MCPrograms` | one of three sensors, one of five programs | EXTEND models that share nothing, one of which runs |
| other `MC*` | instances for TLC | EXTEND their module |

### From the code to the model

*Contexts.* `HidEvents` has a program counter per context (`step`) and the
kernel's rule in `Runs`: the GPIO interrupt stops anything, the USB work queue
(a cooperative thread) stops main, and nothing stops what is above it. A raise
is split at the calls other contexts can get between: `Alloc`
(`k_heap_alloc`), `FlushGet`/`FlushFree`/`FlushEnd`/`Retry` (the failure branch
of `app_evt_alloc`), `Put` and `Give`. `Halted` is the write through NULL that
follows a failed `app_evt_alloc`: no caller tests the result, and
`CONFIG_ASSERT` is off, so `__ASSERT_NO_MSG` does nothing.

*Handlers.* `HidCdc` walks main through the handler of the current event with
`at`; each access of `string`, each `k_sem_take(&usb_sem)`, each
`hid_int_ep_write` and each text is a step of its own, because an interrupt or
the host may come in between. Reports are classes: zero, active (moves or
presses), caps, or a key with or without SHIFT. Reading behind the end of the
buffer yields any character. `typed` and `wanted` are history variables: what
the host has seen typed, and what button 2 asked for.

*Ports.* In `CdcPorts` the driver hands bytes over in any cut. `ReadChunk` is
one turn of the reading loop of either handler; the handler runs to its end
before main goes on. Texts that main writes are only counted.

*Serial samples.* `CdcEcho` and `CdcBridge` step through `interrupt_handler`;
bytes arrive and leave between any two steps, which includes every behaviour of
a driver that calls the handler less eagerly. The driver is external: it is
modelled from how the sources use `uart_fifo_read`, `uart_fifo_fill`,
`uart_irq_*_ready` and the enables.

*Periodic report.* `UsbHid` splits `send_report` at the write, because the timer
interrupt may come there; the USB callbacks may not, both work queues being
cooperative threads. The bus has its own state, ahead of `configured`, the
program's copy: a reset happens on the wire before `status_cb` hears of it, and
the driver may accept a report in between. A host may configure the device
twice without a reset, poll, reset or leave at any moment; a write may fail at
any time. `main` has three ends. When `usb_hid_init` or `usb_enable` fails
(`up = "timer"`), the timer started before them goes on and submits a work item
that `k_work_init` has not seen; the work queue then calls a null handler
(`CallNull`) and the kernel stops. A start that succeeds is taken to be shorter
than the first period of two seconds, and than the time a host needs to
configure the device.

*Key table.* `HidKeymap` has `ascii_to_hid` and `needs_shift`, grouped by key,
and the US layout that a host reads keys with. `MCHidCdc` computes `KeyOf` and
`Shifted` from them.

*Sensors.* `Bme680` gives each public function the list of registers it accesses
(`InitScript`, `FetchScript`) and performs one access per step. On SPI an
access compares the page of the register with `mem_page`, and switches the
page of the chip when they differ; the switch may fail like any other access.
A reset of the processor zeroes `mem_page` and leaves the chip as it is. What
the registers hold is not modelled: a sample is the measurement it was read
from. The compensation formulas are abstracted to the fields and the `t_fine`
they read. `Bme680Calc` translates the arithmetic around them, with unbounded
integers where the code uses 64 bits.

`Bme280` is built the same way, one register of a script per step. The three
calls that reach the chip are `bme280_chip_init` at boot, `bme280_pm_action`,
and `bme280_sample_fetch`. On SPI the driver reads a sample byte by byte, so
`ReadSample` takes a step per byte there and one step on I2C; `buf` collects
the measurements the bytes come from and `comp` is what the compensated values
were made of. The chip is external: it sleeps, measures once or again and
again, and copies its calibration after a reset. So is the kernel's power
management, which remembers only actions that succeeded; a write that fails
may have reached the chip all the same. A read of the calibration that fails
half-way is taken to change nothing: in a call that resumes the device the
bytes it did read are those it had. One thread calls the driver; a second one
could suspend the device inside `bme280_wait_until_ready`, which sleeps.

`Max30208` gives each of the twelve calls of `max30208.h` its script too. A
transfer that fails may have reached the chip, and the driver often does not
see the failure: `read_register` and `write_register` return -1 as a `uint8_t`,
and a caller that keeps the 255 in an `int` and tests `ret < 0` goes on. `Noticed`
lists the accesses whose error does end the call, because the test is for
`ret != 0` or the variable is an `int8_t`; `Deaf` lists the calls that notice
none. Values are classes: measured after main asked ("new") or before ("old").
`MAX30208_GetRawData`, which no one calls in `src/`, counts its samples first and
so has actions of its own. The program does not compile as committed: the
driver uses `max30208`, and `main.c:67` uses `flag`, and neither is declared.
The model takes the declarations that fit their use as given.

*Files.* `LittleFs` takes one step per call of the file system, every one of
which may fail, with a power loss possible between any two. The file system is
external. It is assumed to do what littlefs promises: creating a file is
permanent at once, a write becomes permanent when the file is closed and as a
whole, and a close that reports an error may have committed or not. That the
pattern is never torn rests on this assumption as much as on the program.

*Flash.* `FlashTest` has both tests of `flash_sam_2`, one step per call of the
flash driver, with every return. Of the four bytes of a sector it knows whether
they are blank, the expected ones, or others, and whether those begin with
0xff, which is all that `multi_sector_test` looks at. The flash holds anything
to begin with and may ignore an erase or a write without an error.

*Clocks.* `RtcClock` counts in seconds. `Second` is the counter with its wrap at
512 s (24 bits at 32768 Hz); `Set` is `counter_set_channel_alarm`, which takes no
delay beyond that. `print_date_time` samples the counter at least once in
`Late` seconds, because printing adds to the sleep of one second.

*Lines.* `SerialLine` follows a byte from the UART through `data_write` and the
ring into `data_read`. `data_read` begins with what the memory held, and no one
clears it; `used` is the string, up to the first terminator, that sets the LED or is
printed. The first `uart_fifo_read` of a line stands before the loop and drops
what it takes.

Not modelled inside these programs: report coordinates, wording of the texts,
logging, and the alternative USB stack's set-up code, which is compiled out.
The failure returns at start-up have no actions of their own, except in `UsbHid`
and where a driver's initialisation may fail. In the serial samples they come
before the interrupt handler is set, so that nothing runs after them. In
`usb_hid_cdc` they come after the first buttons are live, whose events nobody
takes then: for `HidEvents` that is a main that stays in `"init"`, which no
fairness forbids.

## Runs

| Run | Asks | Bounds and why they are enough |
|---|---|---|
| `hid_events` | is the event machinery an `EventQueue`; wake-ups, blocks, exhaustion; is an event taken if handlers end | three blocks are as many as there are contexts that can hold one; stimuli are unbounded, so the pool runs out at every point |
| `hid_cdc` | does `usb_sem` guard the endpoints, is every press released, is the string read inside its buffer | one mouse button, CAPS LOCK, button 2 twice, one string that fills its buffer, one absence of the host at any moment |
| `hid_type` | is the string typed back, does the device come to rest | a string with a shifted, an unsupported and a repeated (not adjacent) character, sent twice |
| `cdc_ports` | what do the handlers make of any cut of the input, does `write_data` end | two-byte buffers: full, overflowing, and one byte short of it all occur; a driver that takes half an answer |
| `cdc_echo` | is the sample a `ByteChannel` | seven bytes against a ring of three, moved by two: the throttle is reached and left again |
| `cdc_bridge` | are the ports wired crosswise, does every byte end somewhere | rings of two, a driver of one byte: drops at both places |
| `sensors` | `max30208`: is a reading newer than the request, does `GetRawData` end with the newest sample, is an absent chip noticed; `bme680`: is every access on the right page, is a sample of one measurement, does a fetch find a new one; `bme280`: the same of a sample, and is a device that the kernel takes for active set up | a board has one of the three; a FIFO of three entries for `max30208`: empty, full, and one between; four measurement ids for `bme680`, each place that keeps one and a free one, and three for `bme280`; both buses, both modes, with and without humidity; errors, resets and measurements are unbounded |
| `programs` | one of five programs. `usb_hid`: does the busy bit guard the endpoint, do reports flow again after any trouble; `littlefs`: is the pattern ever torn, does a boot count once; `rtc`: does the printed clock go forward; `SerialLine`: is the LED set to the line that was typed; `flash_sam_2`: what does "Good!!" mean | reports of three values; a pattern of ten bytes of four values: two places that count, and every byte wraps; the real span of 512 s and minute of 60 s, with a day of three hours of three minutes and readings up to three seconds apart, so that every carry and the wrap of the counter come in every order; lines of at most two digits and two waiting bytes: a shorter line after a longer one, and a line that was typed ahead; two sectors. Hosts, boots, failures, time and lines are unbounded |
| `hid_double_letter`, `hid_string_replaced`, `hid_host_away`, `rtc_alarm` | disagreements of the code with its documentation, below | the smallest string or the single absence that shows them; the real span of the counter |

`CHECK_DEADLOCK` is off in the runs of the USB programs: when the finite
stimuli are used up the devices are at rest, and an exhausted event pool ends in
a fault. It is off in `programs` and `rtc_alarm` because the flash test ends.
The sensors never stop, and `sensors` is checked for it.

### Findings

* **A repeated letter is typed once** (`hid_double_letter`, `TypedBack`): no
  release report is sent between two characters.
* **A string replaced while it is typed leaves a key down**
  (`hid_string_replaced`, `KeysReleased`): `str_pointer` is already behind the
  end of the shorter string and neither comparison raises the clear event.
* **A host that goes away stops the device** (`hid_host_away`, `ComesToRest`):
  the unit of `usb_sem` is lost with the report, and main waits for it for ever.

* **The alarms end** (`rtc_alarm`, `ExpiryRearms`): the sample's README says that
  every expiry sets a new alarm of twice the delay, endlessly. The alarm of
  256 s asks for one of 512 s, which a 24-bit counter at 32768 Hz cannot hold;
  the driver refuses it.

Known limits that the passing runs state as properties: a keyboard line of 64
bytes without ENTER kills the port (`FullForGood`); lines that arrive in one
read are merged into one (`OneEventPerLine` holds for a host that types); an
exhausted event pool is fatal (`ExhaustionIsFatal`); the string is read inside
its buffer as long as no more than two HID_KBD_STRING events are under way
(`StringReadInside`), and behind it with three. Two limits of `bme280` are
exceptions that its properties name: in normal mode on SPI a sample may mix two
measurements (`SampleUntorn` holds on I2C or in forced mode), and a suspension
that fails may leave a sleeping chip behind a device the kernel takes for
active (`ReadyIsSetUp` excepts `failedSleep`). So are these:

* the clock of `set_time` and `alarm_2` falls back by a minute when no reading
  falls on second 0, and jumps ahead when the counter wraps in the middle of a
  minute (`ClockForward` excepts the first and bounds the second); `set_time`
  starts at 14 hours, which the first reading turns into 1;
* the first byte of a line that was typed before the program looked is lost
  (`DutyIsTheLine` drops it when `early`), and `ring_buffer`, which puts no
  terminator into its ring, prints the rest of an older line behind a shorter
  one (the property only says that what is printed begins with the line);
* "Good!!" of `single_sector_test` says nothing about this run's write
  (`GoodMeansWritten` speaks of `multi_sector_test` after a verified erase);
* a failed transfer in `max30208` goes unnoticed: a flush that is lost lets
  main print an older temperature, so `FreshReading` and `NewestSample` speak
  of a turn without a failed transfer.

## Fairness

* `HidEvents`: strong fairness of each context's steps. A lower context is
  interrupted without bound on how often, but every interruption ends, so it
  runs again and again, not continuously. Nothing forces a button, a line, or
  the host that opens the ports, and nothing makes a handler of main end: it may
  wait for ever in `k_sem_take(&usb_sem, K_FOREVER)` or in `write_data` once the
  host has left (`hid_host_away`). `QueuedIsHandled` therefore states as its
  condition that handlers end (`HandlersEnd`), and says that besides an exhausted
  pool nothing else can hold an event up. With a host that stays handlers do
  end: `ComesToRest` in `hid_type`.
* `HidCdc`, `CdcPorts`: stimuli are finite, so weak fairness suffices. The host
  polls the HID endpoints (USB interrupt endpoints are polled by definition) and
  reads the ports; `write_data` waits for that without a limit, so liveness
  without it would be false of the code.
* `CdcEcho`, `CdcBridge`: the handler runs while an enabled interrupt is
  pending; in `CdcBridge` strong fairness per port says that the driver does not
  prefer one port for ever.
* `UsbHid`: the timer fires, the work queues run, a configured host polls.
  Nothing forces the host to configure the device or to keep it configured:
  `ReportsFlow` speaks of a bus that stays configured. `programs` uses this
  fairness; its other programs, and `sensors`, state nothing that needs any.

## Proofs

Proved by TLAPS for every value of the constants under the named assumptions
(`BlocksAssumption`, `StimuliAssumption`, `CharAssumption`, `PortsAssumption`,
`EchoAssumption`, `BridgeAssumption`, `WrapAssumption`, `IdsAssumption`,
`MeasuredAssumption`, `LittleFsAssumption`, `DepthAssumption`, `RtcAssumption`,
`FaceAssumption`, `SerialAssumption`, `SectorsAssumption`). Two of them say a
little more than the type of a constant: `CharAssumption` that the string buffer
has room for its terminator, `FaceAssumption` that an hour has more than one
minute and that the counter wraps at a full minute, or at least `Late` seconds
into one: 512 s leave 32 s, and no reading is later than that.

* `HidEventsProofs`: `TypeCorrect`, `PoolAccounted`, `WakeupNotLost`,
  `ImplementsQueue`. They rest on one inductive invariant `IInv` (theorem
  `InductiveInvariant`): the type invariant, the pool accounting and the lost
  wake-up are not inductive alone, because a `Give` must know that its context
  is not main in its waiting state, that main raises only while it handles an
  event, and that the event in `new` is there exactly while a context raises.
* `HidCdcProofs`: `AppRefinesEvents` shows that every step of the application
  is a step of `HidEvents`, so that its theorems carry over (`AppWakeupNotLost`,
  `AppKeepsQueue`); `UsbSemAccounted` and `ClickIsReleased` use invariants of
  their own on where main is in a handler and which event it handles, and
  `AppTypeCorrect` rests on the first of them. The theorems about `HidKeymap` say that
  every printable character is typed back as itself and every other byte types
  nothing, one lookup at a time. The keyboard has four more:
  * `KeyIsReleased` (`KeyReleaseComing`), for one line sent any number of times
    (`OneLine`: with two, `hid_string_replaced` shows the key that stays down),
    and any number of presses of button 2, each of which starts another stream of
    HID_KBD_STRING events over the same `str_pointer`. `EndInv` is the heart of it:
    once the pointer is at the end of the string, the clear event is behind every
    stream event that still goes round, so that whatever these press is released.
  * `LineIsTyped` (`TypedBack`), under `Steady`: one line, one press, a host that
    stays, and no key twice in a row. Each is needed: a repeated letter is a
    finding, a host that goes away takes keys with it, a second press starts the
    line again in the middle. `Total` counts the press and the stream event that it
    becomes; it never grows, so at most one event moves the pointer. `Going` then
    says that what the host has been shown types the characters before the
    pointer, and `KeyDown` that the next key differs from the one that is down.
  * `HostReadsTheLine` puts `LineIsTyped` and the theorems about the table
    together: if `KeyOf` and `Shifted` are the table, what a host with a US layout
    reads are the printable characters of the line it sent to the serial port, in
    their order, and all of them when the device is at rest.
  * `PointerFollowsStreams`, for all lines and presses: while at most `n` stream
    events are under way, `string[str_pointer]` is read at most `n - 2` places
    behind the buffer. A stream event looks for the end only after it has moved the
    pointer, and holds a block of the pool until it is done; hence
    `TwoStreamsReadInside` (`StringReadInside`) and `PointerBounded`. The bound
    is attained: with a line of 63 characters and button 2 pressed three times
    before the first character is typed, the code reads one byte behind the
    buffer, whatever it is.
    `ptr` is not cut to the 8 bits of `str_pointer`, which would need some 190
    streams at once, of the 255 blocks the pool has.
* `CdcPortsProofs`: `EveryByteIsKept`, `LinesStayApart` and `FullStaysFull`
  from `TextInv`, `EveryAnswerArrives` from `OutputInv`. What was raised is a
  sequence of lines put end to end by `FlattenSeq`, a recursive function:
  `FlattenAppend` shows, by its least counterexample, that one more line adds
  its bytes at the end. A read moves bytes from the driver to the buffer or to
  an event and keeps their order (`JoinRegroup`). Lines stay apart because a
  host that types by hand leaves the driver one byte at a time, so that an ENTER
  is always the last byte of a buffer; this is why `TextInv` says that a buffer
  holds no ENTER. `OutputInv` adds that nothing is owed when `write_data` ends.
* `CdcEchoProofs`: `EchoTypeCorrect`, `ThrottleEnds`, `NothingDropped` from
  `EchoInv`, which adds what ready means (`txReady` implies `Room` free bytes)
  and that the driver stays ready until it is filled; `BytesInOrder` from
  lemmas on cutting and joining sequences, one lemma per step that moves bytes;
  `ImplementsChannel`, the refinement of `ByteChannel`, under `Room >= Chunk`.
* `CdcBridgeProofs`: `WiredCrosswise` and `PeerStaysAwake` from `BridgeInv`,
  with one lemma for each of the four steps that move bytes (`SendConserves`,
  `ReceiveConserves`, `TransmitConserves`, `ReadConserves`): it keeps what is on
  its way from a port to its peer, or counts what it drops.
* `ProgramsProofs`: for `UsbHid`, `HidTypeCorrect`, `BitGuardsEndpoint` and
  `BitIsCleared` from `HidInv`, which adds how the program's view of the bus
  follows the host's, and that no host sees the device before main has succeeded;
  `FlashTypeCorrect` and `GoodIsWritten`, whose invariant
  says which sectors, once found erased, are so still; `RtcTypeCorrect`, and
  `ClockGoesForward` (`ClockForward`) from `ReadInv`: the counter stands a known
  number of seconds behind the reading last printed, so that the next reading is
  in the same minute, in the next, or after a wrap; quotients and remainders by a
  minute and by an hour have lemmas of their own, since they are not linear;
  `SerialTypeCorrect` and `LineIsDuty`, from lemmas on the string that begins a
  buffer, and an invariant that relates `data_write` to the bytes taken; and for
  `LittleFs`, `LfsTypeCorrect`, `PatternNeverTorn` and `BootsCount` from `LfsInv`,
  which says for each call what it finds in the two files, compared with what
  was mounted, and in memory. `Turn` is the step of `incr_pattern`, with its
  wrap, for every size of the file and of a byte.
* `BmeProofs`: for `Bme680`, `BmeTypeCorrect`, `AlwaysRightPage`, `AlwaysWhole` from
  `BmeInv`; `FetchesAreFresh` adds `FreshInv`. The copy of the page bit is right
  from the second access of `bme680_init` on: the first finds it zeroed after a
  reset, whatever the chip holds, and therefore writes the bit. `GasWaitRoundsDown`,
  `GasDivides`, `TemperatureExact` and `ThousandthsExact` are about `Bme680Calc`,
  whose numbers are beyond TLC's integers.
  For `Bme280`, `TypeCorrect280`, `AlwaysUntorn`, `AlwaysSetUp` and
  `AlwaysFresh` from `Inv280`, which says for each turn of a script what the
  turns before it have established: the calibration is copied when it is read
  (`DigInv`), a chip in normal mode measures from the write of `CTRL_MEAS` on
  (`ModeInv`), and a forced measurement is over, and new, when its bytes are
  read (`FetchInv`). `PressRoundsDown`, `HumidityRoundsDown`,
  `RawPressRoundsDown` and `SampleFits` are about `SensorValues`.
* `Max30208Proofs`: `SensorTypeCorrect`, `ReadingIsFresh`, `SampleIsNewest` and
  `AbsenceIsNoticed` from `MaxInv`. Its parts say that from the flush of a
  trigger without a failed transfer on every entry of the FIFO is new
  (`TurnInv`), that `GetRawData` has no more reads left than there are entries,
  of which the one it will read last, and all behind it, are new (`LeftInv`,
  `OverflowInv`, `CountInv`), and that a call that got past the first access
  whose error it notices has had an answer (`AnswerInv`).

Only model-checked: the liveness properties (`QueuedIsHandled`,
`ExhaustionIsFatal`, `KeysReleased`, `ComesToRest`, `AnswersAll`, `AllEchoed`,
`AllDelivered`, `ReportsFlow`), because the prover knows neither fairness nor
ENABLED. Every invariant and every action property of the passing runs is stated
by a theorem; those of `KeyIsReleased` and `LineIsTyped` carry the hypotheses named
above, without which they are false. The type invariants of the modules with
proofs are proved, and most are left to the proof alone.

## Not modelled

* `usb_mass`: main mounts the file system and lists it before it enables USB, and
  makes no access afterwards; what the mounted file system and the host then do
  to the disk is not in `src/`.
* `fs_sample`, the `aes` samples, `spi` loop-back tests: one linear sequence of library
  calls each, without state that a later call depends on.
* `watchdog`: feeds five times and waits for its reset; the callback is compiled
  out on this chip. A model would restate two timing constants.
* `bt` peripherals: GATT tables and callbacks. The order of callbacks and of
  connection events is the stack's, of which `src/` holds nothing to model from.
* `uart` programs other than `ring_buffer`: they print or echo what arrives; their
  state is the driver's.
* `pwm`, `systick`, `adc`, the `i2c` programs, LEDs and buttons, the `rtos` threads:
  a loop, a timer or two independent threads over one peripheral.

`PROJECT.json` gives the reason for each part under its component.

## Plan

1. Done: the modules above, and proofs about all of them but
   `EventQueue` and `ByteChannel`, which are specifications that others implement.
2. Done: `KeyReleaseComing` for any number of presses, `TypedBack` for one, the
   bound on `str_pointer`, `ClockForward`, and the keyboard from end to end.
3. Left: what is typed when button 2 is pressed again while the string is typed
   (each stream types every character it finds, so the line begins again and its
   keys interleave), which needs a specification of several streams; and the
   liveness properties, if a prover for them is installed.
