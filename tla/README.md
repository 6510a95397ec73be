# sha204_playground in TLA+

A specification of the [sha204_playground](../src/README.md) firmware and of
its host script: TLA+ modules translated from the C++, C and Python sources, TLC
configurations that check them on small instances, and proofs for TLAPS.

## The system

A PC runs `talk_to_sha204.py` (or a terminal). Over a USB serial line it talks
to an AVR board, which runs `sha204_playground.cpp`. That program uses the SHA204
library (`avr/SHA204`) to talk to an ATSHA204 crypto chip, over a single wire or
over I2C. Losing synchronisation with the chip is part of normal life: it
does not answer while it executes, its watchdog puts it to sleep, frames get
damaged; and what is written and locked in it is written and locked for good.

    talk_to_sha204.py --USB serial--> sha204_playground.cpp --> SHA204.cpp --> SHA204SWI/TWI --> chip
      keys.ini                         main loop, binary mode    retries         bus

### Inventory

| Component | State | Operations | Talks to | Hard part | Correct means | Model |
|---|---|---|---|---|---|---|
| Communication layer, `SHA204.cpp` 61-219 | retry counters, countdown, return code, rx buffer | `wakeup`, `send_and_receive` | transport (virtual calls); called by every wrapper and by binary mode | retries of commands that are not idempotent; three call sites of `resync` with three results each; stale frames | a result is the chip's verdict on this command; bounded effort; one fault is overcome; every call winds down and returns | `SHA204Comm` |
| Timing, `SHA204.cpp` 96-135, 302-396 and the `.._DELAY`, `.._EXEC_MAX` macros | countdown | delay, poll | chip's execution time | 16-bit microseconds, truncation, the last poll | a punctual chip is heard, polling ends on time | `SHA204Timing` |
| Transports, `SHA204SWI.cpp`, `SHA204TWI.cpp` | none of their own | `chip_wakeup`, `receive_response`, `send_command`, `sleep`, `idle`, `resync` | pins, `i2c_master.c` | silence, wrong sizes, no acknowledge on the single wire | their codes tell the caller what happened | actions of `SHA204Comm` |
| I2C master, `i2c_master.c` | TWI registers, turns left | start, write, read, stop, reset | hardware | waits without limit, counted and uncounted turns, a chip stopped within a byte | the bus is given back, codes tell what was transferred, every transfer ends | `I2cMaster` |
| Chip (external) | power, busy time, output buffer, zones, lock bytes | commands, tokens, wake pulse | | sleeps by itself | | `ATSHA204`; its zones in `Personalize`, `ConfigZone`, its TempKey in `Sessions` |
| Wrappers and `execute`, `SHA204.cpp` 224-425, 575-836 | caller's buffers | one per command | `send_and_receive` | two implementations of each packet | both send the same packet | `Marshalling`, `Commands` |
| CRC, `calculate_crc`, `check_crc`, `crc16` | none | | | two implementations | they agree; the damage a CRC can notice is noticed | `Crc`, `Commands`; elsewhere by effect |
| Personalisation, `talk_to_sha204.py` 124-249, 504-566 | keys, `keys.ini` | `lock_config`, `lock_data`, `personalize` | chip, through `do_transaction`; file system | interruption between any two steps; ignored replies; irreversible locks | keys of a locked chip are on file; only intended contents get locked; running again completes | `Personalize`; the bytes of the config zone in `ConfigZone` |
| Other script commands | none | `mac`, `check_mac`, `sha`, `random`, `status`, `show_config` | chip | `sha` needs the chip to idle between two transactions | the digest is the message's; the display is the zone's | `Sessions`, `Commands`, `ConfigZone` |
| Binary mode, `sha204_playground.cpp` 156-168, 723-794, and `do_transaction` | frame buffer | one transaction | USB serial | fixed delays instead of framing; leftovers of a broken frame are read as commands | an answer belongs to its request | `BinaryMode` |
| Interactive loop, line editor | 88-byte configuration, idle flag, input buffer and cursor | one per key | terminal | commands that build on TempKey, unsigned cursor | a result is of what was asked, a line is read as shown | `Sessions`, `LineInput`, `Panel`, `Commands`, `ConfigZone`, `BinaryMode` |
| Timer, button | 32-bit ticks | ISR, `millis10`, `service_button` | | torn reads, wrap-around, a button served in two places | a press is announced once and not missed | `Button`, `Panel` |
| USB keyboard | one-element mailbox | never called | | | | not modelled |
| Arduino sketch | as the AVR program's | as the AVR program's | UART | 64 bytes of input buffer, reset by DTR, a readline of its own | as above | where it differs: `BinaryMode`, `LineInput`, `Panel` |
| Descriptors, board files, LUFA configuration, simple example, binaries | | | | | | not modelled |

The firmware is single-threaded. Concurrency is between the firmware and
the chip (time passes, the chip sleeps or dies), between the script and whatever
interrupts it, and between the timer interrupt and the main loop.
`PROJECT.json` lists the hazards at their lines with the properties that cover them.

## Modules

| Module | What it is |
|---|---|
| `ATSHA204` | The chip as the library relies on it: power state, time left of a command, output frame. External. |
| `SHA204Comm` | `wakeup`, `send_and_receive`, and both transports' `resync`, `receive_response`, `send_command`, `sleep`, `idle`. |
| `CommandChannel` | The contract: an at-least-once command channel with a bounded number of attempts. |
| `SHA204CommChannel` | The refinement mapping from the first to the second. |
| `SHA204CommInv`, `SHA204Comm_proofs` | The inductive invariant in named parts, and the theorems. |
| `SHA204CommFaults_proofs` | What a call does without a fault, with a dead chip, and after one fault. |
| `SHA204Timing` | The polling loop in microseconds. |
| `Personalize`, `Personalize_proofs` | The script's irreversible commands. |
| `BinaryMode`, `BinaryMode_proofs` | Script and firmware, AVR or Arduino, at the two ends of the serial line. |
| `Sessions`, `Sessions_proofs` | Commands that build on each other through TempKey, over a summary of `send_and_receive`. |
| `I2cMaster`, `I2cMaster_proofs` | The I2C driver under the transfers of `SHA204TWI`. |
| `Button`, `LineInput`, `Panel`, `Panel_proofs` | The tick counter and the button; the line editor; the main loop that serves both. |
| `Marshalling`, `Crc`, `ConfigZone` | Operators: the packet of every wrapper and of `execute`; the CRC; the 88 bytes of the config zone. |
| `Commands`, `Commands_proofs` | What becomes of one request: packet and time, the zone from chip to display and back, a response's CRC. |
| `MC...` | Instances for TLC; `MCTimes` has the numbers of `SHA204Definitions.h`. |

How they are put together: `Commands` extends `SHA204Timing`, `Marshalling`, `ConfigZone`
and `Crc`. `Panel` extends `Button` and `LineInput`. `SHA204Comm` implements `CommandChannel`, and
`Sessions` has a summary of `send_and_receive` of its own, with TempKey in it. The summary was written by reading
`SHA204Comm`; no run and no proof compares the two, so what `Sessions` shows rests on it. `Personalize` sees
`do_transaction`, whose two ends are `BinaryMode`.

### SHA204Comm

`pc` is the place in the library: `ready` (in the caller), `send`, `receive`,
`poll`, `check` (the loops of `send_and_receive`), `resync`, `resyncRead`,
`resyncSleep`, `resynced`, `wake`, `wakeReply`. `sendsLeft`, `recvsLeft`,
`countdown`, `ret`, `resynced`, `rx` are the code's `n_retries_send`,
`n_retries_receive`, `timeout_countdown`, `ret_code`, `ret_code_resync`,
`rx_buffer`. `site` is the return address: which call of `resync` or
`wakeup` is in progress. One action is one bus transaction or one decision of the
code: `SendCommand` is one turn of the sending loop up to the execution delay,
`Poll` one turn of the polling loop, `Silence`, `Garbage` and `Verdict` the three
ways on from it, `Resynced` what each call site does with `resync`'s result.
`Interface` selects the subclass. The two differ where the code does: the single
wire has no acknowledge, so `send_command` always succeeds; on I2C an address or
data byte without acknowledge ends the transmission, `resync` begins with a bus
reset that can be enough, and the response timeout is 0.

A frame is its size, its status and a ghost `mine`: it answers a transmission
of this call. Payload, CRC arithmetic and bits on the wire are left out:
a spoilt frame is taken to be caught by its CRC or by its count byte. `DamageNoticed` of `Commands` says for which
damage that is so; the rest (some bursts across the border of data and CRC, a damaged count of a longer answer) is
outside the model, and `VerdictIsGenuine` and what builds on it do not speak of it. `faults`, `sent`, `executed` and
`wasAwake` are ghosts for the properties.

Faults are an action's second way to end (`cmdLost`, `cmdGarbled`, `replyLost`,
`replyGarbled`, `tokenLost`, `wakeLost`) or a step of the chip (`doze`, `die`).
The environment has `MaxFaults` of them per call.

### SHA204Timing

`WaitDelay` is `Delay_ms(execution_delay)`, `Poll` is one turn of the polling loop,
476 us on the single wire when in vain. `DelayMs`, `ExecMaxMs` do the
macros' arithmetic in tenths of milliseconds and cut off like the `uint8_t` cast;
`Wrap` is the `uint16_t` of `execution_timeout_us`.

### Personalize

One action per transaction with the chip and per access to `keys.ini`, in the order
the code makes them. `Transaction` is `do_transaction` as its callers see it: a
dry run answers `chr(0)` without sending; a command can take effect and its reply
be lost (`CommandChannel`: at least once); and if `Silent`, a lost command is
answered by a stale status that is not 0. `Start` is the user with any options,
`Interrupt` a kill, a power cut, or an exception no caller catches. `WriteFile` is durable at once. The
code never calls fsync (lines 544-547), so of a power cut the properties hold as far as the file cache had
been written out; of a kill or an exception they hold without that condition. The chip's
config zone is the set of words that have the value personalize.ini asks for;
its Lock compares a CRC of contents, which the model does by comparing contents.

### BinaryMode

The script's `do_transaction`, read by read, and the firmware's main loop with
`receive_serial_binary_transaction` and `binary_mode_transaction`, byte by byte, on two
FIFO lines. `host` is what the script reads next, `fw` where the firmware is: `loop` (main loop),
`count` and `bytes` (receiving a frame), `run`, `line` (an
interactive command waits in `usb_serial_readline`). A byte to the firmware is what the main loop would
make of it: `BINARY_MODE_CHAR`, a command that asks for input, a carriage return,
anything else. To the script go a status, a length and a body, or text: help, echo,
announcements. `NothingThere` is `usb_serial_available() == 0` in the middle of a
frame, whether bytes are late (`stall`) or there are none. The other
mishaps are output lost by the USB stack (`lost`), a killed script, which leaves
any part of its request unsent (`kill`), a failed command (`chip`) and a pressed button.
Nothing in the code says to which request a byte belongs. Ghosts do: `starts` is the first byte of the current request
(the last one sent), `own` says that the frame being read or run began with it, `mine` marks what is said about it;
all that is under way when a request is sent is none of its own (`Earlier`, `Others`). `misled` is a script that has
already taken an answer that was not its own.
The chip is left out: `SHA204Comm` says how a command ends.

`board` is the program that runs. The AVR program's USB stack makes the host wait when
its buffer is full; it sees DTR and has a button. Behind the Arduino's UART there are
64 bytes of input buffer (`SerialRoom`), and what comes in while the sketch waits its 100 ms and does not fit is lost
(`InRoom`). That is why `check_mac` and `sha` do not work there, as the README says
under "Problems" (src/arduino/README.md). Opening the port may reset an Arduino (`Restart`), and its `readBytes` ends by a
pause, not by Enter.

The model takes the script's two seconds to be enough for whatever the firmware has
in hand: 100 ms and 3 ms a byte to receive at most 90 bytes, and some 600 ms for a
command that fails in every possible way on the single wire. It is not proved to be enough
for a long series of stray commands, and on I2C `twi_hang` shows a command that never ends.

### Sessions

`pc` is where the firmware is with a request: `wake`, then for each of its commands `call`, `send`,
`listen`, `resync`, `report`, and `dismiss` (idle or sleep) at the end. `job` is the request: the commands it
is made of, and whether their answers are put together (`serialNumber`, the display of the config zone). The commands
of the prompt (`Type...`) and of scripts (`ScriptOther`, `ShaInit`, `ShaCompute`) start one when
the main loop is free. `send_and_receive` is summarised, an assumption of this module: `Attempts`
attempts, each of which may take effect, and a `Resync` between two of them that may put the chip to
sleep. That the summary never reports a command done that was not (`Silent` is FALSE) leaves out
the single wire's case that `swi_stale` shows.

`chip.tempKey` is what went into TempKey, in order: a nonce, the keys GenDig mixed in; the
blocks of a SHA computation. The user cannot see it: `told` is what the results of the
commands tell, and the properties compare the two. The chip may or may not keep TempKey over a command
that does not load it (`Kept`).

### I2cMaster

One step is one turn of `i2c_start`'s loop, one byte, or one clock of `i2c_reset`. `arch` is which
half of the file is compiled. The two differ: on AVR8 lost arbitration restarts the
loop without counting, capturing the bus is a counted turn (in the last of them a timeout is reported although
the bus is ours), and address and START are two steps. The XMEGA half waits for the
write interrupt flag and tests for lost arbitration in the same condition; a turn of its loop in
which arbitration was lost is counted. `op` is the transfer of `SHA204TWI.cpp`
that called; `left`, `moved` and `total` count its bytes. `bus` has other users (`taken`), and `bits` is
what a chip that was cut off in the middle of a byte still holds SDA low for.

### Button, LineInput, Panel

`Button` is `Timer.c` and `service_button`, `button_pressed_for`. A reading of the clock is atomic or has one tick in it; if
that tick carries out of a byte already read, the value is torn (`Torn`). `LineInput` is
`get_bytes_serial` on either `usb_serial_readline` (echo, Backspace, Enter) or the sketch's
(a full buffer or a pause). `Panel` puts them into the main loop: `service` and `measure` are the
button's part of a turn, `line` the readline of a command, which serves the
button too and announces nothing. The cursor is unsigned: erased at 0 it wraps, and Enter then
stores far outside the buffer, which C leaves undefined; the model ends there (`LineLost`).

### Commands, Marshalling, Crc, ConfigZone

A packet is its op-code, its parameters, its length, the fields in it with their
places and lengths, and the length of the response. `Marshalling` has one operator for each of the
fourteen functions, which say where their fields are, and one for `execute`, which is given three lengths and lays the
data out one after the other. A mask is the set of its bits (`AllFlags \ mask` are the reserved ones). Facts worth knowing that came up: `random`
masks its mode with 0, so a caller's mode is never sent; `read` and `write` do not refuse zone 3, whose
address is only cut short, and `read`'s refusal of 32 bytes of OTP cannot be reached; `check_parameters`
is compiled out, and would not compile; the prompt's `w` and `d` always send a MAC of 32 bytes
where they ask for "0 or 32", and `g` always 4 bytes of other data.

`ConfigZone` has the layout three times, as the code has: `Modified` (the script's changes by personalize.ini), `ScriptShows`
and `FirmwareShows` (the two displays). A field of a byte is what its lowest bit counts and how many
values it has (`Bits`, `SetBits`), for the code's shifts and masks. `Crc` is the shift register, bit by bit.

`Commands` gives each behaviour one subject (`job`): a call or a script's request, which is marshalled, sent and
given its time by `SHA204Timing`; a zone, which is read by the script or
the prompt, changed by options and written back word by word; or a response, as it was sent and as it is found in
the caller's buffer with some of its bits flipped.

What `check_crc` notices is less than a CRC-16 usually does, for two reasons. The CRC goes
over the line in the other order of bits than it is computed in, so that a short burst across the border of data
and CRC may cancel: six bits' length is enough (bits 14, 15, 17 and 19 of a status response), and that in any response. And the CRC is found by the
count byte, which may itself be damaged: a read answer `07 00 03 40 00` with its CRC passes as the status frame
`04 00 03 40`, a success, when its count becomes 4. `Noticeable` is what is left: an odd number of bits, two bits, a burst
of up to 16 bits within the data or within the CRC, all with the count intact; and damage to the
count, with whatever else, where no longer answer is expected (there the buffer has room for a status only).

## Runs

| Run | Shows | States |
|---|---|---|
| `swi` | Single wire, all faults but the unnoticed loss of a command, three per call: results are genuine, one fault is overcome, a quiet bus means exactly once, every call returns, and the library implements `CommandChannel`, its fairness included | 196 520 |
| `twi` | I2C, all faults, chips as slow as the data sheet allows: a call that meets one fault comes back with the verdict, unless the chip was lost after the transmission and is polled for ever; every step but such a poll brings a call nearer to its return; the channel, as far as safety goes | 232 014 |
| `swi_stale` | Violated: with `cmdLost` the single wire's verdict may be a stale wake-up status | |
| `twi_hang` | Violated: on I2C polling never ends when the chip stays silent | |
| `timing_unknown` | Violated: an op-code `execute` does not know gets 4464 us instead of 70 ms | |
| `commands` | All modes of all commands: both ways to a packet agree, punctual chips are heard, polling ends on time; the config zone is changed, shown and written back as asked; the damage a CRC can notice is noticed | 208 164 |
| `personalize` | Every order of failures, interruptions and restarts: safety of keys, locks and dry runs | 105 000 |
| `personalize_again` | Run again until it is done: `RerunCompletes`, and "personalized" is true when printed | 21 000 |
| `binary` | Serial line, both boards, two mishaps of any kind: answers belong to requests, refused means not run, a byte of an unbroken request is never taken for a command, every transaction ends | 933 294 |
| `sessions` | TempKey: what is reported was computed from what the user was told, the digest is the message's, a series of reads is reported whole | 82 729 |
| `i2c` | Both drivers: the bus is given back, codes tell what was transferred, nine clocks free the chip, every transfer ends | 22 344 |
| `panel` | Button and line editor: a press is announced once and not missed, a line is read as it is shown | 1 982 824 |

The three violated runs are described under "findings" in `PROJECT.json`.

### Bounds

- Three commands: answered by a status frame (4 bytes), a short answer (7) and a
  long one (35), so that a stale frame can be shorter or longer than the
  answer expected. Delays and timeouts of up to three polls make every
  combination of "ready before, during and after polling" occur.
- `RetryCount = 1` is the code's `SHA204_RETRY_COUNT`. Three faults are
  one more than a call with two sends can always recover from; the fault budget
  starts again with every call, so faults of one call meet leftovers of the one before.
- `ExecTime`: `MCPunctual` is a tick below the allowed maximum, `MCAtTheLimit`
  reaches it. On the single wire the loop's last poll starts one response
  timeout (476 us) before the maximum, and a chip that needs all of it is sent its
  command twice: `QuietBusExactlyOnce` is checked for punctual chips there. On I2C, polling has no
  end and the limit does not matter.
- `SyncTimeout` and `CommandExecMax` are longer than any command, as in the code
  (85 ms and 70 ms against 69 ms).
- `commands` uses the real execution times; latencies are every millisecond up to 71 ms
  and one poll before each. All 256 modes of all commands are tried, with second parameters on both sides of
  each refusal. Three zones (all 0, all 1, mixed) and up to two options, from the first and last slots of each
  kind: two are enough for one option to disturb another in its byte. Four responses, of four bytes and of seven, in
  buffers of 4, 7 and 35 bytes; flipped are up to three bits of the first four bytes and up to two of seven, past the count;
  and, starting at every bit, count and CRC included, all bursts of up to eight bits and five wider ones of up to 16. One of
  the responses is the one above that passes when its count is damaged, so that the exception occurs.
- Personalisation: two words, slots, keys and dates suffice for a torn
  update, a slot of an earlier run beside a slot of this one, and an OTP area
  torn between two days; two mishaps for a lost reply followed by an interruption.
  `Symmetry` permutes slots, keys and dates, in the run without liveness only.
- `binary`: the script chooses many bytes of its requests (Lock: a CRC, MAC: a challenge), so that they may look like
  anything. The four payloads are a plain one, one that opens a prompt if it is left behind, one that ends a prompt and looks like a request
  from there on (on the AVR its first half is taken for a line, and what follows is run), and one that looks like two requests and so leaves more
  behind than the script waits for. Nothing depends on the fixed part of a request, which is cut to one byte
  (`MinPayload = 1`; the code's is 5). Two mishaps: one breaks a transaction, the other its aftermath. Sessions
  are not bounded. `MaxBacklog = 1`: the next request is sent with at most one byte of another on the line, which is enough for a script to stay one
  answer behind. `MaxFrame` is just above the longest request; the code's is 100. `SerialRoom = 4`
  lies between the short and the long requests, as 64 bytes do in the code.
- `sessions`: two nonces, keys and messages, so that a wrong one can be told from the right one; two
  attempts, as in the code; two reads for a series (the code has 3 and 8): one to come first and
  one to fail later. No request is begun with more than `MaxParts = 2` parts in TempKey.
- `i2c`: `Timeout = 3` turns (the code's 1 to 1000) have a first, a middle and a last one; transfers of up to three
  bytes likewise.
- `panel`: a counter of 8 values with one inner byte boundary (the code: 2^32 and three)
  wraps and tears within a press; `MaxHeld = 4` ticks are one more than `Hold = 3` (the code: 7), which are announced.
  One byte is asked for; the cursor wraps at 8.

### Fairness

`SHA204Comm` assumes `WF_vars(Steps)`: the firmware is one thread without an operating
system, and a call in progress keeps taking steps. Nothing is assumed of faults, of
the chip or of callers. `swi` and `twi` both use it; on I2C it is not enough for every call to return, which `twi_hang`
shows. `Personalize` assumes that a running script runs on (its
serial port has a timeout of two seconds) and that a user whose script has
ended starts it again (`WF_vars(StartSome)`); it does not assume that it is
never interrupted, only `MaxMishaps` times. `BinaryMode` assumes that the firmware, which never
blocks except for input, keeps running (`WF_vars(Firmware)`) and that the script's reads end with a
byte or a timeout (`WF_vars(Script)`); nobody has to open the port or send anything.

`I2cMaster` assumes that the driver keeps running (`WF_vars(Driver)`) and `SF_vars(Waiting)`:
not every turn of `i2c_start` ends in lost arbitration, which the AVR8 loop would follow for ever (it does
not count these turns). And in `Byte` a byte under way is done some day: `i2c_write` and `i2c_read`
wait for it without limit, so that a chip that held SCL low for ever would stop the firmware.

`commands` and `timing_unknown` switch deadlock checking off because their behaviours end.

## Proofs

| Theorem | Property | Assumptions |
|---|---|---|
| `SHA204Comm_proofs!TypeCorrect` | `TypeOK` | |
| `SHA204Comm_proofs!EffortBounded` | `EffortIsBounded`: at most one transmission more than retries | |
| `SHA204Comm_proofs!ChipNeverDisturbed` | `NeverDisturbed` | `ExecMaxAssumption` |
| `SHA204Comm_proofs!VerdictGenuine` | `VerdictIsGenuine` | `NothingUnnoticed` |
| `SHA204Comm_proofs!ChannelImplemented` | `ImplementsChannelSafely` | |
| `SHA204CommFaults_proofs!QuietMeansOnce` | `QuietBusExactlyOnce` | `PunctualChips` |
| `SHA204CommFaults_proofs!DeadGivesNothing` | `DeadIsReported` | |
| `SHA204CommFaults_proofs!OneFaultMasked` | `OneFaultIsMasked`, and every step of the library lowers the measure `Way` of the call | `PunctualChips`, `NothingUnnoticed`, `RetryCount >= 1`; `StaysAwake`: on I2C no `doze` and no `die` |
| `SHA204CommFaults_proofs!CallsWindDown` | `WindsDown`, and `Way` stays in the natural numbers | |
| `Commands_proofs!PunctualHeard`, `GivenUpOnTime` | `PunctualIsHeard`, `GivesUpOnTime`, from `execute` on | `NothingWraps` |
| `Commands_proofs!CommandsHeard`, `CommandsGivenUpOnTime` | The same two from the call or request on | `NothingWraps` |
| `Commands_proofs!PacketsAgree` | `WrappersAgree` | |
| `Commands_proofs!ZoneWritten`, `ShownRight` | `ZoneAsExpected`, `ShownAsAsked` | |
| `Commands_proofs!UndamagedAccepted` | Half of `DamageNoticed`: a response with its own CRC, arriving as it was sent in a buffer of any of the sizes callers use, is accepted | |
| `Personalize_proofs!TypeCorrect`, `KeysOnFile`, `AsWanted`, `DryRunSafe` | `TypeOK`, `LockedKeysOnFile`, `LockedAsWanted`, `DryRunChangesNothing` | |
| `Personalize_proofs!LockedWhenPersonalized` | `PersonalizedMeansLocked` | `InEarnest`: no `--dry-run`, no lost command answered as if it had succeeded |
| `I2cMaster_proofs!TypeCorrect`, `BusGivenBack`, `CodesRight`, `ResetEnough` | `TypeOK`, `BusReleased`, `CodesTell`, `ResetFrees` | |
| `BinaryMode_proofs!TypeCorrect`, `OwnAnswer`, `RefusalSafe` | `TypeOK`, `AnswerIsOwn`, `RefusedMeansNotRun` | |
| `BinaryMode_proofs!CalmLine`, `NothingReadAstray`, `NoSilence` | `OnlyMishapsFail`, `NothingStray`, `Answered` | |
| `Sessions_proofs!TypeCorrect`, `WholeReported`, `QuietIsExact` | `TypeOK`, `ReportedWhole`, `QuietSession` | |
| `Sessions_proofs!UsedIsTold`, `DigestIsOfMessage` | `UsedAsTold`, `DigestOfMessage` | |
| `Panel_proofs!TypeCorrect`, `PressAnnounced`, `NothingIsMissed`, `LineIsKept` | `TypeOK`, `AnnouncedPress`, `NothingMissed`, `LineKept` | |

They hold for every value of the constants that satisfies the modules' named
assumptions: both transports, any retry count, any timing, any set and number of
faults; any number of words, slots, keys and mishaps; any number of turns and
bytes; any number of attempts, blocks, nonces, keys, messages and of requests in a session;
requests of any contents and length and any sizes of the buffers; any width of the tick counter, any boundaries in it,
any `Hold` from 3 and any lengths of a parameter; any table of execution times, any first parameter of a byte and any
second one, any contents of the config zone and any number of options. `NothingWraps` is a fact about the table of times
that `MCCommands` has TLC verify of the code's (`TimesFit`); `timing_unknown` shows what happens without it.

**SHA204Comm.** `VerdictIsGenuine` speaks of the moment the call returns. To
keep it, one has to know what the chip may hold in its output buffer at every
earlier point. `SHA204CommInv` says so in parts. `Budget`: transmissions and
retries left add up. `Caller`: `resync` and `wakeup` return to where they came from.
`Undecided`: where `ret_code` can be returned unchanged, it is not a verdict.
`Settled`: the chip is never busy for longer than the polling loop still lasts,
so outside of it the chip is idle (this is `NeverDisturbed`). `Loyal`:
from a transmission until the chip is woken again, an awake chip's buffer holds
an answer to that transmission only. `Loyal` is where `NothingUnnoticed` is used: on a
single wire that may lose a command, it fails, and `swi_stale` is the
counterexample. The refinement needs only `Budget`, `Caller` and
the verdict's genuineness, which is waived where the channel is `Silent`.

Three more invariants follow a call by the faults it has met, each over all interleavings of calls and whatever
earlier calls left behind. `Straight` (no fault): from the one transmission to the verdict, the chip holds the answer, no
retry is used, and the polling loop outlasts the chip. `PunctualChips` is needed there: on the single wire the last
poll begins one response timeout before the countdown is over, so a chip that takes its maximum to the tick would
be sent the command again. `InVain` (a dead chip): one attempt, one resynchronisation, and neither returns anything.
`Recovering` (one fault): wherever it struck, either the answer is still in the chip or the receive buffer, or
the chip complained or has to be woken and there is an attempt left for that. The proof splits each step by whether the
fault strikes in it (`Straight` held before) or came earlier (`Recovering` did). A second fault may
use up what the first left, which is why the property stops there.

`OneFaultIsMasked` speaks of calls that return, so something has to be said of their returning. Fairness is out of the prover's reach,
but the measure that makes the loops end is not. `Way` is, in order of weight, the transmissions left, the receive
attempts left, the place in the code (the loops' bodies downwards, `resync` and `wakeup` above where they return to) and
the polls left: the countdown on the single wire, the chip's own time on I2C, where the countdown never falls (its response timeout is
0). `CallsWindDown` says that every step of the library lowers it and that no fault raises it, on either transport and
under any faults, with one exception by name: a poll on I2C of a chip that is not awake (`PolledAsleep`). That
exception is what `twi_hang` shows, and a single `doze` is enough for it. `OneFaultMasked` therefore assumes `StaysAwake`, and
claims verdict and measure both; on the single wire, where the countdown bounds the polling, the assumption is empty. `FaultsLimited`
(no more faults than `MaxFaults`) bounds the polls that lost read acknowledges add on I2C.

**Personalize.** `LockedKeysOnFile` needs two more facts. `StillOpen`: while
`lock_data` is past its checks, the config zone is locked and the data zone is
not (one process owns the port). `OnFile`: from the first slot written on, the
file holds the keys being written. The Lock command's own CRC check does the rest:
it locks only what the script believes to be there. `Truthful` carries `PersonalizedMeansLocked`: locks stay locked, and the
script reaches its last message only past a reading of the zone or an accepted Lock, each of which means a locked zone.

**I2cMaster.** `HoldsBus`: the bus is ours only between the capture and the STOP, which the XMEGA read issues
by itself. `TurnsLeft`: while a turn is waited for, there is one left to count. `Progress` and `Codes`: before the
caller is told, the bytes moved and left add up to the transfer, and from then on the code tells them apart. `Clocked`: bits the chip still holds are no more than clocks to come.

**Sessions.** `Asked`: an answer on record belongs to an attempt that was made, a success to one that took effect. `Series`: in a request
whose parts are put together, what is stored is one entry per read done, and all but the last succeeded.
`HasMessage`: a script that waits for a digest has a message. `QuietInv` is the invariant of `QuietSession`:
without a fault there is no second attempt, the chip is awake while it is needed, and TempKey is what the
results tell, except while it is being loaded anew. This is the fact that makes a session of any
length exact; it fails at the first fault. From there on `AsTold` holds: TempKey is empty, or what was told with each
part as often as some attempt took effect (`Repeats`: between once and `Attempts` times), and during a command that mixes
a key in, that and one part more for each effect so far. `InChip`: what the last answer was about is what is in TempKey,
or TempKey is gone. Both are needed at once when the answer is reported: that is when `told` changes.
`Repeats` says which positions of the longer sequence stand for one of the shorter by a function, because a
recursive definition could not be reasoned about; `RepeatsLonger` is the lemma that carries the weight. `ForScript`
ties the hashing script's two requests together: between them `told` is the begun computation if the first was reported done. The script owns the port, so nobody else's request
comes between the two; unless it is killed there, after which any other may, and the second half is never asked for.

**BinaryMode.** The invariant follows the current request, the last one sent. `Once`: it begins at most once on the line, it
goes to the chip at most once, and it is answered only after that. `Whereabouts`: while the script waits, the request is
wholly on the line (`Pending`), being read or run (`Arriving`), has run (`Ran`), or cannot run any more (`Unrun`), and each of these
says what the two lines may hold. The last is the hard case: a sound request is there only if a prompt took its beginning,
and then the text of that prompt is what the script reads first (`Heralded`), unless it was lost. `Clean`
is what a script finds at its next request. `Unbroken` is the picture without a delayed or cut-off request: no prompt is
open, and the line holds exactly what the two sides' positions say. `Complete` and `Calm` add that nothing was lost and that nothing at all
went wrong; they carry `Answered` and `OnlyMishapsFail`.

The attempt to prove them corrected two properties. `AnswerIsOwn` and `RefusedMeansNotRun` had been
checked with payloads that held either what ends a prompt or what begins a frame; with both in one request, and with a second request of the
same script, TLC then found what the proof could not exclude: a prompt left behind by an earlier script takes the first half of
a sound request, what it printed is lost, and the second half is read as a request and answered; and a
script that took such an answer stays one answer behind. Both properties now name these exceptions (`broken` together with `lost` or `misled`), the
run `binary` has requests of both kinds.

**Panel.** `Pressed`: for a press whose readings were true, the difference of the counter's present value and the time stamp, modulo
the counter's width, is the ticks `held`, or one less if a tick fell into the reading that began the press (`Lasted`). This holds across the counter's
wrap-around because a press is shorter than the counter's period (`MaxHeld < Modulus`; with the code's 32 bits and
10 ms, more than a year). A press is announced from when that difference reaches `Hold`, and
registered from then on; a registration that stems from the press before is taken back by the first turn of the main loop that
finds the new one, which is why at most two ticks may fall into it and `Hold >= 3` is assumed (the code: 7). `InHand`: what is typed is in the
buffer up to the cursor and equals what the terminal shows, until more is erased than typed; nothing is stored before Enter.
`LineKept` then follows from the conversion. The line's lengths are assumed to fit the 16-bit cursor, as the code's do
(at most 2 * 64 + 1 characters).

**Commands.** `CommandsInv` has a part for each subject. `Packets`: what is about to be sent was made by the wrapper of the
call or by `execute` of the request. That the two agree is then a fact about operators, `WrapperExecutes`, with a case for each of the fourteen functions:
unless it refuses, its length, fields and response are those that `execute` makes of three
lengths, for every value of the parameters. `RequestsAreCalls` is the converse for the scripts: no
request of theirs would be refused by the function, although `execute` checks nothing. `ZonePart`: `Differ` (no byte differs from the
chip's but those of the options put in) and `Shown` (each option is shown as asked for, everything else as it was). To keep
`Shown` one needs the layout: two options that share a byte are fields of one slot (`PlacesApart`), a field is set without disturbing the others (`LowNibbleSet`, `HighNibbleSet`, `FlagSet`), and what is shown
of an option depends on its own bytes only (`ShownByItsBytes`). Two lemmas say that seven or eight reads of 32 and 4 bytes put together are the
zone, and `WrittenBack` that the words that differ, written back, make it the new one. `ClockPart` are the types; `Clock`, that time
spent and time left add up, is kept from the moment the packet is sent.

The attempt to prove this found two CASEs of the model whose guards overlapped (an option left out because of its value, in `Modified`;
`ReadKey`, in `Place`): TLC takes the first arm, the definition leaves the choice open. Both were made disjoint.

**Only model-checked**: liveness (`EveryCallReturns`, `OneFaultIsOvercome`, `RerunCompletes`, `EveryRequestEnds`, `EveryTransferEnds`, the
fairness part of `ImplementsChannel`), which needs ENABLED and is out of the prover's reach (of a call's return,
`CallsWindDown` proves the measure; that the library can always take a step is left to TLC); and that `DamageNoticed` holds of
damaged responses. That is a fact about the CRC's polynomial, computed by recursion over the bits of a response, which would take
induction over data.

## Plan

Done in this order, the most important behaviour first: `SHA204Comm` with its
abstract channel, `SHA204Timing`, `Personalize`, each with its proofs; `BinaryMode`; `Sessions` and
`I2cMaster`; `Panel`, `Marshalling`, `Crc`, `ConfigZone` and `Commands`; then the proofs of `Sessions`, `BinaryMode`,
`Panel` and `Commands`. Nothing of it is left. What would extend it: the times of arbitrary stray commands (the one
hazard without a property), and a treatment of the CRC as polynomial division, for which the detection of bursts within the data or within the CRC is a theorem.

## Not modelled

- The USB keyboard (`LufaLayer.c`): a mailbox of one key that `main` never fills.
- USB descriptors, board files, LUFA's configuration, the makefile, the firmware binaries: tables and generated code.
- `offline_mac` of the script: it hashes what it is given and keeps no state.
- `atsha204_simple_example.ino`: three calls of the library, one after the other.
- The bits on the single wire (`receive_bytes`, `send_bytes`): loops timed in processor cycles. What they
  tell their caller is in `SHA204Comm`.
- Printing, echo and help texts, except as something on the serial line (`BinaryMode`).
- How long stray commands take (`BinaryMode` takes two seconds to be enough for the firmware to fall quiet).
- Cryptography: a digest is what went into it.
