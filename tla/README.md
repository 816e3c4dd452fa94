# Formal models of Jeogi-at

Jeogi-at tells subway passengers where on a platform there is room, announces it over speakers and LED panels, and keeps the air breathable. This directory holds TLA+ models of its core logic, TLC configurations that check them on small instances, and TLAPS proofs for all instances. Paths in this file are relative to the repository; `FW` stands for `firmware/STM32F401_EdgeDevice/Core`.

## 1. Inventory

| Component | State it keeps | Operations | Correct if |
|---|---|---|---|
| **STM32 main loop** `FW/Src/main.c`, `app/app_task.c` | last sampling tick | for ever: UART command, sensor sampling and panel, audio | every part gets its turn |
| **Broadcast receiver** `FW/Src/services/audio/audio_stream_rx.c` | two DMA block buffers with ready flags, byte ring | SPI complete and error interrupts, take a block, read | bytes come out as sent, once, in order; overflow cuts at a sample |
| **Audio player** `services/audio/audio_player.c` | queue of file names, source, event bits, two I2S halves | guide, play a WAV, `Audio_Process`, stop, I2S interrupts | file, DMA and source agree; sound in order; playback ends; queue drains once no broadcast goes on |
| **LED panel** `features/display/matrix_run.c` | screen, congestion, train event, ticks | run, set congestion / screen / carousel / train | the panel shows current levels and trains, and readings of the last refresh period; the carousel goes on |
| **UART handler** `features/protocol/uart_handler.c` | byte state machine, one pending packet | byte received, process a command, send | every good frame is handled once and answered |
| **Gas sensors, SD card, drawing** `features/sensors`, `services/storage`, `drivers/display` | filters, file list, frame buffer | sample, list, draw | - |
| **Pi: motor and polling** `drivers/src/motor.cpp`, `sensor.cpp`, `motor_driver.c` | `g_auto_mode`, last values, pins and duty | MQTT command, poll, automatic control, write | automatic control follows the air; manual mode obeys |
| **Pi: UART client** `drivers/src/communication.cpp` | line and mutex | requests with a 300 ms limit, commands without an answer | an answer belongs to its request |
| **Pi: display and arrivals** `drivers/src/display.cpp` | `active`, `event_armed`, `active_until` | congestion and screen commands, arrival polling | each train is shown and the base screen restored |
| **Pi: audio and broadcast relay** `drivers/src/audio.cpp`, `main.cpp` | file list, sockets | play, list, relay TCP to SPI | complete blocks in order |
| **Pi: temperature** `drivers/src/sht20.cpp` | last value | read every 2 s | - |
| **Server: commands** `server/src/command_handler.cpp`, `motor.cpp`, `audio.cpp`, `display.cpp` | `g_auto_mode`, connections | mode, device and ROI commands | the Pi's mode follows; no ROI is lost |
| **Server: sessions** `client_handler.cpp` | one packet queue per client with two limits, threads | read, write, camera workers, join | a client gets what changed; a session ends |
| **Server: congestion** `congestion_analyzer.cpp`, `congestion_publisher.cpp`, `hanwha_node.cpp`, `pi_node.cpp`, `parser.cpp` | objects, levels | analyse, publish | levels follow the cameras, also when a zone empties |
| **Server: configuration, database, monitors** `config_manager.hpp`, `database.cpp`, `sensor.cpp`, `system_monitor.cpp` | file, tables, latest values | load, save, insert, reconnect | no update lost |
| **Camera node** `embedded-linux/src/main.cpp` | shared frame | capture, infer | frames in order |
| **Qt client** `client/src/backend` | receive buffer, recordings, microphone | parse packets, roll segments, stream | no packet or segment lost; shutdown ends |

Interaction: clients talk to the server over TLS; the server and the Pis talk over MQTT (QoS 1, clean sessions); the motor Pi talks to the STM32 by UART frames and feeds it the broadcast by SPI as bus master; on the STM32 interrupts hand over to the main loop through volatile flags. The hard behaviour is concurrency (interrupts against the main loop, threads without a lock around a mode flag), unreliable delivery (MQTT subscriptions, one-slot mailboxes), limits (rings and queues) and narrow integers. `PROJECT.json` lists every hazard with its line.

## 2. Plan

Built, in the order of the plan: the STM32's receiver, player and panel (`AudioStreamRx`, `AudioPlayer`, `MatrixRun`), the motor control across server and Pi (`Ventilation`), the serial line (`Stm32Link`), the server's configuration, sessions and congestion (`ServerConfig`, `ClientSession`, `Congestion`), the client's end (`NetworkClient`, `Recording`), and the composition of cameras, server, Pi and panel (`Station`).

Compositions: `NetworkClient` extends `ClientSession` (both ends of a connection); `Station` extends `Congestion` and instantiates `LedPanel`, which `MatrixRun` implements. Abstract specifications: `PcmFifo` (implemented by `AudioStreamRx`) and `LedPanel` (implemented by `MatrixRun`).

Left for later, most useful first:

1. The broadcast relay of `drivers/src/main.cpp` as the SPI master of `AudioStreamRx`: how far it keeps the receiver undisturbed.
2. The camera node's hand-over between capture and inference, and the reconnection of the server's sensor thread.
3. Proofs for the composition: typing of `Congestion` and `Station`, and the bound on how old a level on the panel can be, stated as a safety property.

## 3. Modules

### AudioStreamRx, PcmFifo

The variables are those of the C file, with `dmaOn`, `dmaPos` for the SPI DMA and `pc`, `bufIndex`, `pushLen`, `copyPos` for where the main loop stands. `RxCplt` and `SpiError` are the interrupts; `TakeReadyBlock`, `CopyByte`, `PushDone` are `AudioStreamRx_Process` (the copy is a step per byte, because the DMA may be writing that buffer); `Read` is called by the player. Only the main loop touches the ring, so `Read` is one step. The bytes are numbered in sending order. The ring's two memcpys appear as the wrapped index. `disturbed` is a history variable: it becomes true when the master sends into an unarmed transfer, when a buffer is armed that the main loop still needs, or when the SPI reports an error. `PcmFifo` says what the receiver promises as long as that has not happened; `IsFifo` checks that the receiver implements it, with the queue mapped to the unread part of the ring.

### AudioPlayer

Main-loop code is cut where an interrupt can be noticed: the test of each event bit together with the read of `s_bufferEvent &= ~bit` (`TestEvent`), its write with the refill (`ServeEvent`), the end test (`ProcessStop`) and the start of the next source (`ProcessStart`). `HalfDone` is either I2S interrupt. The lost update on `s_bufferEvent` is therefore in the model. Sound is counted in blocks; every fill that reads something gets the next number, so `heard` shows order, repetition and loss. The receiver appears as its `Available` count, which blocks may raise for ever: a broadcast need not end, and while it lasts the queue is not looked at. Every file may fail to open, to seek or to be read to its end (a failing `f_read` ends the file for `FillHalfBuffer`). `I2sError` is the error interrupt: the HAL has stopped the DMA, `HAL_I2S_ErrorCallback` only prints, and `s_isPlaying` stays 1; `i2sError` records it. Time is counted in half-buffer periods (`HalfDone` while the DMA runs, `Elapse` when it does not); `late` records that the main loop let a period pass without serving an event. The refill of a half is one step: it shares nothing with an interrupt but the event bits, whose read-modify-write is cut in two. Since an endless broadcast has endless chunk numbers, TLC compares states by `RelativeView`, which keeps the distances of the chunk numbers from the last one heard; no action and no property looks at more. `Audio_RequestStopStream` and `AudioStreamRx_Reset` have no callers and are left out.

### Ventilation

`Handle` and `Publish` are the two halves of a command in one of the server's reader threads; `net` is the MQTT topic; `MqttCommand` is the Paho callback; `GetCo`, `GetCo2`, `CheckMode`, `Written` are the sensor thread; `WriteDir`, `WriteDuty` are the two hardware accesses of `motor_write`, for both threads. `CheckMode` runs twice, because `receive_sensor_data` and `auto_motor_control` both test the flag. The flag is a plain `bool` of one byte, read and written by single instructions on the Pi and reloaded around the opaque calls between, so a read sees the old or the new value. `Encode` is the conversion `(uint16_t)(value * 100)`: for larger values C leaves it undefined, the firmware's compiler converts to 32 bits and stores the low 16. A lost broker connection ends the subscription, since the session is clean and `init_motor_mqtt` subscribes once. Qt clients give no speed with "start", which means 100. The gas values are those the STM32's filters would give now.

### MatrixRun

The ticks are kept as differences to the current one, saturated at the largest limit they meet. `last_refresh_tick = 0` is kept as a flag, since its difference is the tick counter itself: that is what makes a refresh fail to come right after the start and after a wrap of the counter. `Run` is `AppTask_Run`: `AppTask_UpdateGasSensors`, which brings a new gas reading every ten seconds, then `MatrixRun_Run` as a whole; no interrupt shares its state. `SetTempHumValues` is the command that brings a temperature. Neither raises a dirty flag, so a screen that stays shows the old reading until its periodic refresh: `behind` measures for how long the panel has been out of date. `shown` is what has been drawn last, with the readings, levels or destination it was drawn from; the text animation is left out.

`LedPanel` is what `Station` relies on: the levels, whether a train has the panel, and for how long. `ImplementsLedPanel` is the refinement, with `trainScreen` mapped to `current_screen = TRAIN`.

### Stm32Link

Frames are numbered in the order the Pi writes them. A `Packet_t` is kept as four parts - command, length, first data byte, other data bytes - each named by the frame it came from, so that a packet copied while the interrupt overwrites it can be told from a whole one. A frame carries the length the Pi gave it, since `send_to_stm32_bulk_congestion` sends one to eight levels and the STM32 takes eight only. `Command` and `Request` are the senders of `communication.cpp`; `Request` locks and flushes the input, which can cut an answer that is just coming in (`junk`), and `Ask` writes: an answer to an earlier frame may land between the two. `Accepts` are the tests of the callers: `get_co` and `get_co2` compare the size and `rx[4]`, never the command byte. `echo` is what `rx[4]` reads as: the sensor's number in a value; the error code in a NACK, where `ERR_INVALID_DATA` is 2 like `CMD_GET_CO2`, and the 1 that refuses a `PLAY_WAV` is `CMD_GET_CO`; the second character of a name in a list, which is no such number; and anything in the unset buffer that is sent when the directory cannot be opened (`STACK`). `ReadAnswer`, `ReadJunk` and `Timeout` are the outcomes of `read_packet`. `Arrive` and `Garbled` are the receive interrupt at the end of a frame; `Take`, `CopyPart`, `Check`, `Apply`, `Transmit` are `UART_Handler_Process`, cut where an interrupt can be noticed. The byte state machine is abstracted to frames that are whole, damaged or lost. `Transmitted` is `SendPacket`'s `uint8_t idx`: lists of 251 bytes and more leave as a few bytes, or as none. `floor` and `run` number the answers, to tell a late one from a new one; `taken` is the newest frame handled. A UART error that stops the reception by DMA for good is not modelled.

### ServerConfig

The file is two variables: what it held when last closed, and whether it is whole. `LoadConfig` to `SetFlag` are the steps of an ROI update in a session's reader; `SendList` and `TakeFlag` are the session's main loop; `Start`, `InitDefaultRois`, `Stop` the process. A truncated file reads as an empty object, which ends the server at the next `connect_db` (`Connect`) or start. The history variable `clash` says that two updates overlapped or that a stop fell into a save; `want` is what the completed updates asked for.

### ClientSession, NetworkClient

`ClientSession` has an action per step of each of the five threads of `handle_client`, the queue with its two limits, and the joins in their order. `Accept` queues a list of zones, or none when the configuration has no zones. A packet is its producer and number; on the stream it is four or five units - magic number, camera number, sizes, JSON, picture - so that it can be cut inside its header too (the four bytes of the magic number stay together, and so do the two sizes). `ReadFails` and `WriteFails` may happen at any moment: the comments of `client_handler.hpp:47` and `:52` speak of a non-blocking read and an exclusive use of the SSL object by the writer, but the socket is blocking and the reader uses the same object.
`NetworkClient` adds the client: `ConnectToServer`, `Disconnected`, and `ReadData` with any part of what is under way. `m_buffer` outlives the connection, so the start of a packet can be completed with bytes of the next stream: such a result is a `Mixture`. `Cut` is the loop of `readData`, a recursive function. A header that lacks its sizes takes them from the next stream, whose magic number is an abnormal size: `readData` skips the old magic number and searches on (`Abnormal`). A header that lacks the camera number as well is moved by one field and has plausible sizes: a mixture of five units. A body cut off swallows one unit of the next stream for each unit it lacks, however long these are. A payload never contains the magic number: JSON is text, and a JPEG holds the bytes DE AD BE EF only by chance. Left out are the two places where a buffer of more than 10 MB is cleared (`networkclient.cpp:295`, `:303`): behind a packet that has been cut out lies at most what one `readAll` brought, and before it at most one packet, whose picture of some hundred kilobytes keeps it far below; no packet of this server reaches that size.

### Recording

One camera; the others share nothing but the event queue. A frame is one of `FrameUnrecorded`, `FrameCalibrates`, `FrameWritten`; `PostedCall` is the automatic start or the end of a segment, delivered by Qt some time after it was posted; `ClickStart`, `ClickStop` the page's button; `Quit` is `shutdownAll`. An encoder is an ffmpeg process: running, closing its file, or crashed; ffmpeg may be missing at any time.

### Congestion, Station

`Congestion` keeps the number of objects per camera, the levels, and the levels under way to the Pi. `AfterReport` is the difference between the two cameras: an empty list of the Hanwha camera is ignored. No connection on the way is made twice: `CameraLost` is the end of the Hanwha camera's thread (`hanwha_node.cpp:55`) or of a Pi camera's MQTT client, which has a clean session and no reconnection (`pi_node.cpp:55`); a connection that fails at the start is one lost at once. `PublisherEnds` is the publisher's exception. `Disconnect` is the display client's lost connection: it is made again by itself, but with a clean session and no subscribe (`drivers/src/display.cpp:321`, and `connection_lost` only prints), so the broker has nothing for it any more. `Station` adds the Pi's two threads, the mailbox (a frame put in whole and taken out whole: the details are in `Stm32Link`), the alternation of `UART_Handler_Process` and `AppTask_Run`, and the panel by `LedPanel`. `faults` counts the subway frames overwritten in the mailbox and the trains whose line has no destination code.

## 4. Runs

| Run | Question | Bounds |
|---|---|---|
| `audio_rx` | ring, samples, FIFO refinement, no block forgotten, deadlock | ring of 6, blocks of 4, reads of 4: a block wraps, overflows and is cut; 13 bytes fill both buffers and go round; 1 SPI error, 1 failed restart |
| `audio_player` | ownership, order, loss at the end, ends, queue drains | 2 zones, queue of 5 slots, files that cannot be opened, end inside a half, on its border, or are empty, and any of which fails to open or to be read; 2 guides, one file of five blocks (longer than both halves), broadcasts without an end, a ring of 3 blocks, a time-out of 4 periods (the shortest allowed; the real one is between 5 and 6), 1 missed period, an I2S error at any time |
| `ventilation` | stale writes, equal modes, settling | 2 clients, 2 commands, 3 gas values (clean; warning; warning with danger: speeds 0, 60 and 100), 1 failed publication, 1 device error, any loss of the subscription |
| `ventilation_wide` | is more than 600 ppm always ventilated? No | 1 client, no commands, 390 and 700 ppm |
| `ventilation_manual` | does manual mode leave the motor to the operator? No | 1 client, 1 command |
| `matrix_run` | current panel, age of readings, full event time, carousel, refinement of `LedPanel` | 2 commands at any time (two give every pair of clears, flags and reset ticks), 2 levels, 2 readings of each kind that change without limit, 1 wrap, 1 tick for 2.5 s with the proportions of the real limits |
| `stm32_link` | answers of the right kind and request, torn packets, lost frames, answers too long | 3 frames (a torn copy needs two, a stale answer a third), 1 loss or damage, lists of 13 and 251 bytes, or unset memory; levels in and out of range, a bulk frame of one level, a destination, an empty file name: both kinds of NACK whose error code is the number of a sensor |
| `server_config` | updates kept, analyzer and clients current, restarts | 2 clients, 2 zones, 2 rectangles, 2 updates (which may overlap), 1 stop anywhere, 1 dropped list |
| `server_roi_sync` | is every connected client told of an update? No | 2 clients, 1 update |
| `client_session` | order, resynchronisation, room for data, end of a session | queue limits 1 and 2, 2 data packets and 1 picture per camera, 2 connections, reads of any size; a session without a list of zones can fill its queue with a picture and a data packet and drop the second one, so both kinds of drop happen |
| `recording` | handles of encoders, end of segments, resumption | 3 session folders, 2 frames of calibration, 3 clicks, any number of frames, crashes and segments |
| `station` | does the panel come to show what the cameras see; does a train leave it | 0 or 1 person before the Hanwha camera, 0 or 2 before the Pi camera (all three levels), 1 change, 1 lost connection of any of the four, polling every 3 units of 5 s, hold 1, event 2, codes 0 and 1 (the proportions of 15, 5 and 10 s) |

The violated runs state what the code's comments and the drivers' README say. `ventilation_wide`: 700 ppm arrives as 44.64 ppm and the motor stays off. `ventilation_manual`: the switch to manual falls between the test of the mode and the write. `OneStaleWrite`, in the passing run and as a theorem, says that this is the whole extent of the second: one write, never more. `server_roi_sync`: the first session to see `g_roi_updated` clears it for all ("send again when the ROI has been updated", `client_handler.cpp:279`).

What the passing properties restrict themselves to, and why: `InOrder` and `StreamPlayedOut` speak of playback without a missed period, `IsFifo` of an undisturbed receiver - the code has no defence there. After an I2S error the player waits for ever: `WavEnds`, `QueueDrains` and `StreamPlayedOut` say so, and `QueueDrains` needs besides that the broadcast ends, since a playing broadcast keeps the output and the queue is looked at only when nothing plays (`audio_player.c:542`). `WavTailBound` states the loss the code accepts: up to two halves at the end of a WAV, and nothing else - no half is filled again before it has been played, whatever periods are missed. `StreamPlayedOut` needs a time-out of at least four periods (`TimeoutAssumption`): the last fill may come two periods after the tick was renewed, and two more play it. `ModesAgree` excludes lost messages and commands of two clients that cross inside the server, and `AutoSettles` values that do not fit 16 bits, `PanelIsCurrent` the refresh period after start or wrap (and it allows a reading that has been out of date for less than a refresh period), `AnswerOfItsKind` the unset memory sent for an unreadable directory, `CarouselTurns` a train screen without an event, `UpdatesKept` and `AnalyzerAgrees` overlapping updates and a stop inside a save, `NewestListSent` a list dropped at a full queue, `CongestionShown` a lost publisher, subscription or camera and a Hanwha picture without people, `SessionEnds` a peer that keeps its connection open (the reader then waits in `SSL_read` and the session in its join), `RoomForData` data that other data have kept out (one turn of the main loop can queue seven packets, four places are guaranteed), `ScreenComesBack` two lost frames, `RecordsAgain` a user's stop (it speaks of `m_recording`: after a crash of ffmpeg, or without one, the flag is true and no encoder runs until the next segment). `ScreenComesBack` counts its faults over the whole history, and neither a frame lost on the line nor an operator's screen command is part of `Station`. Each exclusion is a weakness of the code that the model shows when it is removed.

Every property has a mutant in `PROJECT.json`: a plausible slip in a mapped definition that makes the run fail.

## 5. Fairness

* Main loop and interrupts of the STM32 (`WF` of `Main`, `RxCplt`, `Process`, `HalfDone`, `Run`, `Tick`): `main.c:154` loops for ever without blocking, the interrupts are enabled, the clocks run.
* `AudioPlayer`: `SF` of the step that ends playback. It is enabled only between two interrupts that are 85 ms apart; the model's steps take no time, the real ones microseconds, so an interrupt cannot hit the gap every time.
* `Stm32Link`: `WF` of the main loop only; nothing is assumed of the Pi.
* `ServerConfig`: `WF` of every step of a session's threads, which wait for nothing but the processor; nothing of clients and operators.
* `ClientSession`: `WF` of every thread; of a failing read or write only once the client is gone, and of a write that succeeds only once `connected` is false - a client may stop reading for as long as it likes.
* `Recording`: the camera goes on sending, Qt delivers posted calls, ffmpeg ends after its input has ended.
* `Station`: `WF` of every thread, of the reports of a camera that is connected, and of levels that wait for a client that is subscribed; nothing of the connections; `SF(Tick)`, since `Tick` waits until nothing quick is under way and time passes in the gaps between.
* `Ventilation`: `WF` of every thread; `SF` of successful gas requests: the STM32 answers again and again even if some requests time out. The liveness is about an MQTT callback that keeps running; no fairness is assumed of clients, of the connection or of the gas.

## 6. Proofs

`AudioStreamRxProofs`, for every size, every number of bytes, errors and restarts (`RxAssumption`; `SampleAssumption` only for whole samples):

* `TypeCorrect`, `RingCorrect`: the range of `s_count` needs the clamp of `PushBlock`, which was computed steps earlier, so the inductive invariant `IInv` joins the typing with `RingInv` (a copy in progress fits the free space; interrupts cannot reduce it, `Read` is excluded during the copy).
* `SamplesWhole`: `SampleInv` adds that the length of the push in progress is even; with even sizes both alternatives of the clamp are.
* `UnreadKept`: `CopyOutside` shows that the slots a copy writes are outside the unread region, by the ring invariant; then by cases over the actions.
* `ImplementsFifo`: the steps that touch the queue of `PcmFifo` are those that end a copy and those that read. That the block pushed is the one that was sent needs the pace of master and main loop: `FifoInv` says, as long as nothing was disturbed, that DMA and main loop are in different buffers (`Apart`), that the count of blocks agrees with the bytes sent (`Paced`), and which bytes the buffers hold while they fill (`Incoming`), when they are full (`Complete`) and in the ring during the copy (`Copied`).

`VentilationProofs`, for any clients, bounds and gas values (`BoundAssumption`, `GasAssumption`): `TypeCorrect` and `StaleWriteBound`. `OneStaleWrite` alone is not inductive; `OneDecision` adds that a sensor thread about to write has not yet used its one write, which holds because a new decision needs automatic mode and each mode message starts the count again. `ModesAgreeAlways`: `ModeInv` follows a command from the server's flag through its thread (`OwnMode`) to the last mode message on the topic (`Arriving`), as long as nothing is lost and no two commands overlap.

`AudioPlayerProofs`, for any files, queue, ring, block sizes, failures and missed periods (`PlayerAssumption`; `TimeoutAssumption` only for the last):

* `OutputOwned`: with the range of the flags (`Flags`) it is inductive; the argument has one lemma per starting and stopping routine, with its failures. An I2S error takes the place of the running DMA.
* `TypeCorrect`: `TypeInv` in three parts, for the queue, for where the main loop stands and for what plays; the slots of the ring of names need the count of waiting names, the count of played chunks that of read ones.
* `PlayedInOrder`, `TailBounded`: `KeptInv` says that a half whose event is set, or has been seen, holds nothing unplayed; it survives lost and late events. `OrderInv` adds, as long as no period was missed, that only the half that is not playing waits for a fill and that the halves hold exactly the chunks between `heard` and `chunks`, the playing one first.
* `BroadcastPlayedOut`: `QuietInv` counts the periods since the broadcast's tick was renewed against what is unplayed, by the place of the main loop between the two events.

`MatrixRunProofs`, for any durations: `TypeCorrect`; `Implements`, the refinement of `LedPanel`, which needs that the carousel is never switched off (`auto_cycle_enabled` is only ever set to 1), so that an expired train leaves to the dashboard; `TrainsShownInFull` (`EventInv`: while an event is active, the clock that `MatrixRun_Run` tests is the time since the last announcement); `PanelStaysCurrent` (`PanelInv`: unless the refresh tick is 0 or the dashboard is dirty, so that the next turn draws, the panel shows the right screen with a reading that has been out of date no longer than the last refresh is old).

`Stm32LinkProofs`, for any commands, list lengths, frames and losses: `TypeCorrect`, `LevelsAreLevels` (`LevelInv`: between the test and the effect the handler's own copy cannot change), `KindsMatch` (`Honest`, of every answer being sent or in the buffer: what has the size of a value and the number of a sensor in `rx[4]` is that sensor's value, unset memory or damaged; a NACK, whose error code is such a number, is two bytes short), `AnswersAreNew` (after the flush nothing older than it is in the buffer; `AskHolds` for what comes in before the write).

`ServerConfigProofs`, for any clients, zones, updates, stops: `TypeCorrect`, `UpdatesAreKept`, `AnalyzerIsCurrent`. The invariant `Kept` holds as long as `clash` is false: at most one update is under way, its local copy differs from the file in its own zone only, and the file is closed outside of a save.

`ClientSessionProofs`, for any limits with `CamLimit <= JsonLimit`, any number of packets and connections:

* `SessionTyped` and `NothingIsFreedInUse` (`JoinOrder`: which threads have ended at each join).
* `PicturesLeaveRoom`: `PicturesInFront` says that a picture never waits behind place `CamLimit`, so what is behind it in a full queue is data.
* `Cut`, the loop of `readData`, is a recursive function on all streams. Induction here is by the shortest counterexample: `LeastNumber` (a non-empty set of naturals has a least member, from the library's well-foundedness of `<`) gives `ShortestStream`. `CutStep` proves that the function exists, that is, that the loop ends on every stream; `CutCases` that it drops a front without a header (`Skips`), the magic numbers of cut-off headers included, and then stops or takes one packet (`CutsAt`); `CutShows` that what it finds begins at magic numbers in the order of the stream and what it leaves is the stream's end; `CutStuck` that it stops only where no complete packet is left; `CutWhole` that packets sent whole are found whole; `MixedCut` that a rest of an old connection spoils at most the first packet.
* `MixturesBounded`: by `MixInv`, whole packets are coming, or `m_buffer` still holds the front of a packet of an earlier connection, and then a connection is left that has not had its mixture.
* `PacketsKeepOrder`: by `OrderInv`, the packets of each producer rise along the whole way: shown, on the stream, in the writer's hand, in the queue, and below the producer's count.
* `BothEndsTyped` follows from the same invariants.

`RecordingProofs`: `TypeCorrect` and `EncodersKept`. `Accounted` says that every encoder still waiting for frames is the one in `proc`; `HeldWhileRecording` and `Handles` that a handle exists only for the session being recorded, once calibration is over.

Only model-checked: the liveness properties (`ReadyBlockTaken`, `WavEnds`, `QueueDrains`, `AutoSettles`, `CarouselTurns`, `NewestHandled`, `NewestListSent`, `SessionEnds`, `SegmentEnds`, `RecordsAgain`, `CongestionShown`, `ScreenComesBack`), which rest on fairness and are outside the prover's reach. Every safety property of a passing run is also a theorem. The type invariants of `NetworkClient`, `Recording` and `MatrixRun` are not part of a run; they are proved. `Congestion` and `Station` have no theorems: what their runs check is liveness.

## 7. Not modelled

* Drawing, fonts, analogue conversion, SD block access, SQL, image processing, decoding of video and XML, the QML pages: no protocol state.
* The vendor's HAL, CMSIS and FatFs under `firmware` are about 130 000 of the repository's lines; they appear as external actions (interrupts, time) only.
* The broadcast relay, the camera node, the server's sensor and system monitors, the microphone streamer and the temperature driver: see the plan. Their effects are inputs of the models: any stream of SPI bytes, any report of a camera, any gas values.
* Inside modelled parts: a UART error that stops the STM32's reception, a client buffer of more than 10 MB, which messages a page receives, statistics sent to clients, the geometry of zones, the text of the scrolling train screen, and commands that are published as they come.
* The test programs under `drivers/mic`, `drivers/audio` and `drivers/subway_api` are not part of the service.

## 8. Running

    tlc -config AudioStreamRx.cfg AudioStreamRx
    tlc -config AudioPlayer.cfg MCAudioPlayer
    tlc -config Ventilation.cfg MCVentilation
    tlc -config VentilationWide.cfg MCVentilation
    tlc -config VentilationManual.cfg MCVentilation
    tlc -config MatrixRun.cfg MCMatrixRun
    tlc -config Stm32Link.cfg MCStm32Link
    tlc -config ServerConfig.cfg ServerConfig
    tlc -config ServerRoiSync.cfg ServerConfig
    tlc -config NetworkClient.cfg MCNetworkClient
    tlc -config Recording.cfg Recording
    tlc -config Station.cfg MCStation
    for m in AudioStreamRx AudioPlayer Ventilation MatrixRun Stm32Link \
             ServerConfig ClientSession Recording; do tlapm ${m}Proofs.tla; done
