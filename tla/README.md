# Verification of the Wi-Fi/BLE remote control

TLA+ models of the firmware in this repository (Zephyr, ESP32-S3): a BLE remote
control that advertises to, wakes up and connects to a host, an endurance loop
that switches the host off and on, a command that sends it keys, a Wi-Fi
station, a download command, a firmware upgrade and the commands on the SD card.
TLC checks the models on small instances and TLAPS proves their invariants for
every value of the constants.

Source lines are given as `file:line` below `src/src/`.

## 1. Inventory

### Threads

| thread | runs | priority |
|---|---|---|
| main | `main`, `poll_loop`, `evt_handle`, `ble_rc_init` (main.c) | preemptible |
| shell | every shell command | lowest preemptible |
| bt_ck | `bt_ck_looper_thrd` (ble_rc.c:738) | above the shell |
| system work queue | `adv_work`, `adv_mode_switch_work` (ble_rc.c) | cooperative |
| Bluetooth receive thread | `conn_callbacks` (ble_rc.c:542) | cooperative |
| net_mgmt | `wifi_event_handler` (sta.c:36) | - |

There is one processor (`esp32s3_procpu`). Code between two calls that block is
interrupted by threads of higher priority only; the cooperative ones are not
interrupted at all.

### Components

**BLE advertising and link** (ble_rc.c). State: `g_btrc_st`, `is_adv_running`,
`g_wakeup_adv_mode`, `g_rc_last_paired_addr`, two work items, and in the host
the advertiser, the link and the bonds. Operations: `try_advertising_start` (from
`start_adv`, `start_wakeup` and bt_ck), `delete_paired`, the handlers of the two
work items, the callbacks `connected`, `disconnected`, `security_changed_cb`,
and `ble_rc_init`, which runs again on each later connection to Wi-Fi. Hard:
none of this state has a lock; each of stop and start is a flag and a call that
waits for the controller; `try_advertising_start` cancels, waits 100 ms and
re-arms. Correct when: wakeup mode (not connectable) always ends; the remote
control is never silent while everyone believes that someone else advertises;
an advertiser on the air can be stopped.

**Endurance loop** (ble_rc.c:619-778). State: a semaphore, `g_bt_ck_running`,
the position in the loop. Operations: `auto_reboot_start`, `auto_reboot_stop`,
the loop. Correct when: a stop is heard at each wait, and the host is woken up
again while it does not connect.

**Event queue and main loop** (main.c). State: `evt_list`, the eventfd.
Operations: `evt_send` from any thread, `poll_loop` and `evt_handle`. Hard: list
and eventfd are updated in two steps, and the read of the eventfd blocks.
Correct when: each event is handled once, in order, eventually.

**Wi-Fi station** (sta.c). A request to connect and a callback that sends
`EVT_WIFI_CONNECTED`, which makes main run `ble_rc_init`.

**Firmware upgrade** (upgrade.c, sysbuild.conf). State: the slots, the upgrade
request, the confirmation, all of them on flash. Operations: `upgrade` (erase,
copy, request, reboot) and `upgrade_check_image` at boot. Hard: errors and loss
of power at each step. Correct when: the device can always start, what is
requested is whole, and what runs can be returned to.

**HTTP download** (http_dl.c) and **switch client** (http_client.c). State: a
socket per call, the file, its position. Run by the shell and by bt_ck at the
same time. Hard: each call may fail, the network may fall silent, the card may
be full, the file may exist. Correct when: no socket is lost, and what is
reported as saved is saved.

**Sending of keys** (ble_rc.c:582-609). State: the report, the subscription of
the host, the notifications of the stack. Operations: the shell command `send`
(press, 50 ms, release) and `input_ccc_changed`. Hard: the host may leave,
return or change its subscription between press and release, and notifications
wait for buffers. Correct when: no key sticks at the host.

**SD card** (fatfs.c, sd_speed.c, sha256sum.c). State: the mount, the file,
file objects of a pool, a buffer of the heap. Operations: `fatfs_init` in main,
`sd_speed` and the hash of a file in the shell, which takes commands before main
has mounted the card. Hard: sizes that wrap, a card that is full, calls that
fail between two others. Correct when: nothing is leaked, and what is reported
was done.

Others: the GATT tables, the WebSocket client and RPC (wscli.c, rpc_route.c,
rpc_send.c), the littlefs test. Section 8 says why they are not modelled.

### Interactions

    wifi_event_handler --evt_send--> main --ble_rc_init--> work items, bt_ck
    shell --start_adv, start_wakeup, delete_paired--> advertising <--wakeup-- bt_ck
    callbacks --k_work_reschedule--> adv_mode_switch_work --k_work_submit--> adv_work
    shell --auto_reboot_start/stop--> bt_ck --run_set_SK_v--> network
    shell --http_dl--> network, file;   shell --upgrade--> file, flash --reboot--> MCUboot
    shell --send--> report, buffers --link--> host;   shell --sd_speed--> card <-- main

## 2. Modules

| module | models | proofs |
|---|---|---|
| `BleAdv` (`MCBleAdv`) | advertising and link | `BleAdvProofs` |
| `Looper` | endurance loop | `LooperProofs` |
| `Endurance` (`MCEndurance`) | the endurance loop calling the remote control: `BleAdv` with `Looper`; implements both | `EnduranceProofs` |
| `KeySend` | sending of keys, and the host | `KeySendProofs` |
| `EvtQueue` | what `evt_send` promises: a FIFO | |
| `EvtLoop` | event queue, main loop, station; implements `EvtQueue` | `EvtLoopProofs` |
| `Ota` | firmware upgrade and MCUboot | `OtaProofs` |
| `Http` | download and switch request | `HttpProofs` |
| `Card` | mount, speed test and hash on the SD card | `CardProofs` |

Operators named "Mutation: ..." in a comment are variants of the operator below
them that a plausible mistake would give; PROJECT.json pairs each with the
property that it breaks. They take no part in the specifications.

### BleAdv

Variables with the names of the source are its variables. `delayed`, `canceling`
and `queue` are the `k_work` flags of `adv_mode_switch_work` and the content of
the work queue, `wq` is where its thread stands, `pc` and `cmd` are the callers.
`owed` is a history variable: advertising was asked for and not called off.

A caller is preemptible, so each statement that touches shared state is an
action (`TryStart`, `SetMode`, `Stop`, `Stopped`, `Forget`, `FindBond`,
`CheckRunning`, `Submit`, `Rearm`, `DeletePaired`, `ClearLast`). The handlers and
callbacks are cooperative: they are cut only where a call waits for the
controller or sleeps (`AdvWorkStarts` / `AdvWorkEnds`, `SwitchStops` /
`SwitchStopped` / `SwitchResumes`, `Connected` / `ConnectedEnds`).

`connected` is three actions by its argument: a link (`Connected`), the timeout of
directed advertising (`DirectedTimeout`), any other error (`ConnectFails`).
`HciOutcomes` says whether the calls to the controller may fail; where it holds
only TRUE the controller obeys (`Obedient`), and no connection fails either.

`Elapse` ends timeouts. With `Prompt = FALSE` any timeout may end at any time.
With `Prompt = TRUE` it ends only when nothing is ready to run, and an event that
takes a second or several connection intervals does not overtake a thread that
waits for an HCI command: a command of the controller is answered in
milliseconds and no code here computes for 100 ms. `NotStranded` and `NoOrphan`
hold only under this assumption about time, which is one the source makes itself
(the 100 ms of ble_rc.c:787 and 845 are there for it), and are proved under it;
`WakeupBounded` does not need it: its proof is for either value of `Prompt`.

Left out: the payload of the advertising (names, `fe_data`), the identity `g_id`
(the identity created first is the default one, so both branches of its tests
name the same one), the security level, and the connection parameters.

### Looper

bt_ck has the higher priority, so what it does without blocking is one step and
the shell's actions are enabled while it blocks (`Blocked`). `bt_ck_k_sleep(n)`
is modelled by its seconds: it lasts n + 1 of them, and ends early after a stop.
`try_wakeup_cnt` is kept modulo `Retry`, which is all the code uses of it. The
calls of `run_set_SK_v` and `try_advertising_start` are blocking steps here;
what they do is in `Http` and `Endurance`. `Link` stands for the callbacks, which
change `g_btrc_st` at any moment. `SwitchPause` and `ConnectedPause` are the
arguments of its sleeps (5 and 30 in the source).

### Endurance

The composition of the two: bt_ck is one of the callers of `BleAdv`, and where
`Looper` has one step for the call of `try_advertising_start`, `Endurance` has the
statements of the call (`CallBegins`, `InCall`, `CallReturns`), with every other
thread between them. `g_btrc_st` is that of `BleAdv` (`secure`), changed by the
callbacks only. The steps between two calls are those of `Looper`; the sleeps of
the loop end when the other sleeps do (`Elapse`), and no sleep ends while the
loop has something to run (`Sleeps`). The shell runs `auto_reboot_start` and
`auto_reboot_stop` between its other commands, and only while bt_ck blocks
(`LoopBlocks`). The request to the switch stays one step: what it shares with
others, the pool of sockets, is in `Http`.

Both modules are abstract specifications of it: `Endurance` implements `Looper`
under the mapping that takes a call as done when it returns, and `BleAdv` under
the one that forgets the loop.

### KeySend

`bt_gatt_notify` is two actions of the shell, because it may wait for a buffer:
`Notify` looks at the link and the subscription, `Enqueue` hands the report on.
`Deliver` brings notifications to the host in order. The host is external:
`Connect`, `Leave` and `Disconnect` happen at any moment, and its write of the
subscription (`InputCccChanged`) arrives later than its decision, so that reports
still on their way meet a host that no longer listens. A host that has left may
come back on the same link: it asks again (`Ask`) when its last write was
answered, and takes reports (`Listen`) when this one is; the answer travels in
order with the notifications, and `ahead` counts those in front of it. Were the
host to take reports before the answer, it could meet the press of a key of
which it has dropped the release; that it does not is a property of ATT, which
allows one request at a time and answers it in order.

### EvtQueue and EvtLoop

`EvtQueue` is the abstract specification: a FIFO whose head is handled
eventually. `EvtLoop` has the list, the counter of the eventfd, the main thread
and any number of senders, each with the step between append and signal
(`AppendEvt`, `Signal`). The refinement mapping is: pending events are the event
in the handler's hand followed by `evt_list`, done events are those handled. An
event has no content but its type, and after the first all are of one type, so
the refinement is about loss, repetition and delay more than about order.
`Handle` runs the whole handler: `sta_tryconnect` for `EVT_WIFI_STA_START`,
`ble_rc_init` for `EVT_WIFI_CONNECTED`.

### Ota

Sizes are in bytes. Of a slot's content the model keeps how many bytes are
erased and written and which version of an image it holds (`Torn` for none). An
erase proceeds by sectors and a copy by chunks, each of which may fail or be the
last before a crash; a file that does not fit is refused by the erase
(`TooLarge`). `fs_read` gives any number of bytes up to what it was asked for
(`BytesRead`): fewer make a shorter turn of the loop, and none ends it
(`ReadEnds`), after which `write_ota_file_to_partition` returns 0 and the upgrade
is requested as if the file were complete; the history variable `ended` marks
these. The rounding up of the size wraps at `Wrap` as `size_t` does at 2^32: such
a file erases nothing and is copied until the write that leaves the slot
(`WriteOutside`). `Boot` is MCUboot in overwrite-only mode (sysbuild.conf): a
pending valid image in slot 1 is copied over slot 0. `calm` is a history
variable: all files were valid images and read to their ends, and no upgrade
failed or was cut off. The model is not composed with `Http`: the two meet in a file only, `upgrade` takes
any file, and the files of `Ota` are valid or not, of any size, which is more
than a download can leave.

### Http

The shell's download and bt_ck's switch request take sockets from one pool.
`http_dl_socket_init`, `http_dl_socket_connect` and `http_dl_get_req` do as
`setup_socket`, `connect_socket` and `run_http_get_req` do, so they are one set of
actions with the client as parameter. Of the file the model keeps, cell by cell,
which unit of the answer it holds (0: older content); `Write` stops short when
the card is full, as `fs_write` does. The HTTP library is external: it delivers
fragments of the body in order, and its call ends when the answer is complete,
the connection breaks or the timeout has passed. `calm` is a history variable of
the last download: no call failed, the answer was complete, was the file asked
for and no shorter than the file it overwrites (`fs_open` does not truncate),
and the card took it.

### Card

Sizes are in KB, the unit in which the arguments of `sd_speed` come; `SpeedTest`
multiplies them as the code does, modulo the width of `uint32_t`, and keeps
`size_mb`, which the command announces. `lsdir` is three steps, so that the shell
may create or remove the file between the listing, whose count is `seen`, and
what main does about it. One file
stands for the test file and the hashed one, and its content is its length.
`fs_mount`, `fs_opendir`, `fs_open`, `fs_write` and the hash library are
external: each may fail, and `fs_write` takes less than it was given, or
nothing, when the card is full. The hash opens the file and then sets up the
operation (`Setup`), which closes it again when it fails. `files` counts the file objects of the one pool
that both threads use, `dirs` and `heap` the directory objects and blocks.

## 3. Runs

| run | instance | shows |
|---|---|---|
| ble_safety | 2 callers, 2 hosts, 1 bond, failing HCI | `WakeupBounded`, `NotStranded`, `NoOrphan` |
| ble_recovery | 2 callers, 1 host, obedient controller, fair | `WakeupEnds`, `Reconnectable`, `DeletedLetGo` |
| ble_wakeup_skipped | 1 caller | finding 1: `WakeupSent` is violated |
| looper | `Retry` = 30, as in the source, fair | `StopIsHeard`, `KeepsWaking` |
| endurance | 1 host, obedient controller, the shell starts and stops the loop, fair | `WaitsOnAir`, `WakeupLeavesAir`, `QuietAfterStop`; `Endurance` implements `Looper`; `StopSettles` |
| key_send | 2 keys, 3 buffers, fair | `ReleaseComing`, `PressesAlternate`, `KeysReleased` |
| evt_loop | 2 senders, 5 events, bt_enable succeeds, fair | `NoLostWakeup`, `BringUpComing`, `ReadNeverBlocks`; `EvtLoop` implements `EvtQueue`; `BleComesUp` |
| ota | files around the sector and chunk limits and the wrap, short and empty reads, faults, crashes, 2 upgrades, fair | `WritesErased`, `TriggersWhole`, `AlwaysStarts`, `RunsLatest`, `UpgradeTakesEffect` |
| ota_target | the same | finding 2: `TargetIsIdleSlot` is violated |
| http | 2 sockets, bodies of 0, 2, 4, room for 3, faults, fair | `SocketsAccounted`, `FileIsPrefix`, `SavedWhileCalm`, `CallsNear`, `CallsEnd`, `DownloadSaves` |
| http_success | the same | finding 3: `SuccessMeansSaved` is violated |
| card | a MB of 2 KB, sizes that wrap at 8 KB, room for 5, fair | `ObjectsAccounted`, `ReportsAll`, `CommandNears`, `CommandEnds` |

Why the bounds suffice. *BleAdv* has no counter: two callers are all the program
has (shell, bt_ck), each with the calls it can make; a second host and a single
bond (`CONFIG_BT_MAX_PAIRED` is at its default, 1) reach the case of a host that
cannot be bonded. *Endurance*: the pauses and the tries between two wakeups are
counters that the callbacks and the shell do not look at: with pauses of 1 and a
wakeup on every second try every step of the loop is still taken while the
remote control is in any of its states, and the run *looper* has the numbers of
the source. Other commands of the shell are left to `ble_safety`, where bt_ck is
the second caller, and to the proofs, which are for all commands; with them the
state space is too large for liveness. `WakeupLeavesAir` excepts two cases in
which it is false: `start_adv 0`, which says itself that nothing shall end it,
and a controller that does not obey `bt_le_adv_stop`. *EvtLoop*: the races are
between one append and signal and one read and drain; two senders interleave
both, and `MaxEvents` only ends the run. *Ota*: the sizes 0, 1, and one below,
at and above the chunk, the sector and the slot are all the cases that rounding
tells apart, and with `Wrap` at four sectors 12288 is the largest size that is
rounded up without a wrap and 12289 and 16383 the first and the last that wrap;
reads give nothing, half a chunk or a chunk; a second upgrade starts from the state the first one left, a torn
one included; `MaxUpgrades` bounds the versions. *Http*: bodies that are empty,
fit and do not fit, over a file that is absent, shorter or longer. *KeySend*:
two keys tell a repeated key from another one, and three buffers hold a press, a
release and the next press while a fourth notification waits. *Card*: a MB of 2
and a wrap at 8 let the products wrap to 0 and to small numbers within sizes of
0 to 4 and buffers of 0 to 9; the heap of 3 refuses the larger buffers, the room
of 5 lies between two test sizes, and 4 file objects are more than both threads
can hold (a pool without one is the failure of `fs_open`). Deadlock is checked
except in *Ota*, where a device without an image, or one that has used up
`MaxUpgrades`, stops.

## 4. Fairness

Fairness makes no call succeed: an action in which a call fails is never disabled
by it, it only need not happen. What is assumed of calls is in the constants, and
the properties that need it say so:

* `Obedient` (`HciOutcomes = {TRUE}`): the controller obeys `bt_le_adv_start` and
  `bt_le_adv_stop`, and a connection that begins is established. `Reconnectable`,
  `DeletedLetGo`, `WakeupLeavesAir` and `WaitsOnAir` are about such a controller, and
  the runs ble_recovery and endurance have no other. With one that refuses, the
  first two are false of the code: `adv_work` logs the error (ble_rc.c:367) and
  schedules nothing, and `connected` does the same with an error (ble_rc.c:456).
  `WakeupEnds` and `StopSettles` in the same runs do not depend on it: both also
  hold with `HciOutcomes = {TRUE, FALSE}` in their configurations. The run
  ble_safety has a controller that may refuse; `NotStranded` excuses these two
  steps there.
* `FALSE \notin BtOutcomes`: `bt_enable` does not fail. `BringUpComing` and
  `BleComesUp` are about this case, and the run evt_loop has no other. After a
  failure `ble_rc_init` returns, and main tries again only at another event.

Elsewhere (*Http*, *Ota*, *Card*) a call may fail at each step of every run. The
fairness itself:

* *BleAdv*: weak fairness of each caller inside a call and of the work queue (the
  kernel runs every ready thread), of the callback under way and of the end of
  directed advertising (`DirectedTimeout`: `BT_LE_ADV_CONN_DIR` at ble_rc.c:339
  is high-duty and lasts 1.28 s), and strong fairness of timeouts and of the start
  of the switch handler: a timeout is over once and for all, and the queue is a
  FIFO, while the model, which lets other things happen first, disables them
  again and again. Nothing is assumed of users, hosts and Wi-Fi.
* *Endurance*: the fairness of *BleAdv*, and weak fairness of each statement of
  the bt_ck thread inside its call; a second of the loop ends strongly fairly, for
  the same reason as the timeouts. That the call of `try_advertising_start`
  returns, which `Looper` assumes, follows here.
* *EvtLoop*: the main thread runs, and a thread inside `evt_send` signals. That
  events arrive is not assumed.
* *Looper*: the bt_ck thread runs; its network calls return by their timeouts.
* *KeySend*: the shell thread runs, and a link delivers what it was given as long
  as it is up. That a host connects or listens is not assumed.
* *Ota*: the device goes on while it has power. Which of its steps it takes, a
  short read or an empty one among them, is left open.
* *Http*: the threads run and the library's calls return, by their timeouts if
  necessary. That the network delivers is not assumed.
* *Card*: both threads run.

The liveness properties of *Ota* and *Http* end in `~calm`: they hold of the
behaviours that are not disturbed, within runs that contain the others.

## 5. Proofs

| theorem | says | argument |
|---|---|---|
| `TypeCorrect` | `Spec => []TypeOK` (BleAdv) | one step per action |
| `WakeupAlwaysBounded` | `Spec => []WakeupBounded` | below |
| `NoAdvertiserLost`, `NeverStranded` | `Prompt => (Spec => []NoOrphan)`, and the same of `NotStranded` | below |
| `WakeupAlwaysLeavesAir` | `Prompt => (Spec => []WakeupLeavesAir)` | below |
| `LooperTyped`, `FlagTold`, `StopHeard` | (Looper) | the position in the loop and the flag; `StepsLeft` falls with each step |
| `RemoteAsAlone` | `LoopSpec => Spec`: Endurance implements BleAdv | below |
| `LoopAsAlone` | `LoopSpec => ImplementsLooper`: Endurance implements Looper | below |
| `LoopTyped`, `StoppedIsQuiet`, `WaitIsOnAir` | (Endurance); the last for `Prompt` | below |
| `KeyTyped`, `PressesAlternating`, `ReleaseOwed` | (KeySend) | below |
| `LoopTyped`, `NoWakeupLost`, `ReadDoesNotBlock` | (EvtLoop) | append precedes signal; only main lowers the counter |
| `BringUpOwed` | `Spec => []BringUpComing` (EvtLoop) | below |
| `QueueRefined` | every step of EvtLoop is a step of EvtQueue or a stutter | |
| `OtaTyped`, `WritesOnlyErased`, `TriggersOnlyWhole` | (Ota) | below |
| `StartsWhileCalm`, `RunsTheLatest` | `Spec => []AlwaysStarts`, and the same of `RunsLatest` | below |
| `HttpTyped`, `SocketsKept` | (Http) | counting the two clients |
| `FileHasNoGap`, `ReportsSaved`, `CallsComeNearer` | (Http) | below |
| `CardTyped`, `ObjectsKept`, `ReportsComplete`, `CommandsNear` | (Card) | below |

*WakeupAlwaysBounded.* `WakeupBounded` is not inductive: a timer that ends while
its work item is marked as being cancelled is dropped, so one must know that the
mark is there only while the handler runs (`CancelEnds`), and that a caller inside
a call has the command it was given (`CallsKnown`). With these, whoever sets
wakeup mode is itself inside a timed call until it re-arms, and whoever cancels
the work item is about to write the mode.

*NoAdvertiserLost* and *NeverStranded*. The invariant
relates the flag to the advertiser (`FlagFollows`), the link to the callback
under way (`LinkFollows`) and both to the 100 ms of the handler (`SleepFollows`).
A remote control that is silent though it should not be has work on its way, and
which work depends on the flag: with a clear flag any that leads to
`advertising_continue` (`ClearCarriesOn`), with a set one only such as clears the
flag first (`SetCarriesOn`), because `advertising_start` would skip. The sleep
of 100 ms is where time enters: under `Prompt` nobody's sleep ends while another
thread is between a call to the host stack and its write of the flag.

*WakeupAlwaysLeavesAir* says of the radio what *WakeupAlwaysBounded* says of the
mode, and needs both invariants and one more fact, `SwitchSilent`: while the
handler that ends wakeup mode runs, nothing is on the air, so that what it starts
afterwards is of the new mode. A reset that is on its way is lost by no other
step (`ResetKept`), and only `adv_work` puts an advertiser on the air
(`OnlyWorkStarts`), which follows the mode.

*Endurance.* Each step of the composition is one of `BleAdv` (`RemoteSteps`) and
one of `Looper` (`LoopSteps`): a call of try_advertising_start is many steps of
the first and the step in which it returns of the second, and a change of
`g_btrc_st` is a step of the callbacks there and `Link` here. So
`RemoteAsAlone` and `LoopAsAlone` carry over what is proved of either:
`LoopTyped` is the two type theorems together. *StoppedIsQuiet* needs that between
the test of the flag and the call that follows it nothing blocks, and that the
shell runs only while bt_ck blocks (`QuietInv`). *WaitIsOnAir* is *NeverStranded*
together with `AskedFor`: the loop comes to its wait only through a call, which
asks for advertising, and where delete_paired is not used and the controller
obeys nothing calls it off again (`OwedStays`).

*Steps towards an end.* Liveness itself is beyond the prover; what can be proved
is the part of it that is about single steps. `StopIsHeard`, `CallsNear` and
`CommandNears` name a measure that each step of a call lowers: the stretches
still to come and, inside a loop, what is left to receive, write, read or hash.
That it is a natural number follows from the type invariants, so that all that
is missing to the end of a call is that the thread has a step to make (no
deadlock) and makes it (fairness). `ReleaseComing`, `BringUpComing`,
`WakeupBounded` and `NotStranded` are the same for what must happen after
something else: the event, the release or the work item that will bring it about
is there at every moment.

*PressesAlternating.* In the sequence of the key that the host believes pressed
and the reports in the air, each key is followed by the report of no key; the
last of them is a key only while the shell is still to send the release and the
subscription it needs stands (`ReleaseFollows`): a host withdraws it by leaving,
which releases the key. A host that asks again on the same link takes nothing
before what was sent for its former subscription has passed: the `ahead` first
reports of the air are dropped, and the rest alternate on their own
(`Skipped`). *ReleaseOwed* reads the same invariant the other way: the
report at the head of what follows a pressed key is a release.

*BringUpOwed.* The list is looked at by its types only: what is appended stays
until it is taken (`AppendKeepsSent`, `TakeKeepsSent`), main handles what it takes
before it takes another (`InHandOnly`), and the handler of the event has run
`ble_rc_init` when it lets it go.

*Ota.* The invariant adds that whole sectors are erased and that the erase stays
within the rounded size; two multiples of 4096 are at least 4096 apart, so each
sector fits. `RoundUpBounds`, that the rounded size is at least the size, is there
only for a size whose sum does not wrap (`Unwrapped`): beyond it `WritesErased`
claims no more than that the copy stays in the slot. A read gives from 1 to the rest
of the file or nothing (`ReadGives`), so that the offset meets the size exactly. *StartsWhileCalm* adds that slot 0 is torn only between the first
erase and the last write of an upgrade that is under way, which a calm behaviour
does not leave but at its end. *RunsTheLatest* adds what slot 0 holds at each step
of an upgrade that fits, and that nothing is ever in slot 1 (`Latest`), which is
finding 2 as an invariant.

*FileHasNoGap.* The invariant adds `KeepsUp`: while a request runs, the position
in the file is what has been received, unless the card is full, in which case
nothing more is written. A write that fails ends the request, and this is what
the proof needs of it. That `free` stays within the pool comes from the count of
sockets. *ReportsSaved* adds what a calm download knows at each of its steps.

*Card.* The invariant adds `Progress`: the counters of the speed test at each of
its steps, and that `total_bytes` is the wrapped product of the `size_mb` that is
reported, so that it is the product itself where that fits. A chunk is at most what is left (`ChunkFits`), so no counter passes
its total although the total has wrapped. The one step that `CommandsNear` excepts
is the write that makes no progress (`Endless`), as `CommandEnds` does.

Assumptions: those on the constants in each module (`ConstantsAssumption`,
`EvtAssumption` and so on), which every run evaluates; for `WakeupAlwaysBounded`
that no call leaves wakeup mode without a limit (`TimedWakeups`, a part of the
property: `start_wakeup 0` has none), for `WakeupAlwaysLeavesAir` that every call
has a time and the controller obeys (`TimedCalls`, `Obedient`), for `WaitIsOnAir`
that delete_paired is not used and the controller obeys (`NotCalledOff`), for the
erased flash of `WritesOnlyErased` and the complete test of `ReportsComplete` that
the size does not wrap, for `BringUpOwed` that bt_enable succeeds, each a part of the property; and `Prompt`
where it is stated.

Every invariant and every action property of the passing runs is proved, and so
is the refinement of `Looper` by `Endurance`. The type invariants of `Looper`,
`KeySend`, `EvtLoop` and `Endurance` and `FlagMeansRunning` are proved and no
run repeats them. That a stopped loop comes to rest is part of `StopSettles`,
with the calls as long as `BleAdv` makes them, and for every length of its
pauses `StopHeard` bounds the steps it has left. Only model-checked is liveness,
for fairness and ENABLED are beyond the prover: `WakeupEnds`, `Reconnectable`,
`DeletedLetGo`, `KeepsWaking`, `StopSettles`, `KeysReleased`, `BleComesUp`,
`UpgradeTakesEffect`, `CallsEnd`, `DownloadSaves`, `CommandEnds`, and the
liveness part of the refinement of `EvtQueue`.

## 6. Findings

1. ble_rc.c:386. A `start_wakeup` that runs while `adv_work` is inside
   `bt_le_adv_start` finds the flag clear, stops nothing, later finds the flag
   set and is skipped: no wakeup advertising is sent.
2. upgrade.c:18. `SLOT1_PART_ID` names slot 0: the upgrade overwrites the slot
   that runs. When it is requested there is no other image left to roll back to,
   contrary to the comment at upgrade.c:142-143.
3. http_dl.c:242. "Download Success!" is printed whatever has happened.

Besides, `total_written` counts data that a full card did not take
(http_dl.c:115), although its comment (line 29) says downloaded and written; in
`Http` this is the difference between `total_written` and `pos`. And the loop of
sd_speed.c:69 never ends when `fs_write` keeps taking 0 bytes: the card is full,
or buf_KB times 1024 has wrapped to 0, which the test for 0 before the product
does not see. `CommandEnds` excepts exactly this state (`Endless`).

Three more cases in which the code does not do what it says are part of the models
and excepted by name in the property that would otherwise be about them:

* upgrade.c:114. An `fs_read` that returns 0 before the size is reached leaves the
  loop; line 128 prints "OTA file successfully written", `rc` is 0 and the boot of
  a part of the file is requested. `ReadEnds` is this step, `TriggersWhole` excepts
  it (`ended`).
* upgrade.c:84. The comment at line 83 says that the sectors the file needs are
  erased; above 2^32 - 4096 bytes the sum wraps, nothing is erased, and the copy
  writes to the slot until `flash_area_write` refuses at its end. `WritesErased`
  excepts these sizes (`Unwrapped`). Where the partition identifiers are as
  finding 2 has them, this is the slot that runs.
* sd_speed.c:34. The product of `size_MB` and 1024 * 1024 may wrap; the test moves
  what is left of it, as its last messages say, though line 37 has announced
  `size_MB`. `ReportsAll` is about the sizes that fit.

## 7. Plan

Done in this order: the event loop and its abstract queue, advertising, the
upgrade, the endurance loop, download and switch request, keys, the SD card;
the proofs of the races of advertising and of `Looper`; `Endurance` and its
refinement of both its parts; the steps towards the ends of the calls.

What is left:

1. The safety part of `DeletedLetGo` and of `Reconnectable`: what leads away from
   directed advertising to a deleted host is on its way at every moment; and a
   measure for the upgrade, as the calls of `Http` and `Card` have one.
2. `Endurance` with the switch request of `Http` as statements too, so that the
   loop, the remote control and the pool of sockets are one system.
3. `BleAdv` with a start-up phase in which shell commands precede `ble_rc_init`
   (ble_rc.c:782, 925), should the source come to say when they are allowed.
4. `BleAdv` with `fe_data` in a property: the wakeup names the host that the
   remote control belongs to (ble_rc.c:255, 424), should the source come to say
   which host that is.

## 8. Not modelled

* WebSocket client and RPC (wscli.c, rpc_route.c, rpc_send.c), and the socket
  branch of `poll_loop`: compiled, and unreachable. `try_connect_ws` is called
  at main.c:120, below the `#if 0` of line 118, and the timer thread
  (main.c:172) is not started, as its `k_thread_start` (line 134) is commented
  out. No state that the program can be in has a socket there.
* littlefs test (lfs.c): not compiled (CMakeLists.txt), and its call in main is
  commented out.
* Functions without a caller: `run_get_SK_v` and `run_queries` (http_client.c),
  `_bt_ck_looper`, `_bt_ck_looper_2` and `do_send_key2` (ble_rc.c),
  `fatfs_fini` and `fatfs_dump_disk_info` (fatfs.c).
* The GATT tables and the callbacks that answer reads of constants: they keep
  no state that a property could relate.
* Contents: the payload of advertising, the answers of the switch, the progress
  display and the speeds, the digest itself, JSON.
* Build files and scripts: no behaviour at run time.
* Exhaustion of the heap in `evt_send` (main.c:71) and the memory of
  `getaddrinfo` (http_dl.c:50): the source promises nothing about either.
