# A verification project for the Muchiwachi firmware

Muchiwachi is a Bluetooth LE wrist watch on a Broadcom BCM2073x. Two watches
whose owners hold both buttons near each other become *peers*; turning the wrist
shows the peers in range as a radar, and a phone can set the time and send a
short message. This directory holds TLA+ models of the watch application
(`src/firmware/Apps/watch`), the TLC runs that check them on small instances and
the theorems TLAPS proves about them. File names below without a directory are
those of the application.

## Inventory

The repository holds the watch application (about 2 700 lines of C of its own),
a vendored copy of u8glib with one driver written for this watch, and the
vendor's SDK (`Wiced-Smart`, `Platforms`, `Drivers`, `Tools`, `Doc`). All the
logic of the watch is in the application.

| component | state | operations | what makes it correct |
|---|---|---|---|
| main state machine, `mainfsm.c` | `cur_state`, `ignore_wake` | ten events in six states, a transition action for some pairs of states | the scan runs in RADAR and leaks nowhere, only the user lights the panel, the configuration is saved whole, every state gets drawn |
| application shell, `main.c` | attribute database, timers | start-up, one-second timer, advertising timeout, link up and down, attribute writes | a message is shown, no callback undoes what the state machines asked for |
| buttons, `buttons.c` | two pins, two latched interrupts | an interrupt handler per pin, which reads both pins | a release is never lost |
| grouping, `groupfsm.c` | `cur_state` | start, stop, an inviting advertisement | it ends when the buttons are let go, nobody is stored without it |
| advertising and scanning, `adverts.c`, the SDK's `blecen.c` | advertising data, scan mode, scan timer | start, timeout, report | the flag on the air agrees with `groupfsm.c`; the scan outlives its timer; what one watch puts into an advertisement another reads out of it |
| two watches | the reports under way, each one's store | invite, hear, let go | nobody is stored without consent; two that face each other learn of each other |
| configuration, `display_keypress`, `nvram.h` | avatar, cursor, two NVRAM records | keys, saving, reading at boot | what is marked valid is complete, final and what is advertised |
| display pages, `display.c` | `__display_on`, EXTCOMIN, the u8g page | on, off, update, the five pictures | the glass shows one picture, and keeps changing polarity; rows, rings and places are in their tables |
| panel driver, `u8g_dev_ls010b7dh01.c`, `u8g_page.c` | page and line numbers | first page, next page, lines sent | every line is sent once per picture and arrives at its place |
| peer store, `store.c` | array of nodes, count, their NVRAM records | init, add, lookup, timestamp, strength, expiry | a durable list without repeats whose indices never move; fresh peers are shown, silent ones are not, with the strength they were heard with |
| gestures, `gestures.c` | two programs on the accelerometer, two interrupt lines | handlers, the once-a-second power cycle | no line stays high unserved, rest and motion are noticed |
| SPI | chip select, transfers | a page as one transaction | no transfer larger than the controller's 16 bytes |
| accelerometer registers, u8glib's drawing, SDK | | | not modelled, see the end |

The application runs in one thread: button handlers and Bluetooth callbacks call
the state machines directly, the accelerometer's handler through a queue
(`bleappevt_serialize`), the timer once per second. `mainfsm.c` drives
`groupfsm.c`, the display, the scan and the advertising; `groupfsm.c` drives the
advertising and the store; the radar page reads the store while it is drawn.

What is hard here: the pins are read by the handler and not when the edge came;
handlers are interleaved with timeouts of the radio; a message interrupts any
session and swallows events; NVRAM writes fail unnoticed and the power goes
between them; reads of records never written leave a variable uninitialised; the
accelerometer's programs run on between two reads of one handler and stop
sampling for no known reason; a page loop asks the clock at each page; a report of
an advertisement is looked at when its sender may long have let go. The full
list, each with its line, is under `hazards` in `PROJECT.json`.

## Modules

| module | models | how it corresponds |
|---|---|---|
| `Config` | avatar, cursor, the two records | `KeyNext`, `NextCursor` = `display_keypress`; `SaveConfig` = the two writes of `do_state_cfg`, with their order, their failures and a power loss between them; `ReadConfigValid` = a read into an uninitialised variable |
| `Display` | power, picture, message attribute | one step per call; `Panel` has the steps in between |
| `Radio` | advertising, scan, link | `StartAdverts`, `BlecenScan`, the scan's timer, connection callbacks |
| `GroupFsm` | `groupfsm.c` | `GroupingStart`, `GroupingStop`, `GroupingAdv` |
| `Grouper` | a watch as other watches meet it | what pages, buttons and gestures may do to the radio and to `groupfsm.c`, one action each; `Watch` implements it |
| `MainFsm` | `mainfsm.c` | one operator per state, holding the state function and the transition action that follows it; `BootDone` the boot |
| `Watch` | the composition | one action per handler: `Create`, `ButtonHandler`, `AccelHandler`, `SerializedCallback`, `Tick`, `AdvTimeout`, `AdvReport`, `ScanTimeout`, `LinkUp`, `LinkDown`, `WriteMessage`; `MoveButton` and `PowerLoss` are the environment. `Own` is all of it but `AdvReport`, the one step another watch takes part in |
| `Acquaintance` | the promise of pairing | abstract: who is held, whose calls are under way, who knows whom |
| `Pairing` | two watches, a third one, the air | two instances of `Grouper`; `ReachA`, `ReachB` = an advertisement becomes a report, `HearA`, `HearB` = `muchi_advertisement_report`, later |
| `TwoWatches` | two whole watches and the air of `Pairing` | two instances of `Watch`; `StepA`, `StepB` = any handler of one, `HearA`, `HearB` as in `Pairing`. Only proved about, see *How the parts fit* |
| `Adverts` | the fields of an advertisement | `Layout` = `grpr_start_adverts`, `Process` = the walk of `grpr_process_adverts` |
| `PeerStore` | the promise of the store | abstract: a list that grows by one and commits |
| `Store` | `store.c` | one action per NVRAM write, so that the power may go between any two |
| `StoreFaults` | failing NVRAM writes | extends `Store` by `RecordFails`, `CountFails`; `failed` is a history variable |
| `StoreKnown` | the store as the set the grouping works with | extends `Store`; `had`, the set when the power went, is a history variable. Only proved about |
| `Radar` | timestamps, strengths, expiry, places, rings | `Session` = `groupfsm.c`, `Meet` = a report that passes its test of the signal and whose peer is new, `Sight` = one of a known peer, `Reboot` = loading; `lastSeen` is a history variable; `Places` says which place an index may read, behind the table too |
| `Refusal` | the user's word on wake-ups | extends `Watch` by the history variable `refused`: whether he pressed ACCEPT or NEXT last in TIME. It takes the place of `ignore_wake` in the property that flag is for |
| `Gestures` | accelerometer and its handlers | program addresses as in `gestures_init`; the handler's two reads are two actions |
| `Panel` | page loop and driver | one action per page; line numbers as the driver counts them, in the width of `u8g_uint_t` |
| `Message` | `draw_message` | pure operators; `Written` = the cells of the array `line` a row copies into, and a cell holds what the latest row wrote there, as on the stack |
| `Wire` | a page on the SPI bus | pure: `BytesOf` = the bytes of one line's transaction, `Transfers` = `update_lines`, `Received` = the glass |
| `MCWatch`, `MCRefusal`, `MCPairing`, `MCStore`, `MCStoreFaults`, `MCRadar`, `MCPanel` | small instances | `MCPanel` also composes `Panel` with `Message` and `Wire`, `MCPairing` composes `Pairing` with `Adverts`, `MCRefusal` is `MCWatch` with `Refusal` |
| `WatchProofs`, `PairingProofs`, `StoreProofs`, `RadarProofs`, `GesturesProofs`, `PanelProofs`, `AdvertsProofs` | theorems | `PanelProofs` and `AdvertsProofs` are about `MCPanel` and `MCPairing`, where the parts are composed |

Notes on faithfulness:

- `cur_state` is assigned after the transition action, so `display_update` inside
  a handler draws the *old* state's picture: a tilt draws the watch once more and
  the radar with the next tick. `TimeEvent`, `RadarEvent` and `CfgEvent` keep this.
- `ScanTimeout` changes nothing on purpose: `main.c` replaces the SDK's callback,
  which would stop the scan, by one that traces. Its mutant is the default callback.
- Nothing raises `LONG_INACTIVE`; it and `grpr_stop_adverts` are left out.
- `Create` lets the store come back as any part of what it held: which part is
  the subject of `Store`.
- A definition with *Mutant* in its comment is not part of a model: it is the
  plausible bug a property is tried against.

- `Pairing` assumes two things of the SDK, whose code is not in the repository: the
  stack keeps reports in order, and reports nothing any more once the scan is off
  (`blecm_setScanEnable`, first thing in `blecen_Scan`). Reports may be lost
  (`ReachA` need not happen), repeated and late.

### How the parts fit

```
Config  Display  Radio -> GroupFsm      Gestures     Store ==> PeerStore
   \       |         \      |   \                       |  `--> StoreFaults
    `---- MainFsm -----`----'    Grouper              StoreKnown (a set, as in GroupFsm)
             |                   ^  |  |              Radar
           Watch ==implements=='  A   B               Panel, Message, Wire
           A   B                  Pairing ==implements==> Acquaintance
         TwoWatches ==implements=='                      ^
             `==================== so it implements ====='
                                  (Adverts: what a report says)
```

Two whole watches have too many states for TLC side by side, so the argument is
made in two steps. Each `Watch` implements a `Grouper`: six variables, seven kinds
of steps, nothing about pages or buttons. Two `Grouper`s and the air between them
are `Pairing`, and that implements `Acquaintance`. Both steps are checked by TLC and
proved. That they fit together is proved as well: `TwoWatches` is the pair of
whole watches, each step of it is a step of `Pairing` or a stutter, and so
`WatchesPairByConsent` carries the promise of `Acquaintance` over to them. The
theorem is about safety; that two facing watches meet is checked for `Pairing` only.

`GroupFsm` and `Watch` keep the store as a set. `StoreKnown` shows what that takes
for granted: as long as the NVRAM writes succeed, the addresses in the array of
`Store` grow, stay and shrink as that set does. When one fails, a later boot may
load a record of zeros, which is a peer nobody met (`StoreFaults` has these).

Every record says at which lines its definition is found: `map` in `PROJECT.json`.

## Runs

| run | question | bounds, and why they are enough |
|---|---|---|
| `watch` | every interleaving of handlers, environment and power losses, with the history of `Refusal` | one avatar, one peer, one message, a queue of one: no guard counts further than empty/not empty and full/not full; `ImplementsGrouper` is checked here. 1.7 million states |
| `watch_live` | configuration with failing writes, and liveness | two avatars, so that the saved and the default one differ; no peer, and UNTILT60 as the only gesture, whose handler changes the state without drawing it |
| `watch_adverts` | *violated*: adverts only after a valid configuration | as `watch`, without peers |
| `watch_inactivity` | *violated*: short inactivity turns the display off | as `watch`, without peers |
| `pairing` | consent, acquaintance, advertisements | two watches and an intruder, room for one peer in each store, so that the intruder may take the place, and for one report at each watch, so that it may fill the queue; packets of up to three fields of seven kinds, with the real lengths. 130 000 states |
| `store` | durability, refinement, order | four nodes, two records, five addresses: an even and an odd count, a full store and one address too many |
| `store_faults` | repair after failing writes | the same |
| `radar` | expiry, ghosts, strengths, rings | two peers; timestamps of 2 bits under a clock of 3, followed for the range of the clock, so that a stamp may lie ahead of it and behind it and the clock outgrows the stamps; signals on both sides of the two limits in the code: -110 and -109 dBm (the last circle ends), -50 and -49 (an invitation is accepted), and the zero of a peer not heard yet. 570 000 states |
| `radar_places` | *violated*: every peer has a place of its own | room for eleven peers, one more than the table has places; behind the table one number that is a place and one that is none |
| `gestures` | lines, and what rest and motion come to | none: the model is finite |
| `gestures_race` | *violated*: a tilt is reported as one | none |
| `panel` | page loop, EXTCOMIN, rows of a message | 32 lines in pages of 8 where the glass has 128: four pages have a first, a last and two in between, and the theorem covers every size. Messages with the real 20 characters and 4 rows, every length |

The runs cover each other's abstractions: `Watch` sends a picture in one step and
`Panel` shows what the steps in between leave; `Watch` keeps a set of peers and
`Store` shows that it is a durable list; `Pairing` has reports that wait, where
`Watch` takes one at any time; `Watch` takes any gesture at any time
and `Gestures` shows which ones come.

Type invariants are `TypeOK`. The others, and why they are not obvious:

- `InviteOnlyWhileGrouping`: each restart of the advertising clears the flag; the
  property says nothing leaves it *set* behind the end of grouping.
- `RadarScans`, `OnlyMessagesLeakScan`: in RADAR the scan runs. A message leaves
  RADAR with the scan on, and ACCEPT leads from there to TIME, where it goes on;
  the second property says that this is the only way it leaks.
- `GroupingNeedsHands`, `PairingNeedsHands`, `GroupingEnds`: MESSAGE ignores the
  release of the buttons, but the ACCEPT that leaves it has a release of its own.
- `OnlyUserLightsPanel`: a wake-up lights the panel in TIME exactly if the user's last
  word there was not ACCEPT. The property has that from the history of `Refusal`, not from
  `ignore_wake`, so it fails if the flag is lost or stuck on an excursion to RADAR or MESSAGE.
- `SavedConfigComplete`, `AdvertisedAvatarIsSaved`, `SavedConfigIsFinal`: over
  failing writes, power losses and reads of records never written.
- `PictureCatchesUp`: state changes without a drawing are repaired by the tick.
- `SavedPeersDistinct`, `PlacesAreForever`, `ImplementsPeerStore`,
  `PairingBecomesDurable`, `CleanSaveIsComplete`: see `Store` and `PeerStore`.
- `ImplementsGrouper`: what other watches may rely on. Scanning starts with a
  session and ends only with it or the radar, the flag is renewed only by a session,
  the advertising is off only before the first start, without power or for a link.
- `PairingByConsent`: whoever gets into a store sent his invitation while he was
  grouping and near, and was accepted by one who was grouping. It is not enough
  that both flags agree *now*: the report may be older than either.
- `FacingWatchesMeet`: two grouping watches that are near and listen learn of each
  other. The conditions are named because the code does let go of them: a wake-up,
  a key or the timeout of the advertising clears the flag during a session, UNTILT60
  stops the scan, a link stops the advertising, and the store may be full.
- `Understood`: the two fields fill the 31 bytes exactly, and the walk over the
  fields finds ours, and only ours, in any order and behind any others.
- `FreshIffShown`: who is on the radar, the hours in which the clock has outgrown the
  stamps included: then nobody is, however fresh.
- `RingsOrdered`: the circles follow the strength; the clamp at their end tests the wrong
  variable (`display.c:192`), and where it should apply there is no circle.
- `SavesRepairStrengths`: a new peer is saved before its strength is set, and comes
  back from a power loss with a zero, on the innermost circle. The next save repairs the
  record, and none puts a zero back, whatever reboots come between.
- `GhostsFade`: a peer loaded with a stamp of the clock before the power loss is
  shown until the new clock has passed it, but no longer.
- `HighLineIsServed`, `RestingWristLeavesRadar`, `RestAndMotionReported`: the pins
  interrupt on rising edges only, so a line left high would be the last one. The events
  that *stick* after rest or motion are right even when a handler misread the program
  counter before.
- `GlassIsWhole`, `PeerTornOnce`, `PolarityAlternates`: a radar picture may lose a
  peer half way down, once, and nothing else of it is torn.
- `PageArrives`: `cmd[0]` is the mode once and trailing zeros after that, addresses
  are bit-reversed, a page is one transaction; each line ends up whole at its place.
- `CopiesInBounds`: `draw_message` stays inside the text, the array and the glass. A text
  of up to 3 characters has no row, one of 4 to 8 a single row that nothing terminates:
  what is drawn of that one behind its characters is left open.
- `TailIsLost`: what `draw_message` does to the end of a text, at every length. A row is
  only begun when there is text for the whole of it and its NUL, and takes the remainder
  of the division; so the last four characters are never on the glass, and in their place
  the last of several rows shows the end of the row above once more.

### Fairness

`Watch`: the SDK delivers what it has latched or queued and its timer keeps firing,
hence weak fairness of `Create`, `ButtonHandler`, `SerializedCallback` and `Tick`;
none for the user, the radio, the accelerometer or the battery. `Pairing`: a report
in the stack is delivered (weak), and of the advertisements repeated while the other
listens nearby one gets through (strong: the air loses any number of them, and the
queue may be full again and again); none for the wearers. `Radar`: the clock goes on. `Store`: a save
that was begun goes on. `Panel`: the page loop is a loop, and the timer calls
`display_update`. `Gestures`: handlers and the once-a-second power cycle are
fair; the chip's own steps are *strongly* fair, as it freezes again and again but
samples for a while after each power cycle. A wrist that moves forever promises nothing.

### What disagrees with the source's comments

1. `watch_adverts`: a watch out of the factory may advertise. `config_valid` is
   uninitialised when its record was never written, and the result of the read is ignored.
2. `watch_inactivity`: MESSAGE and CFG ignore SHORT_INACTIVE, so the display stays
   on until the watch has been moved and put down again.
3. `radar_places`: the table that spreads the peers over the circle has ten places, the
   store up to a hundred peers; from the eleventh on a place is read from behind the table,
   and is one already taken or none at all, whatever the memory there holds.
4. `gestures_race`: when the handler of an earlier interrupt reads the program
   counter just before the program reaches OUTW, its second read releases the
   program held there, and the tilt is serialized as UNTILT60.

Six more are behaviour no comment contradicts: 18 hours after the power-on the clock has
outgrown the 16 bits of a timestamp, and every peer counts as expired, the one heard this
second included, until the clock wraps too (`FreshIffShown`; `store.c:22` has a TODO); peers
loaded from NVRAM are shown after a reboot by timestamps of the clock before it, up to 18
hours (`GhostsFade`); a new peer is saved before its strength and avatar are set, so after
a reboot it is on the innermost circle and has no face until it is heard
(`SavesRepairStrengths`); the last four characters of every message are lost (`TailIsLost`);
a watch whose phone has disconnected is silent until the next key, wake-up or grouping; and
one whose advertising was restarted during a session stores the other without being stored.

## Theorems

All of them hold for every value of the constants the named assumptions allow.

| theorem | statement | argument |
|---|---|---|
| `TypeCorrect` (WatchProofs) | `[]TypeOK` | one step per action; the wrap of the avatar code is `NextAvatar` |
| `GroupingSafe` | `InviteOnlyWhileGrouping`, `GroupingNeedsHands` | inductive with `GroupingStates` (grouping occurs in TIME, RADAR and MESSAGE only, where a release is understood or suspended): when the last button goes up, its edge is latched, and its handler sees it up |
| `InvitesSafe`, `ConfigComplete` | `[]InviteOnlyWhileGrouping`, `[]SavedConfigComplete` | parts of `GroupingSafe` and `ConfigSafe` |
| `RadarSafe`, `ScanContained` | `RadarScans`, `OnlyMessagesLeakScan` | by the effect of each event on the scan, lemma `ScanEvent` |
| `ConfigSafe`, `ConfigIsFinal` | `SavedConfigComplete`, `AdvertisedAvatarIsSaved`, `SavedConfigIsFinal` | inductive with `BootIsSilent`, `ConfigOnlyUnsaved` (a valid record is always read as valid, so CFG is not entered) and `AvatarIsSaved` |
| `PairingSafe` | `PairingNeedsHands` | from `GroupingInv` and the guard of `GroupingAdv` |
| `PanelStaysDark` | `OnlyUserLightsPanel` | by the effect of each event on the panel, lemmas `WhatLights` and `WakeLights`, and `FlagIsRefusal`: the flag of the code is the user's last word, as only the handlers of ACCEPT and NEXT in TIME change it (`FlagEvent`) |
| `WatchImplementsGrouper` | every step of the watch maps to a step of `Grouper` or a stutter | inductive with `BootIsDeaf` (before the boot ends nothing scans or groups); lemma `EventAsGrouper` says which step each event of `mainfsm.c` is |
| `PairingTypes` | `[]TypeOK` of `Pairing` | one step per action of each watch and of the air |
| `PairingImplementsAcquaintance` | every step of the pair maps to a step of `Acquaintance` or a stutter | inductive with `Honest` of both watches (the flag is on the air only in a session; a watch without power neither sends nor listens): when a report arrives, its sender is held, so the report is a `Call`; when it is accepted, its receiver is held and the call is there, so it is a `Learn` |
| `StoreTypes`, `StoreSafe` | `[]TypeOK`, `[]SavedPeersDistinct` | `StoreInv`: the two copies agree on the saved part, on every record already rewritten, and the count is one behind during a save |
| `PlacesFixed` | `PlacesAreForever` | from `StoreInv`: a rewritten record below the count is rewritten with what it held |
| `StoreImplementsPeerStore` | every step maps to a step of `PeerStore` or a stutter | one lemma per action; the count's write is `Commit`, record writes stutter |
| `CleanSaveRepairs` | `[]CleanSaveIsComplete` | `Written`: a save without a failure so far has written every record it has passed, whatever they held before |
| `StoreActsAsSet` | the array acts as the set `GroupFsm` and `Watch` keep (`StoreIsSet` of `StoreKnown`) | inductive with `StoreInv` and `SavedWereKnown` (what the boot would load were peers when the power went); no address is in the array twice, so the array is full exactly when the set is |
| `RadarTypes`, `RadarFresh` | `[]TypeOK`, `[]FreshIffShown` | `StampsTrue`: a stamp is the true second, cut; in the second half of the clock the cut makes it older than any expiration |
| `StrengthsRepaired` | `SavesRepairStrengths` | `Strong`: a peer that was heard has a strength, and one saved with a strength has one, as a boot loads it |
| `RingsSafe` | `[]RingsOrdered` | lemmas `RingMonotone` and `RingInside` about the division |
| `LinesServed`, `GesturesTypes` | `[]HighLineIsServed`, `[]TypeOK` | inductive with the types of the lines; with the addresses at which each program may stand |
| `ReportedUnlessEarly` | a program held on OUTW is released as what it stands for, except for a tilt whose last sample comes between the two reads of a handler that serves an earlier interrupt | `HeldOnOutw`: a held program stands behind OUTW, and the handler has read that address or, of machine 1 only, the last condition of the double tilt. This is how far finding 4 goes |
| `OnlyPagesStayLit` (WatchProofs) | short inactivity leaves the panel dark, except in MESSAGE and CFG, which change nothing | inductive: `IdleIsDark`. This is how far finding 2 goes |
| `GlassSafe`, `PeersTornOnce`, `PanelTypes` | `[](GlassIsWhole /\ PeerTornOnce)`, `[]TypeOK` | `LoopInv`: the lines above `page_y0` show the new picture; needs `Rows + RowsPerPage <= UintRange` |
| `CopiesSafe`, `TailLost` | `[]CopiesInBounds`, `[]TailIsLost` | the rows of a message by division; a cell behind the row of the moment still holds what the row before wrote (`OldCell`), no copied cell lies in the last row's length of the text (`CopiedCell`), and each character before that is in the row the division says (`EarlyDrawn`) |
| `PagesArrive` | `[]PageArrives` | lemma `ByteAt`: which byte of the transaction is which of which transfer; lemma `AddressReversed`: the glass reads every reversed address as the line that was meant |
| `WalkFinds` | `Process` takes what the first field of service data says, for every packet | the walk is a function defined by recursion; at the least field it does not read off correctly, the next field would be a lesser one |
| `AdvertsUnderstood` | `[]Understood` | `WalkFinds`, and the lengths of the fields of `Layout` |
| `WatchesPairByConsent` (TwoWatches) | every step of two whole watches maps to a step of `Acquaintance` or a stutter | inductive with the invariants of both watches, that of `Pairing` and `DeafHearNothing` (no report waits at a watch that does not scan, so a step `Pairing` does not see drops none); `OwnAsGrouper` and `ReportAsGrouper` of WatchProofs, instantiated for each watch, make its steps those of `Pairing`, whose own theorem does the rest |

The assumptions are `AvatarAssumption`, `MessageAssumption` (of `Display`),
`NodesAssumption`, `FacesAssumption`, `QueueAssumption`, `PairAssumption`, `RoomAssumption`,
`StoreAssumption` (an even capacity a UINT8 can count: pairs are written, the last pair may
hold one node more than there are), `RadarAssumption`, `PanelAssumption` (the addition in
`u8g_page_Next` does not wrap: the last page ends before the range of an `u8g_uint_t`;
with 128 lines, 8 to a page and 8 bits it does not), `LinesAssumption` (a line address is
a byte) and the `MessageAssumption` of `Message` (the rows divide the attribute evenly
and have at least two characters each: 20 and 4 in the code). TLC evaluates each of
them. `WatchesPairByConsent` has those of `Watch` and of `Pairing` as its hypothesis
`Assumptions`.

Only model-checked: all liveness (`GroupingEnds`, `PictureCatchesUp`,
`PairingBecomesDurable`, `FacingWatchesMeet`, `GhostsFade`, the two of `Gestures`,
`PolarityAlternates`), as liveness under fairness is beyond the prover. Every
invariant and every action property of a passing run is a theorem.

Only proved: `TwoWatches`, which is too large to be checked whole, and `StoreKnown`,
which asks nothing of the code that `store` does not ask already.

## Not modelled

- The accelerometer's registers beyond the two reads, u8glib's drawing, fonts,
  coordinates: data without control the properties depend on.
- `grpr_stop_adverts`, the event nothing raises that calls it, and CHARM_BUILD.
- Time set by the phone, hours and minutes: no state depends on them.
- The connection half of `blecen.c`, which this application only cancels, and the
  table of advertisers there, which it does not read.
- Whether a GPIO handler may interrupt the application thread: the source does not
  say. The models keep handlers atomic and the display's page loop uninterrupted, and
  say nothing of what an accelerometer's handler would do to the SPI block in the middle
  of a page if it may.
- Advertisements whose last field claims more bytes than there are: packets are
  taken as well-formed.
- The SDK, build files, vendor tools, the enclosure.

The application is 2 700 of the repository's quarter of a million lines. The rest is
the compiler's own headers (`Tools/ARM_GNU`), register maps and profiles of the SDK that
this program does not link, and u8glib. None of it is the program's logic, and much of the
SDK it does call is a binary; so the share of all lines that the models map stays small,
while of `mainfsm.c`, `groupfsm.c`, `adverts.c`, `store.c`, `buttons.c`, the control of
`gestures.c`, `display.c` and `main.c`, and the display's driver little is left out.

## Plan

Done, in this order: `Config`, `Display`, `Radio`, `GroupFsm`, `MainFsm`, `Watch`
and its proofs; `PeerStore`, `Store`, `StoreFaults` and theirs; `Radar`;
`Gestures`; `Panel`, `Message`; `Grouper` and the refinement of `Watch`; `Pairing`,
`Acquaintance`, `Adverts`; `Wire`; the theorems about `Message`, `Wire` and `Adverts`;
`StoreKnown`; `TwoWatches`; `Refusal`.

What could follow:

1. `Gestures` feeding `Watch`: which event sequences the serialized queue can hold,
   and what a lost one does to the radar.
2. `Panel` as a refinement of `Display`: the frame of `Display` is the picture
   asked for once the loop has ended.
3. What a failing write costs the grouping: `StoreKnown` over `StoreFaults`, where
   the set may gain a peer nobody met.
