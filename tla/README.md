# SignerOS in TLA+

SignerOS is an air-gapped PSBT signer: a Linux image with no network, one Qt
kiosk (`src/src/btc_signer_gui`) and a handful of shell scripts
(`src/buildroot-external/board/signeros/rootfs-overlay`). This directory models
its core, checks the models with TLC and proves the most important results with
TLAPS. Below, `core/` and `ui/` are short for the kiosk's directories under
`src/src/btc_signer_gui/src`, and the scripts are named without their path.

## 1. The system

### Components, their state and what makes them correct

| component | state | operations | correct when |
|---|---|---|---|
| PSBT engine, `core/psbt_engine.cpp` | the PSBT in memory, the one static master key slot, the cached `TxSummary` | `load`, `unload`, `setKeyFromMnemonic`, `setKeyFromXprv`, `clearKey`, `sign`, `writeResult` | the summary the screens show and `sign()` obeys tells the truth about the file and the key that are resident; nothing is signed that fails a check |
| Sign screen, `ui/screen_sign.cpp` | four pages, three secure buffers, `keyChecked_`, the confirmation page's content | keystrokes (two keyboards), check, confirm, sign, write | what is signed is what was typed, checked and shown; no way out leaves a secret |
| Window, `ui/app_window.cpp` | the screen on top, `dataMounted_`, the warning banner | `showHome` ... `requestPoweroff`, Escape, F12, two polls | the screen that is left is told to clean up |
| Saving, `writeResult()` and `writeWalletExport()` | files on the stick | `access`, `open`, `write`, `fsync`, `unlink` | what the operator was told is saved is saved, and nothing else is touched |
| File names, `core/psbt_engine.cpp` | none | `sanitiseFileName`, `freeFileName`, `listPsbtFiles` | one path component, of the right kind, that is free |
| File list, `ui/screen_scan.cpp` | the list and its current row | refresh every 2.5 s and on mount changes, open | the file that is opened is the one that was picked |
| Create wallet, `ui/screen_create.cpp` | the wizard's pages, entropy, seed, the proof of the backup | 11 steps forth and back | nothing is exported before the backup was typed back; the seed is gone on every way out |
| Import wallet, `ui/screen_import.cpp` | grid, derived accounts, review | entry, derive, review, write | the export is of the words on screen; the key slot is cleared on every way out |
| Secure memory, `core/secure_memory.cpp` | bounded, locked buffers | append, slots, wipe | a slot operation moves no other word; nothing is left beyond the end |
| Entropy pool, `core/entropy.cpp` | HMAC chain, counters | `mix`, `mixUserEvent`, `finalise` | no seed without a credited source |
| Data watcher, `signeros-datawatch` | the mount, `/run/signeros-warning` | `--once`, `--daemon`, `--umount` | only a volume that was looked at is mounted, and only with its flags it stays; it is found and let go of |
| Touchpad, `ui/touchpad.cpp` | contacts, the tap that may become a click, the position measured from | one report of the pad at a time | a tap is one click, a press of the pad is one, and the pointer follows a finger |
| Session, `signer-session` | platform, failure count | restart, fall back, give up, power off | a crash does not end the session, a broken build does |
| Boot and shutdown, `S00early`, `S01mount-data`, `S99signer`, `secure-poweroff` | processes, mounts | start and stop in order | the kiosk is gone before the unmount, the unmount before the scrub |

The kiosk is one thread: its screens call the engine and each other, and its
timers and key events are handled one at a time. It shares three things with the
rest of the machine: the mount (which the watcher, a root process, changes at
any moment), `/run/signeros-warning` (written by the watcher, polled by the
window) and its exit status (42 tells the session to power off). What is hard
is in the order of things: a key, a file and a summary that change at different
moments, pages that show a copy of what may have changed, a stick that is pulled
between two system calls, and two pollers that look at a world that moves.
`PROJECT.json` lists these hazards one by one, each at its line.

### Modules

| module | models | lines of code it stands for |
|---|---|---|
| `OutputOwnership` | the decision table of `ownershipForScript()`: every form of script, with and without the redeem and witness scripts the file supplies; and `PaysOrNames`, the reference it is held against, which looks at nothing the file says | `ownershipForScript`, `p2pkhFor` ... `p2shOf`, `containsBytes` |
| `Transaction` | a parsed PSBT, abstracted to what the engine's decisions read: which input amounts are known, who is named, who owns, who signed; the script of an output, the scripts supplied for it and its keypaths | `PsbtEngine::parse`, the keypath loop of `evaluateSignability()` |
| `SigningDevice` | the abstract specification: a device without a cache that checks a transaction at the moment it signs it | none; it is what the engine promises |
| `PsbtEngine` | the engine. One action per public operation, with its failing returns: `Load`, `Unload`, `SetKey`, `ClearKey`, `Sign`, `SignRejected`. `Summarise` is `resummarise()` with `evaluateSignability()` and `deriveFindings()`, `Forgotten` is what `clearKey()` does to the summary by hand | `core/psbt_engine.cpp` |
| `SignScreen` | the sign screen and the navigation around it, composed with `PsbtEngine`, which it extends: an action is what the screen does to its own state and, where the slot calls the engine, the engine's action. One action per slot or key; the specification is `ScreenSpec`, as `Spec` is the engine's | `ui/screen_sign.cpp`, `ui/app_window.cpp`, `ui/screen_scan.cpp` |
| `Touchpad` | the driver of a pad with slots, report by report, and the pad: fingers, the button, and reports that wait while the thread is busy. A ghost record says what the touch was really like | `ui/touchpad.cpp` |
| `StickWriter` | saving, one action per system call, and what happens to sticks | `writeResult()`, `writeWalletExport()`, `SignScreen::doWrite()` |
| `DataWatch` | the watcher step by step, the operator's sticks and the kiosk's poll of the mount | `signeros-datawatch`, `AppWindow::pollDataMount()` |
| `Ordering` | sorting and filtering without recursion, so that it can be reasoned about: an element's place is the number of those before it. `FileNames` sorts its lists with it, `Grids` and `FileNames` drop marks with it | none |
| `Grids` | the operators of a row of cells, shared by the next two and by the two screens that are typed into by cell | `core/secure_memory.cpp` |
| `WordGrid` | the abstract specification: a row of cells and what each operation does to it | what `core/secure_memory.h` says of the grid view |
| `SecureString` | a secure buffer as the array and the length it is, one action per member function, so that what lies behind the end of the text is part of the state | `core/secure_memory.cpp` |
| `EntropyPool` | `finalise()` source by source, with a kernel that is seeded at any moment between them and a CPU that gives any words | `core/entropy.cpp` |
| `CreateScreen` | the wizard: pages, the grid that is typed back, the passphrase, the confirmation, the buttons, keys and the floating keyboard | `ui/screen_create.cpp`, `ui/app_window.cpp`, `ui/osk_panel.cpp` |
| `FileNames` | what a file is called for what was typed, which name is proposed, which files are listed and in which order | `sanitiseFileName`, `freeFileName`, `listPsbtFiles`, `SaveAsPage::fileName()` |
| `ScanScreen` | the list of transactions under the operator: two timers, sticks that come, go and are exchanged, the selection, and the files the kiosk saved itself | `ui/screen_scan.cpp`, `AppWindow::pollDataMount()`, `showScan()` |
| `Session` | the processes around the kiosk: the supervisor's loop, the kiosk as seen from outside (its age, key, open file and pending signal), and the chain `init` runs on the way down, next to the watcher in the middle of a mount | `signer-session`, `S99signer`, `S01mount-data`, `signeros-datawatch --umount`, `S00early`, `secure-poweroff`, `inittab` |
| `ImportScreen` | entry by cell, the count, derivation, the review for an account, naming | `ui/screen_import.cpp`, `bip39UnknownSlots()`, `buildWalletExport()` |
| `PsbtEngineProofs`, `StickWriterProofs`, `SecureStringProofs`, `ScanScreenProofs`, `SessionProofs`, `SignScreenProofs`, `CreateScreenProofs`, `ImportScreenProofs` | the theorems. `ScanScreenProofs` holds those about `FileNames` too, `SessionProofs` those about `DataWatch` and `EntropyPool`, `SignScreenProofs` those about `Touchpad`. To be extended next to another specification, these three name their own `WatchSpec`, `PoolSpec` and `PadSpec` | |
| `MC*` | constants for TLC | |

Operators whose comment says "A mutant of ..." are plausible bugs in the
definition that follows. They are in no specification; put in the place of
that definition, each makes the property named in `PROJECT.json` fail, which
shows that the property depends on the code being as it is.

## 2. What is abstracted, and what is assumed

* **Amounts and paths.** An input is known or not, the outputs overspend or not.
  A public key is the pair of a master and a path. The fee, sighash, locktime and
  branch warnings never gate anything and are left out of the findings. Totals
  are the sets of outputs they add up.
* **Scripts** are terms: the form, and the hash or the keys it is made of. A hash
  is a term as well, which says that nobody finds a collision. A script "names" a
  public key when the key stands in it verbatim, which is all `containsBytes()`
  looks for. Whether such a script can be satisfied without the key (one of several,
  or a key that is dropped again) is neither modelled nor asked by the code: of
  such an output "Verified" means that it commits to a script with the key in it.
* **Names** are sequences of marks. A mark is a character where the code looks for
  that character, and otherwise stands for letters that stay together. A suffix is
  one mark, so that `.psbt` in capitals, which the list takes too, is not a case of
  its own.
* **Texts.** A buffer holds a value from a small set. `MasterOf` says what a
  source, a text and a passphrase derive, or that they derive nothing. One
  keystroke may turn any text into any other, more than real keystrokes can.
  Two layouts of the same words are one value, as `normaliseWhitespace()` makes
  them.
  In the two screens with a grid, a letter is a model value, a word a sequence of
  them, and the word list a small set in which one word begins another. An
  export is the words, the passphrase and the account it was derived from.
* **Entropy.** The hash chain is the set of samples folded into it. A word of the
  CPU is one of the two constants or one of a few random words.
* **libwally** signs every input whose derivation leads to a key that the input
  asks for, or gives up after any subset of them (`SignRejected`).
* **The stick** is mounted with `sync`: a call's effect is on the medium when it
  returns, and a call on a stick that is gone fails at once. The mount point is
  root's, on a read-only root file system, so that without a stick `open()`
  fails. A stick may vanish at any point of a save, and be exchanged for another as
  long as the save has created nothing, between `access()` and `open()` for one.
  From the first `open()` on no other stick appears: mounting one takes the watcher
  seconds. Were it otherwise, a failed export could `unlink()` a file of the new stick.
  Elsewhere, files of a stick that is not in this machine may be deleted or put there.
* **Device nodes.** A node is not handed to another stick while it is mounted. Until
  then it may be at any moment, also between `blkid` and `mount`. `umount` may fail
  (a file is open); `umount -l`, which only detaches, does not. vfat and exFAT are
  not told apart, so that `mount -t` of the one takes the other in the model.
* **Processes.** A shell without a trap dies of SIGTERM at once, its child lives on;
  the death of a session leader hangs up its terminal, and the kiosk does not
  survive that; a fatal signal takes effect when the system call returns, SIGTERM
  when the event loop gets to it, if it does. The kernel zeroes a page that is
  freed (`init_on_free`). When memory is scrubbed, no system call on the stick
  that was under way before is still under way: overwriting the memory takes
  longer (`SlowScrub`).
* **The pad** has one axis, and movement is the distance on the pad: gain and
  acceleration only scale it. While the thread is free, a report is read before
  the clock goes on. The kernel's buffer does not overflow.
* **Keyboards.** `PhysicalKeyboard` is `config().physicalKeyboard`. With the
  floating keyboard up, the buttons of the bottom row are covered and only a
  physical Enter presses on.

## 3. Runs

Bounds are in the `.cfg` files and `MC*` modules.

| run | states | what it shows |
|---|---|---|
| `engine` | 175 | Two masters, two paths and seventeen PSBTs: change in every form of script, described honestly, dishonestly or not at all, two cosigners of whom one has signed, inputs of two wallets, and one for each refusal. All orders of load, key, clear, sign and half sign. What is labelled as change pays or names the key; labels, totals and the gate are never stale; the refinement `ImplementsDevice` holds |
| `sign_screen` | 17,260 | The engine under the screen, two masters, two texts, two passphrases, two PSBTs. A signature is made only with the key that is typed, checked and shown, on a transaction that passes the device's checks and by a page that is true of it: each output counts as leaving, or pays or names the key. Naming runs without secrets; nothing is left behind on any way out |
| `stick_writer` | 395,264 | Two sticks, three paths, two jobs, every pair of initial contents, everything pulled, full or cut off anywhere, sticks exchanged up to the first `open()`. Saved means saved, nothing is overwritten, a transaction follows its PSBT |
| `data_watch` | 285,812 | Three nodes, five sticks: two right ones with the same label, one read-only, one without the label, one with another file system; `DATA_DEV` unset, or the second node. Safety with the sticks moving at any step and `umount` failing, up to the two exceptions of `OnlyOurVolume`, and liveness |
| `secure_string` | 364 | Two letters and an array of six: every text of up to five characters, so that every operation meets a full buffer. The text and its terminator stay inside, nothing is left behind the end, and each operation is the one of `WordGrid` |
| `entropy_pool` | 38,232 | Three CPU words of five values, every combination of instructions, the kernel seeded or not at any step. A seed is credited, a working RDSEED is enough, the call returns, and trying again helps |
| `create_screen` | 1,304,052 | One and two words to write down, a list of two of which one begins the other, passphrases of up to two characters. Nothing is written that was not typed back and confirmed; a seed is never replaced by another; the buffers are empty at the end |
| `import_screen` | 330,000 | The same with a misspelt word between the two, rows whose checksum fails, two accounts, derivations that fail. What is written was reviewed, for what is typed |
| `touchpad` | 1,758,418 | Two fingers, three places on the pad (a tap's slop, a movement and a jump apart), two reports waiting. Taps are recognised over whole touches, the button and the second finger never make a phantom click, and the pointer follows a finger |
| `scan_screen` | 201,754 | Volumes of up to two files out of two transactions, a result, a hidden file and what the kiosk saves, with two times of change; six kinds of text typed for a name. The selection stays with its file, the list catches up with the stick, and what was saved is listed |
| `session` | 8,534 | `MAX_RAPID_FAILURES` as it is, every choice of platforms that work, with and without a panel; crashes, key entry and open files at any moment, a mount under way when the watcher is stopped. Giving up comes last, no kiosk with a key survives the stop, nothing is mounted for writing at the end; a request for the power to go is carried out, and a kiosk that does not crash stays up |

Two of everything is enough where the code compares one with another (two keys,
two sticks, two jobs); three nodes are needed because the watcher picks the
first of several candidates and another stick may sit before or after them.
A list in which one word begins another lets a cell be right, half typed or
wrong; two counts let a grid grow and shrink under what was typed; passphrases of
two characters can be equal, a beginning of each other, or empty. `WaitPolls = 1`
lets `--once` both succeed late and give up. Larger instances
were tried for the watcher and show nothing new; the theorems
below hold for every size.

**Fairness.** `DataWatch`, `EntropyPool`, `ScanScreen` and `Session` have liveness
properties. `EntropyPool` assumes that `finalise()` runs on once it is called, since
none of its calls waits, and that a kernel whose unseeded pool was read gets it
seeded in the end (reading it is what sets the kernel to gather timing jitter). That
the call returns, the first half of `AnswerComes`, does not need the second
assumption. `DataWatch` assumes weak fairness of the script (a process that runs on
its own and never blocks for good; the calls it makes return) and of the kiosk's
poll (a `QTimer` of an event loop that is not blocked). Nothing is assumed of the
operator: `StickIsFollowed` says what happens when the sticks are left alone from
some moment on. `ScanScreen` assumes its two timers, which an event loop that is not
blocked serves. `Session` assumes that processes nothing blocks run on, that a fatal
signal takes effect and that a kiosk on a platform that does not work dies; that a
kiosk answers SIGTERM, closes its file or ever exits is not assumed, and the way
down (`GoDown`) only waits for what it waits for in the scripts. Signing and saving
have no liveness property because they only ever wait for the operator.

### Where the sources and the code disagree

One run checks a sentence of the sources that the code does not keep; TLC finds
it violated.

* `stick_writer_failed`: after a failed `write()` or `fsync()` of a signed PSBT
  the page says "Nothing has been written" (`ui/screen_sign.cpp:1661`), but the
  partial file stays and a retry under the same name is refused.
  `writeWalletExport()` removes its file.

Others that the models follow the code in, without a run of their own:

* "A single stray keypress must not throw away a seed the operator is halfway
  through writing down" (`ui/app_window.cpp:411`) is true of Escape; F12 leads to the
  shutdown screen, and leaving the wizard wipes the seed (`LeaveByKey` of
  `CreateScreen`).
* "Leaving the sign screen by any route wipes what was typed there"
  (`ui/app_window.cpp:289`), but a wizard that was left by F12 from its confirmation
  page is still at that page, behind the other screens, and draws it again whenever
  the stick comes or goes (`ui/screen_create.cpp:792`), from the shared passphrase
  buffer. A passphrase that is being typed on the sign screen at that moment stays in
  the hidden label. (Seen in the code; no module composes the two screens.)
* "A contact shorter than this [...] is a click" (`ui/touchpad.cpp:61`), but the time is
  taken when the reports are read. A finger that rested on the pad while the thread
  was busy lands and lifts at once for the driver, and clicks on whatever is up by
  then; and a touch whose last report is a jump is a click, however far it went
  (`TapIsRecognised` leaves out `late` and `jumped`).
* `ui/screen_sign.cpp:1006` says no letter may reach the mnemonic buffer from the
  confirmation page. The floating keyboard's do (`ui/screen_sign.cpp:914` only asks
  for the naming page). The same keystroke withdraws the check, so no signature
  comes of it (`SignedAsShown` holds).
* Home is "the point at which nothing from either of them may still be resident:
  [...] no seed, no passphrase" (`ui/app_window.cpp:275`), but the wizard's
  confirmation label and the echo line of the floating keyboard keep the
  passphrase until they are drawn again (`WipeSecrets` of `CreateScreen`, which
  leaves `shown` and `echo`; the buffers are empty, `NothingInTheBuffers`).
* "Selecting a different transaction than the one the operator picked would be
  unforgivable" (`ui/screen_scan.cpp:133`), but when the picked file is missing
  from one list, as after a stick was pulled and put back, the first row is
  selected without a word. `SelectionIsKept` holds up to that (`lost`).
* The refresh every 2.5 s also hides what `openSelected()` has just said of a file it
  could not read (`Refresh` of `ScanScreen`).
* "No leading dots: neither a hidden file ..." (`core/psbt_engine.cpp:539`), but
  leading blanks are taken off after the dots, so that a name typed as a dropped
  mark, a blank and a dot, with nothing that is kept between the last two, becomes
  a hidden file, which is never listed (`SavedIsListed` names the exception; its
  exact form came out of the proof, an earlier one forgot that dropped marks may
  also stand between the blank and the dot).
* "The GUI gets SIGTERM and runs those destructors" (`secure-poweroff:16`,
  `README.md:880`): the kiosk installs no handler, so it dies without them. What
  clears its memory is the kernel (`Die`).
* "Nothing has been signed and no key material was entered" (`signer-session:296`)
  is also printed after earlier runs of the same session in which both happened
  (`Count`).

* `clearKey()` says "Back to what the file claims and nothing more"
  (`core/psbt_engine.cpp:1803`), but findings, the refusal and claimed fingerprints
  that the key led to stay (`Forgotten`). The error is on the safe side.
* `core/psbt_engine.h:115` calls an output that names another master `Claimed`;
  with a key resident the code labels it `ThirdParty`, and says why (`Label`).
* "The pair belongs together" (`core/psbt_engine.cpp:2003`), but a `.tx` of that name
  left from before is kept without a word (`Fsync`).
* "A mount that silently came up without noexec/nosuid must not be presented to the
  user as the safe one" (`signeros-datawatch:164`), but when `umount` fails (`:172`)
  the mount stays, counts as mounted from then on, and its flags are never looked at
  again (`Verify`; `OnlyOurVolume` names the exception, `stuck`). Once the kiosk runs,
  its own poll of `/proc/mounts` can also come between `mount` and the check, and
  show the volume for a moment (`PollDataMount`).
* "Every block device whose label matches DATA_LABEL is a candidate"
  (`signeros-datawatch:54`), but what is mounted is the node, whose label is not looked
  at again: a stick exchanged between `blkid` (`:81`) and `mount` (`:159`) is mounted
  without the label (`exchanged`).
* `core/psbt_engine.h:113` says that only an output is Verified that the derived key
  "reconstructs [...] byte for byte". Of an output behind a script that the file
  supplies, the code asks that the script is the one and that the key stands in it
  (`containsBytes()`, `core/psbt_engine.cpp:300`), not that the key is needed:
  `VerdictIsSound` says as much and no more.
* "More than one candidate is reported loudly" (`signeros-datawatch:56`), but
  candidates are only counted while nothing is mounted, so that a stick plugged in
  second is never reported (`Poll`).
* A second `finalise()` on one pool is what "Nothing in the flow does"
  (`core/entropy.cpp:554`); "Discard and start over" leads to it (`Discard`). The
  output is folded back, so the second seed is another one.
* A refusal says the CPU "answered with a constant" (`core/entropy.cpp:341`) also
  when all it did was to give a single word (`LookSane`).
* With the floating keyboard still up on the last page of the import, its keystrokes
  reach the buffers that were just wiped (`Typing`); they are wiped again when the
  screen is left.

## 4. Theorems

TLC checks the instances above; TLAPS proves the following for every value of
the constants that satisfies the named `ASSUME`s of the modules, and assumes
nothing else. TLC evaluates each of them in the runs. They say four kinds of
things:

* a "nothing" value differs from the somethings, and values the code compares are
  different values: `KeyAssumption`, `StickAssumption`, `PathAssumption`,
  `ContentAssumption`, `BufferAssumption`, `CharacterAssumption`, `WordAssumption`,
  `NodeAssumption`, `NameAssumption`;
* sizes are sizes: `JobsAssumption`, `CapacityAssumption`, `CellsAssumption`,
  `CountAssumption`, `FailuresAssumption`, `VolumeAssumption`, `PadAssumption`;
* inputs have the shape the type of a parameter gives them: `FileAssumption`,
  `WordsAssumption`, `LexiconAssumption`, `MasterAssumption`, `MnemonicAssumption`,
  `KeyboardAssumption`;
* `OrderAssumption`: two file names have different places in the alphabet, and times are
  numbers.

`PsbtEngineProofs`. The invariants are not inductive one by one: that totals
follow labels after `clearKey()` needs the summary's own shape, and that the
summary is current after a failed `sign()` needs to know what a signature
changes. The inductive invariant says that the summary is, up to the signable
inputs, `Summarise(psbt, key)` as long as a key is resident, and keeps the labels
and totals consistent otherwise. It rests on lemmas about the operators: adding
signatures changes neither labels nor refusals and only shrinks what is
signable, and `Forgotten` and `Summarise` produce summaries whose totals follow
their labels. From it: `TypeCorrect`, `TotalsCorrect`, `SummaryCorrect`,
`VerifiedCorrect`, and `Refinement`: each step of the engine is a step of
`SigningDevice` or a stutter, the interesting one being `Sign`, where the cached
`safeToSign` and `signable` have to imply the device's checks.

`StickWriterProofs`. `PromisesAreKept` needs to know what is on the stick in the
middle of a call: while a file is open it is one this call created and nothing
was promised of it; after the write loop it is whole; after the PSBT was synced
and before the transaction is done, the PSBT is whole on this same stick or the
stick is gone. That, with the types, is the inductive invariant. One lemma per
system call, and one about `Put`, which changes a single path. From it:
`TypeCorrect`, `PromisesKept`, `NeverOverwritten`, `TxFollows`.

`SecureStringProofs`. `TailIsWiped` alone is not inductive: what an operation
wipes is bounded by the length, so the length has to be a place in the array.
`IInv` adds this; a lemma each for what is cut, cleared, inserted and erased, one
that a slot's span lies inside the text, and one that what `normaliseWhitespace()`
keeps is no more than there was. From it: `TypeCorrect` and `SecretTailIsWiped`.

The largest proof is `Refinement`: the array and its length implement the row of
cells that `WordGrid` is, for any alphabet and any capacity. The cells are read off
the text by searching for spaces, and the code edits the text by shifting it, so what
is carried along is that the text is a row: there are cells without spaces and
offsets, one space apart, at which they stand (`IsRow`). It goes in four steps.

1. Such a row is the only one a text can be, and it is what the slot functions
   find: `SpansAre`, `PlaceIs`, `CellsAre`, and `TextLengthIs` for the length a grid
   needs.
2. What happens to the cells when the text is cut (`CutRow`), edited inside one cell
   (`EditedRow`), or gets spaces behind it (`WidenedRow`).
3. What the code's `insert`, `erase`, `setSlot` and `setSlotCount` do to the array is
   one of these edits (`InsertEdits`, `EraseEdits`, `SetSlotEdits`, `CutCuts`,
   `SpacesWiden`); hence one lemma per public operation that it is a step of
   `WordGrid` or none (`TypeStep` ... `BackspaceWordStep`), the refusals for want of
   room included.
4. `normaliseWhitespace()` is no edit in one place. A character it keeps lands at
   its rank among those that are kept, and the rank grows by one at each of them
   (`RankGrows`, `RankStays`, `RankCounts`); so words move as they are (`WordKept`) and
   the result is the row of the cells that were not empty (`ClosedRow`).

Where one would use induction over the text, the proofs take the least place at
which a claim would fail (`LeastNatural`, from the library's theorem that `<` is
well-founded) and show that it fails before.

Two theorems of `PsbtEngineProofs` are about `ownershipForScript()` alone, for every
output: `VerdictIsSound` (whatever scripts the file supplies, "Verified" is only
said of an output that pays the key alone, or that commits to a supplied script with
the key in it) and `OwnChangeIsRecognised` (and it is said of every one that does and
is described in full). The first is what `VerifiedCorrect` rests on.

`ScanScreenProofs`, for any set of names, texts and volumes. A list in order holds what
it lists, each thing once (`Places`, `InOrderIs`, `ListedIs`): an element's place is the
number of those before it, and as no two files are equal in the order of the list these
numbers are all different. With that a row that is found again is the row of the same
file: `TypeCorrect` and `PickStands` (`SelectionIsKept`). `SavedIsFound` (`SavedIsListed`)
needs to know of `sanitiseFileName()` what it leaves at the front: each stage returns a
stretch of what it got or what is left of it without the dropped marks (`DropFrontIs`,
`DropBackIs`, `AfterLastSlashIs`, `WithoutIs`, `CleanedIs`), so that a name with a dot at
the front goes back to a text with a blank and a dot that nothing kept stands between
(`TypedNameIs`); any other name has its suffix (`SuffixIsThere`), is a regular file, and is
listed (`SavedAreListed`).

Three theorems there are about the functions of `FileNames` alone. `OneComponent`: for every
text and suffix, what `sanitiseFileName()` returns is nothing, or one path component
without a mark that it drops, with the suffix; and the button of the save-as page agrees
with the writer on which it is. `FirstFreeName`: `freeFileName()` proposes the first name
that is free, except that the last one it tries is not looked at. `ListIsInOrder`: the
list holds every transaction once, inputs before results, the newer before the older.

`SessionProofs`, for every `MAX_RAPID_FAILURES`. That the two counters go together
and the loop runs on only below the limit (`Counting`), that a kiosk that is not
old holds no key, that once the supervisor is stopped it is gone for good and a
kiosk with a terminal is dying (`Stopping`), and that the watcher is gone with what
it mounted. From it: `TypeCorrect`, `GivingUp`, `KioskGone`, `CleanPoweroff`.

The watcher's theorems are about `DataWatch` by itself, for any number of nodes and
sticks. The two history variables record what the operator and `umount` did and gate
nothing. What the script saw of a candidate has still to be true when it acts:
`SeenIsTrue` says that what it saw there is still true, or no stick is there, or the node is
among those `exchanged`; that the device it goes on with is a candidate of this pass;
and that it has announced the choice. From it: `WatcherTypeCorrect`, `OnlyOurs`, which
says that the two exceptions of `OnlyOurVolume` are the only ones, and the
invariant `PickIsAnnounced` (`Announced`).

`AnswersJustified` is about `EntropyPool`, for any number of words and any values the
CPU gives: no seed without a credited source, and no refusal of a CPU whose RDSEED
works. `AnswerIsJustified` speaks of a call that has returned; the
invariant `PoolInv` says of every point in between that RDSEED is drawn once, that
the report so far claims no more than was drawn, and that the answer follows from the report.

`SignScreenProofs` extends `PsbtEngineProofs`, as the screen extends the engine. A step
of the screens is one engine operation or two (unload and forget the key, sign and forget
it), never anything else (`EngineSteps`). So the engine's invariant holds under the screens
too (`EngineInvariance`), and with it what the engine promises of the labels, the
totals and the summary (`ScreensShowTheTruth`). The confirmation page is a copy, so
the invariant of the screens adds that, while the check stands, the copy is no older than
the engine (`ConfirmIsCurrent`). From it: `CheckedIsTyped`, `NothingRemains` and the action
property `SignaturesAreShown`: what is signed is what the page shows, the page is
true, and the transaction passes the device's own checks.

`TapsRecognised` and `FingerFollowed` are about `Touchpad`, for any number of fingers,
places and waiting reports. What the driver believes is what the pad was when the
report it read last was made, and the pad is further on by the reports that wait. So
the invariant `PadInv` is about a chain: each waiting report follows from the one before
it as the pad allows, the first from what the driver has, the last ends where the
pad is, and what the ghost remembers of the touch fits the driver's own memory of it
at that place of the chain.

`CreateScreenProofs`, for every word list and number of words. The invariant says
which pages have a seed behind them and on which the keyboard, or a suggestion it
still offers, cannot be (`Behind`: otherwise a suggestion taken late would edit the
proof); that grid and cursor fit the seed (`Shape`); and what is known on each page
(`Earned`). From it: `Proved`, `NothingRemains`, and the action property
`NeverReplaced`. `TypeCorrect` rests on a second invariant (`Types`): a cell or passphrase
never gets longer than its bound because a keystroke is only taken while there is room,
and a suggestion only completes a cell to a word of the list.

`ImportScreenProofs`. The export is derived from the words with their gaps closed,
and the account can be changed later, so the words have to be closed up already
while the review is up (`Derived`). From it: `ReviewIsTrue`, `NothingRemains`. `TypeCorrect`
goes as for the other screen, with the count of the grid changing under the cursor.

Every safety invariant and every action property of the passing runs is proved, and so
are both refinements. Only model-checked is liveness (`AnswerComes`, `StickIsFollowed`,
`ListCatchesUp`, `PoweroffEnds`, `Settles`): it rests on `ENABLED` under fairness, which is
out of this prover's reach. `FailureMeansNothingWritten` is the one that TLC refutes.

## 5. Not modelled

Drawing, layout and text (theme, seed view, splash, home), the
self-test program, the RAM wipe tool, the build and flash scripts, the kernel
configuration and the website. They hold no protocol state. What cryptography
computes is left to libwally.

Of the parts that are modelled, these are left out:

* The start of the machine: the mounts of `S00early`, the self-test mode of `S99signer`
  and the kiosk's command line and device discovery run once, in a straight line,
  and nothing runs next to them.
* `estimateVsize()` and the amounts: they are displayed and never decide.
* `AppWindow` as one composition of all screens. Each screen is modelled with the
  transitions that lead into and out of it; `showHome()` clears the key, the file and
  every buffer at once, so that no two screens have a secret in the buffers at a time.
  The hidden label named above is what falls between the modules.
* Pads without slots, which count their fingers by tool bits, the other two buttons,
  the gain, and `SYN_DROPPED`, which the driver ignores: what the kernel drops then is
  not said in the sources.
* Page locking, `SecureBuffer` and `SecureObject`: calls with no state between them.
