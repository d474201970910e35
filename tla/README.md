# Swish Kernel in TLA+

A verification project for the kernel in this repository: TLA+ modules that
model its components, TLC configurations that check them on small instances,
and theorems about them for every size, checked by TLAPS. Paths below are
relative to the repository.

## 1. The system

One processor, one thread. `src/main.cpp` boots the machine and then runs one
loop for ever; everything else happens in interrupt handlers, which run with
interrupts off and share memory with the loop.

| Component | State it keeps | Operations | Talks to |
|---|---|---|---|
| Main loop (`src/main.cpp`) | where it stands; the interrupt flag | drain the input, serve a line, flush, render, `hlt` | everything below |
| Input router (`src/drivers/input/input.cpp`) | modifiers, keys down, the line being edited, `line_ready`, `dirty`, `active_context`, pointer and buttons | `process_events`, `get_line`, `fetch_line`, `flush_terminal_updates`, context switches | pops the rings; feeds terminal and compositor |
| Ring buffers (`src/drivers/input/ring_buffer.cpp`) | slots, `head`, `tail` | `push` (interrupt), `pop` (loop) | handlers and router |
| Keyboard handler (`src/drivers/input/keyboard.cpp`) | `is_enabled` | `handle_interrupt`, `disable` | pushes scancodes |
| Mouse driver (`src/drivers/input/mouse.cpp`) | packet bytes and their count | `initialize`, `handle_interrupt` | pushes events; reads `active_context` |
| PIC, IDT, dispatch (`src/drivers/pc/pic.cpp`, `src/arch/x86_64/`) | masks, gates | `remap`, `enable`, `send_eoi`, `interrupt_handler` | calls the handlers |
| Heap (`src/kernel/memory.cpp`) | the block list | `init_heap`, `kmalloc`, `kfree` | every `new` and `delete` |
| VFS and RamFS (`src/kernel/fs.cpp`, `ramfs.cpp`) | the node tree, mounts, file contents | add, find, read, write, mount, resolve a path | shell |
| Shell (`src/kernel/Shell.cpp`) | current directory | `eval_user_input` and its commands | VFS, router (display) |
| Terminal (`src/terminal.cpp`), graphics (`src/gui/Graphics.cpp`) | the text and the back buffers, the framebuffer | print, `swap_buffers` | router, loop, compositor |
| Compositor (`src/gui/Compositor.cpp`) | the window list, focus, drag | add, focus, delete, clean up, render, inject key and mouse | windows |
| Windows (`src/gui/Window.cpp`, `TerminalWindow.cpp`) | text grid, cursor, position, close flag | inject key, scroll, buttons, move | compositor |
| libc, `String`, `Vector` | buffers | copy, compare, grow | all |

What is hard here:

* **Interleaving.** Interrupts come between any two instructions of the loop
  that run with interrupts on: between its last look at the queues and `hlt`,
  between the context test and the flush. They push into the rings the loop
  drains; the drains themselves run with interrupts off.
* **Ordering in a batch.** One drain handles many scancodes; the context, the
  line and the dirty flag change in the middle of it.
* **Stale flags.** `dirty`, `line_ready`, the modifier flags and the button
  flags are summaries that must keep up with what they summarise.
* **Sleep.** The loop sleeps in `hlt`; what was missed before waits for an
  interrupt that has nothing to do with it.
* **Pointer surgery.** The heap rewrites its list on each split and merge.
* **Edges.** Full rings, a full heap, the ends of the line and of its buffer.

The full list, each at its line, is `hazards` in `PROJECT.json`.

For each component, what makes it correct:

* rings: an accepted item is delivered once, whole and in order, round the
  slots and at both limits;
* router: the delivered line is what was typed and not erased; modifiers are
  backed by keys; keys of one display do not reach the other;
* loop: it never sleeps on text that is not shown; each scancode is processed
  and each line served; a switch to the GUI is shown;
* heap: it is the longest usable stretch of the machine's memory; live blocks
  are disjoint, large enough and inside it; nothing is lost to fragmentation
  between neighbours; each call returns;
* interrupts: each finds its handler and is ended; an answer to the set-up
  reaches the keyboard's handler only if a key was taken for one; an event of
  the mouse is one movement of it;
* file system: a name is unique in its directory, every parent leads back, a
  path leads to the place it names, through dots and mounts;
* windows: the next character has a cell; what shows is the end of what was
  printed; the list is a z-order in both directions and no freed node is met; a
  press does what the picture shows at the pointer.

## 2. The plan

Done, in this order, the most important behaviour first:

1. `RingBuffer` with `BoundedFifo`, and its proofs.
2. `Heap` with `AbstractHeap`, and its proofs; `PhysicalMemory`, the boot's
   choice of the heap's region, and `KernelMemory` = `Heap` + `PhysicalMemory`,
   with their proofs.
3. `Router`: the scancode handler, as an open module of actions.
4. `InputLoop` = `Router` + the drain + the interrupts, with `LineEditor`;
   `MainLoop` = `InputLoop` + main's loop; `GetLine` = `InputLoop` + the blocking
   reader; with the proofs of both.
5. `Mouse`, and `Ps2` = `Mouse` + the controllers + the interrupts, with their
   proofs.
6. `TextGrid`, and `TerminalWindow` = `TextGrid` + the shell's prompt and
   `CommandLine`, with `Page`, and their proofs.
7. `WindowList` with `ZOrder`; `Picture` = `WindowList` + what render draws;
   `Desktop` = `Picture` + the pointer + the turns of the loop, with their
   proofs.
8. `Vfs`, with the paths cut as the code cuts them, and `PathTree`, with their
   proofs. `Vectors`, and `RamFs` with `AbstractRamFs`, with their proofs.

All of it is there; section 6 says what of it is not proved.

## 3. The modules and the code

An action is a stretch of code that nothing else can come into: a handler runs
with interrupts off; between two actions of the loop that run with interrupts
on, an interrupt can come. `map` in `PROJECT.json` has the lines of every
definition.

**`RingBuffer`** (`ring_buffer.cpp`). Both classes are the same code for two
item types. `push` runs in an interrupt and is one action (`PushRefused`,
`PushStored`); `pop` is cut at its memory accesses: `PopTest`, `PopCopy`,
`PopAdvance` (`PopEmpty` when there is nothing), with pushes between them. The
kernel turns interrupts off around every pop (`main.cpp:176`, `input.cpp:248`), so
this is more than can happen: the ring does not need it. `received`, `accepted` and
`found` are what the calls return. `BoundedFifo` is a queue of `Size - 1`
items; the ring's queue is read from the slots between `tail` and `head`.

**`Heap`** (`memory.cpp`). `heap` maps the address of each header the list
reaches to its fields; addresses and sizes are in bytes, `size_t` wraps at
`Word`. `kmalloc` is `KmallocZero` or `KmallocBegin`, `KmallocSkip` for each
block passed, then `KmallocTake` or `KmallocFail`; `kfree` is `KfreeBegin`,
then `CoalesceMerge` or `CoalesceAdvance` for each turn, and `CoalesceDone`.
`live` is what callers hold: they free what they were given, once.
`AbstractHeap` knows blocks and their sizes only, no list.

**`PhysicalMemory`**, **`KernelMemory`** (`memory.cpp` 15-58). The loader may
answer each of the two requests or not, and hands over any map of `Maps`;
`NeedMap`, `ScanEntry` for each entry, `ScanDone`, then `HandOver` of the
longest usable entry to `init_heap`, or `NoMemory`; what stops the boot stops it
for good. `KernelMemory` runs `Heap` in the region `HandOver` gave, if that is
the region `Heap` is about.

**`Router`** (`input.cpp`). One action per branch of
`process_keyboard_events`, for the scancode at the head of the queue: the E0
prefix, Caps Lock, Shift, Ctrl, Alt, Backspace, Enter, a chord, a character,
and a key that does nothing. `term_behind` and `gui_behind` say that the text,
or the windows, are not what was last drawn. `QueueKey` and `QueueMove` are the
interrupts' pushes, which a full queue drops. The tables are kept as the
characters they give (`Char`), and letters as the keys Caps Lock affects.

**`InputLoop`** (`input.cpp` 98-101, the handlers). What main's loop and
`get_line` share: `DrainKey`, `KeysDrained` and `DrainMove` with interrupts off,
and `KeyboardIrq`, `MouseIrq` and `TimerIrq`, which come wherever interrupts are
on and end a `hlt`. `pc` names the point of the loop; a turn begins at `start`.
`LineEditor` is the specification for a reader of lines; `delivered` is the line
`fetch_line` or `get_line` copied out.

**`MainLoop`** (`main.cpp` 175-209). Around the drains: `cli`, `sti`, `poll`,
`eval` of a command (one that prints, one that switches the display, `exit`),
`prompt`, the dirty test, `hlt`.

**`GetLine`** (`input.cpp` 246-274). The blocking reader, called again and
again; keys are struck between the calls too. `sti` and `hlt` are one action:
the processor takes no interrupt between them. `StopsAtLimit` is what `input.h`
promises of a line that reaches the limit.

**`Mouse`** (`mouse.cpp` 57-109). The device sends packets of three bytes
whatever the kernel does; the driver collects three while the GUI is shown and
drops bytes otherwise. `astray` records that bytes were dropped, until driver
and device meet at the start of a packet again.

**`Ps2`** (`mouse.cpp` 13-55, `pic.cpp`, `idt.cpp`, `interrupts.cpp`,
`keyboard.cpp`). The boot's port accesses one by one, against a controller that
holds one byte, two 8259s with their request, mask and service registers, a
keyboard that may be struck at any time and a mouse that reports once it was
told to; then the interrupts and their handlers with their ends of interrupt.
`Exit` is the end of main's loop: the keyboard is disabled, its handler returns
without reading the port (`handle_interrupt`), and the processor but halts.
`taken` counts the keys that the set-up's two reads took for answers. A scancode
written back as the configuration may turn translation off or not: `translate`
says that it is on for sure.
The devices are external: they are modelled from how the code uses them.

**`TextGrid`**, **`TerminalWindow`** (`Window.cpp`, `TerminalWindow.cpp`). The
grid is an array of cells with the cursor; `Put`, `NewLine` with its scrolling
and `Backspace` are the branches of `inject_key`. A terminal window prints its
prompt and answers one character at a time, reads the command back from the
cursor's row and hands it to `CommandLine` (`Shell::eval_user_input`), whose
`Scans` are the states of the loop over its characters. A plain
window has no prompt. `Page` is what the user of a terminal may rely on: the
last rows of all that was printed and typed.

**`WindowList`**, **`Desktop`** (`Compositor.cpp`, `Window.cpp`, `input.cpp`
202-242). `next` and `prev` are the nodes' pointers. Mouse events queue up
between the turns of the loop; each moves the pointer, drags the window on top
and presses or releases the window it hits; `Render` draws and then cleans up,
one node per action. `ZOrder` is the order of the windows from the bottom to
the top.

**`Picture`** (`Compositor.cpp` 95-118, `Window.cpp` 75-111, `Graphics.cpp`).
What `Render` draws, as operators: the rows of each window that have an address
on the screen (`Copied`), each copied whole from there on, which at the right
edge is into the next row; the window that covers a pixel last (`Shows`); the
part of it that shows, close button over title bar over text (`PartAt`); the
pointer's bitmap over everything. `in_picture` keeps the windows that show.
Addresses past the last pixel are not the screen's and are left out.

**`Vfs`** (`fs.cpp`, `Shell.cpp`, `main.cpp` 155-173). Nodes are numbered as
they are made; nothing frees one. A path is a sequence of slashes and names, as
long as `MaxTokens`: `Way` skips slashes and cuts segments the way
`vfs_resolve_path` does, `Split` cuts at the last slash the way
`vfs_split_path` does, runs of slashes, slashes at the end, and no slash at all
included. `Turns` is the resolution's place after each of its turns. A name
stands for its characters. `Cd`, `Touch`, `Mkdir` and `Mount` are the
commands. `PathTree` is a tree of sequences of names, and what a path means is
read from its tokens without the code's loops (`Named`, `Meaning`).

**`Vectors`**, **`RamFs`** (`Vector.hpp`, `ramfs.cpp`, `memcpy.cpp`,
`memset.cpp`, `memmove.cpp`). A vector is its capacity, its size and its cells,
which hold `Junk` until they are written. Copies go by blocks, words and a tail,
as in libc, with a smaller word; `Moved` takes memmove's steps one after the
other, as many as there are words and bytes left over, since a word it writes may
be one it has yet to read. `AbstractRamFs` is a sequence of bytes and one of
names.

## 4. The runs

| Run | What is small | What it asks |
|---|---|---|
| `ring_buffer` | 4 slots, 3 items | `RingInv`, `UnreadUntouched`, `FifoSpec` |
| `heap` | 17 words, requests 0, 1, 8, 24, 40; maps of up to 3 entries | `HeapInv`, `Reclaimed`, `BootInv`, `BlocksInUsableMemory`, `CallsReturn`, `HeapSpec` |
| `main_loop` | Backspace, Enter, T and D, which are typed and end both chords, Ctrl, Alt; queue of 2, line of 3, caller's room 2 | `LineInv`, `ScreenFreshAtHalt`, `GuiKeysStayOut`, `GuiShown`, `KeysConsumed`, `LineServed`, `EditorSpec` |
| `get_line` | Enter, D, presses and releases of Shift, and Ctrl, Alt, Caps Lock, E0; queue of 1, buffer of 2 | `NeverSleepsOnInput`, `ModifiersBacked`, `LineReturned` |
| `get_line_limit` | Enter and D, queue of 2 | `StopsAtLimit`, violated |
| `chord_g` | Ctrl, Alt, G | `GSwitchesToGui`, violated |
| `terminal_window` | 2 rows of 6 cells, one glyph and the blank, 6 typed | `TermInv`, `NothingBehindCursor`, `EnterReadsTyped`, `PageSpec` |
| `desktop` | 3 windows, a screen of 3 by 2 pixels, one event queued | `DesktopInv`, `ZOrderSpec`, `PressActsOnWhatShows`, `ReleaseEndsDrag`, `ClosedGoes` |
| `desktop_pitch` | as `desktop` | `RowsRespectPitch`, violated |
| `ps2` | two movements of the mouse | `Ps2Inv`, `EventIsMovement`, `AnswersAccounted`, `BytesAreRead`, `FallsInStep` |
| `vfs` | 3 names, paths of up to 6 slashes and names, 6 nodes | `VfsInv`, `ParentLeadsBack`, `ResolvesPlaces`, `MountShows`, `PathTreeSpec` |
| `ram_fs` | words of 2 bytes, writes of up to 5 at offsets up to 2, 3 entries | `RamFsInv`, `RamFsSpec` |

What each shows, in a sentence, is `about` in `PROJECT.json`; the comment over
each property says what it is about. Every property is also checked to be
falsifiable: `mutants` changes one definition the way a bug would, and the
property fails then.

Why the bounds are enough:

* `ring_buffer`: four slots wrap, fill and empty, with a pop under way in each
  state, and three items can be told apart. Any size is proved.
* `heap`: 17 words hold up to four blocks, so a block has neighbours on both
  sides, is split, taken whole, too small by one word, and merged on either
  side. Any size is proved. The maps have longer entries that are not usable,
  equal, empty and absent ones; one leads to the heap of the run. Any maps are
  proved.
* `main_loop`, `get_line`: the queue fills and drops; a line is shorter
  than, as long as and longer than the caller's room. `TypingBound` stops typing
  where `input_buffer` ends, since the code has no check there
  (`input.cpp:340`); `get_line_limit` lets it go on. `get_line` has all of the
  modifiers' state, with a queue of one that drops what comes in its drain; that
  what it returns is what was typed is proved only.
* `terminal_window`: two rows wrap and scroll; answers end on and behind a row's
  end; six characters fill a row behind the prompt and continue on the next.
* `desktop`: three windows overlap partly and fully, so a list has both ends
  and a middle; they have a title bar, a close button and text, one is nothing
  but a close button, and one wide enough to be dragged until its position
  wraps; the pointer comes to every pixel and leaves the screen on every side.
  `MaxY` bounds how far down it goes, since the code's lower clamp sets x
  instead (`input.cpp:222`). `Modulus` stands for 2^64.
* `ps2`: one movement's low bytes look like first bytes, the other's do not,
  which is what the driver goes by.
* `vfs`: six nodes are main's four and two more, so that a directory is made,
  filled, entered and mounted over, and main's mount is left by `..`. Five
  tokens put a slash before, between and behind two names; a sixth lets a path
  meet the place something is mounted on before its end. The run
  turns deadlock checking off: with the root and the current directory both
  mounted over, no path leads on and no command does anything.
* `ram_fs`: vectors grow from 0 to 8, by one doubling and by several; copies
  have blocks, words and tails of every length, and memmove's two ranges lie
  apart, touch, and overlap by less and by more than a word, in both directions.

Fairness, and why the code justifies it:

* `WF(LoopStep)`, `WF(CallStep)`, `WF(InCall)`, `WF(Processor)`: the one
  processor runs its code; interrupts come back to it, and nothing else is
  scheduled. None is assumed in the runs that ask safety only.
* `WF(TimerIrq)` in `MainLoop` and `Desktop`: `PIC::enable` leaves IRQ0
  unmasked, and the firmware's timer ticks; the kernel does not program it.
  This is an assumption about the machine. The mutants of `KeysConsumed` and
  `GuiShown` mask it and find input stuck. `GetLine` needs none.
* `SF(Interrupt(1))`, `SF(Interrupt(12))` in `Ps2`: between two ticks of the
  timer the processor has time for the other interrupts.
* `SF(Reply)`, `SF(Move)` in `Ps2`: the controller answers its commands, and
  the mouse is moved again and again, however much is typed. `FallsInStep` is
  about a mouse that moves.

`ZOrder`, `PathTree`, `Page`, `AbstractRamFs` say what steps may do, and a
component that did nothing would satisfy them. What it must do is in
`PressActsOnWhatShows`, `ClosedGoes`, `ResolvesPlaces`, `MountShows`,
`EnterReadsTyped` and `RamFsInv`.

### What the runs found

* `chord_g`: the chord for the GUI tests index 0x20, D, under a comment that
  says 'G' (`input.cpp:196`).
* `desktop_pitch`: a window dragged over the right edge is copied at full
  width, so that its rows run on into the next row (`Window.cpp:109`), where
  `Window.h:34` promises to respect the pitch.
* `get_line_limit`: `get_line` is documented to stop at the newline or at the
  buffer's limit (`src/include/subsystems/input.h:43-44`); nothing stops it at
  `LINE_BUFFER_SIZE`.

Met on the way, where the repository makes no statement that a run could
refute, or only in passing:

* What is queued behind Enter when `get_line` drains the queue is appended to
  the line.
* Hit testing counts a window's right and lower border line in, the picture
  leaves them out; and a window dragged partly over the upper or left edge has
  a position that wrapped: its rows may show, but no press finds it.
  `PressActsOnWhatShows` leaves these places out (`Plain`).
* The pointer's lower clamp sets x (`input.cpp:222`); y has no lower bound.
* A byte the controller holds when ICW1 is written loses its interrupt; no
  other byte comes after it (`stuck` in `Ps2`). A key struck while the
  controller is set up is taken for the configuration or for the mouse's
  acknowledgement (`taken`); `AnswersAccounted` says what that leads to.
* After `exit` the byte of a key that is struck is never read
  (`keyboard.cpp:12`), and no byte of the mouse comes behind it. `BytesAreRead`
  allows this and no more.
* A button released while the terminal is shown ends no drag: back on the
  desktop the window follows the pointer with the button up, until the button
  is released over it once more.
* In a plain window Backspace onto a row that is full leaves its last
  character, and the cursor behind it. A terminal's command that wraps is read
  from its last row only.
* A mount is followed one step: mounting on a mounted root does not show along
  paths that go through the first mount. Mounting over the root or the current
  directory leaves a tree no path leads into.
* What follows a file's name in a path is ignored, and `touch` makes names that
  are empty or dots and that no path finds.

## 5. The proofs

Thirty-five theorems, in eight modules. Each theorem's comment names the behaviour;
the steps are one per action, and one below per conjunct it can disturb.

* **`RingBufferProofs`**: `Stable`, `Untouched`, `Refinement`. From
  `SizeAssumption` (at least one slot) and `ZeroAssumption`. The inductive
  invariant is `RingInv`: beside the types it says that a pop under way has an
  item before it and, once it has copied, that the slot still holds the copy.
  The item that is delivered is then the head of the queue, which the refinement
  needs; that compares the queue read from the slots before and after a step.
* **`MemoryProofs`**, the heap: `Safety`, `NothingLost`, `Refinement`. From
  `RegionAssumption` (the region is aligned and not at 0) and
  `RequestsAssumption` (no request is within 7 of 2^64). The inductive
  invariant is `HeapInv`: types; `Tiled`, the list covers the region without a
  gap; `LiveBlocks`, the blocks in use are the ones held; `Coalesced`, no two
  free neighbours, behind the loop variable while kfree merges; `LoopInv`, the
  loops are on the list, and a search has passed only what does not fit.
  `Coalesced` is needed for a refusal to mean that no free stretch is large
  enough, and `Tiled` for a merge to give one block's worth of bytes back.
* **`MemoryProofs`**, the boot: `Boot`, `InUsableMemory`. From `MapsAssumption`
  (a map is a sequence of entries), `OffsetAssumption` and the heap's. The
  inductive invariant is `BootInv`: what the scan keeps is the longest usable
  entry among those it passed (`KeepsLongest`), and where the boot stands tells
  what it has passed (`BootProgress`). `InUsableMemory` combines it with `Tiled`.
* **`MainLoopProofs`**: of main's loop `Safety`, `Fresh`, `GuiKeys`, `Backed`,
  `Refinement`; of `get_line` `CallSafety`, `CallBacked`, `SleepsOnNothing`,
  `CallRefinement`. From the assumptions of `Router`; the two refinements also
  from `TypingAssumption`, that no line outgrows `input_buffer`, which the code
  does not see to: `MainLoop` states it and `GetLine` does not, for
  `get_line_limit` to break it. It gives `InputFits` (the line and the queued
  scancodes fit, so every store is inside), which nothing else uses: the other
  theorems hold of lines that run past the buffer as well, as far as the model
  follows them. What a store past the buffer damages, and the 16 bits of the
  index, are not modelled. The inductive invariant of both loops is `LineInv`,
  types and `NulAfterLine`, shown once for the steps they share (`Shared`).
  `Fresh` adds `BehindIsDirty`: text
  that is not shown is dirty, unless the shell is still writing it.
  The refinements need `NulAfterLine`: what Enter stores is there already, and
  the line stays as it is. `SleepsOnNothing` and `CallRefinement` need `CallInv`: behind the first
  drain no key waits, since interrupts are off until the `hlt`, and a line that
  was seen completed is still so when it is copied. The modifiers' invariant is
  `KeysBacked`, kept key by key through all the branches of the router.
* **`TerminalWindowProofs`**: `CellForNext`, `NothingBehind`, `EnterReads`,
  `Refinement`. From the assumptions of `TextGrid` and `TerminalWindow` (a window
  has a row and a column; the prompt fits its row; answers are text).
  `WindowInv` is the types and two facts about the cursor. `CursorInRow`: it
  stands past the last column only above another row; backspace puts it there,
  behind a full row, and the cell at that address is then the next row's first.
  In a terminal it never does, since backspace stops at the prompt's length, and
  from the cursor's own cell on nothing shows; `NothingBehindCursor` says that of
  the cells after it only, which a step does not keep by itself. That a row's
  text ends in the row is by the least column that is empty.
  `EnterReads` adds `TypedOnRow` (what was typed is on the row, where the cursor
  still stands behind it), and compares the scan of the line, character by
  character, with the words that a reader sees in it, for any length of word and
  any room. `Refinement` adds `TextBefore` (no cell before the cursor is empty):
  the page's last line is then the cursor's row, and a scroll, which overwrites
  row by row, drops the first line.
* **`Ps2Proofs`**: `InterruptsEnd`, `AnswersCounted`, `EventsAreMovements`. From
  `MovementsAssumption` (a movement's fields fit their bits). `ServiceInv` and
  `HeldInv` are what is in service and what the controller holds. Neither is
  enough for a handler to find its byte: `Raised` says that a request, once the
  8259s are set up, is that of the byte held. `AnswersAccounted` needs `SetUp`,
  which counts answers and keys from read to read (`Counted`): as many answers
  are on their way or held as were asked for and not read. `PhaseInv`
  relates the driver's count to the mouse's: they differ exactly while the stream
  is `astray`, and until then the bytes collected are the movement's.
* **`DesktopProofs`**: `ListIntact`, `Refinement`, `DragEnds`, `PressShown`.
  From the assumptions of `WindowList` and `Desktop` (windows are at least as
  large as their close button, positions are far from the modulus). The list's
  invariant is `Chain`: there is a sequence without repetition that `next`
  follows from the head and `prev` from the tail; each of the code's pointer
  updates is shown to make the chain of another sequence, with the node moved to
  the end or left out. `CleanUpOnList` is kept because the node the clean-up
  stands on is not the one it frees. `DragPart` says that a dragged window is
  held at its title bar, so that a release hits it. For `PressShown` the address
  of a pixel is compared: rows that wrap at the right edge, and windows that
  moved over an edge, have to miss the pixel.
* **`VfsProofs`**: `NamesUnique`, `LeadsBack`, `MountsShow`, `PathsLead`,
  `Refinement`. From `NamesAssumption` and `NodesAssumption` (main's nodes fit). The inductive
  invariant is `IInv`: types, `UniqueNames`, `ListedOnce`, `ParentLeadsBack`, and
  `MountsFlagged`, that only mount points have a target; without it a directory's
  lookup could be sent elsewhere. Paths may be of any length; that resolving a
  path meets nodes only is by the first turn that would not.
  `PathsLead` and `Refinement` add `TreeInv`: as long as only main mounts, a
  node's parent is older and lists it, and the current directory is one; once
  something else is mounted that is so for good. Places are then well defined,
  since parents are older, and two nodes have one place only if they have one
  parent and one name. Each turn of the loop follows the place as `PathTree` does
  (`FollowsPlace`: `.`, `..`, a child, a mount point, a file, nothing). The names
  the code's loop cuts from a path are all its names, whatever its slashes
  (`SegmentsAreNames`), and what `vfs_split_path` cuts off is the last of them
  (`SplitNames`).
* **`RamFsProofs`**: `ReadsRight`, `Refinement`. From `WordAssumption`,
  `BytesAssumption` and `BoundsAssumption`. The inductive invariant is `FsInv`:
  the cells in use hold bytes, or names, and not what fresh memory held, which
  `TypeOK` leaves open. A vector that doubles is large enough after at most as
  many doublings as it needs items. That copies by blocks, words and a tail touch
  every byte is division with remainder; that memmove moves every overlap right is
  by the edge of what each step has moved, for which no step reads what another
  has written.

Two attempts at a proof failed for a good reason. `MountShows` had claimed that
every path of names led to the same place before and after a mount, and a path
that meets the mounted directory before its end does not; no run had paths long
enough, and now one has. The words of a line had been defined so that a line
with a word longer than `MAX_WORD` had two readings; the definition says now
where a word that is cut ends.

The assumptions are evaluated by TLC on every run of the module that states
them.

## 6. What is only model-checked

Liveness: `CallsReturn`, `KeysConsumed`, `LineServed`, `GuiShown`,
`LineReturned`, `ClosedGoes`, `BytesAreRead`, `FallsInStep`. TLAPS proves no
liveness under fairness. Every other property of a passing run is a theorem.

The library's induction theorems are of no use here, since they take an operator
as a parameter. The recursive functions of the proofs above are reasoned about by
a lemma that says they exist and by a least counterexample, mostly one lemma for
each function; `Iterates` serves those that go on from one value to the next.

## 7. What is not modelled

* `String`, `strlen`, `strncpy` (but for the prompt's row), `cxxabi` and the
  operators `new` and `delete`: one loop or a call each, without state of their
  own. A failed `new` is not tested for anywhere, and what the kernel does then
  is not modelled.
* Colours, glyphs, number formatting and `flanterm`: layout without state that a
  property is about. That something was written, whose picture the screen
  shows, and which window and which part of it shows where, is modelled.
* `cat`, `echo`, `help`: they only print. What they print is any text.
* The encoding of descriptors and the saving of registers; the disassembly of
  exceptions: a processor exception ends the kernel.
* `limine.h`, the build files and the scripts.
* Sizes that wrap 32 or 64 bits and names longer than their arrays are assumed
  away, by name, in the modules. A line may outgrow `input_buffer`; what the
  stores past it damage is left out.
