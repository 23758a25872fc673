------------------------------ MODULE MemArea ------------------------------
(***************************************************************************)
(* The memory view widget (MemArea.cpp) and the two threads that run it.   *)
(*                                                                         *)
(* The GUI thread runs the slots: slotAddressChanged, slotUpdateByTimer,   *)
(* which registers a "read <addr> <bytes>" command with the IGui command   *)
(* queue, and slotUpdateData, which handles the queued signalUpdateData.   *)
(* The command thread of the GUI plugin executes each command and calls    *)
(* handleResponse with the bytes read.  handleResponse reads reqAddr_ and  *)
(* reqBytes_, which the GUI thread writes, replaces data_, re-renders      *)
(* dataText_ (make_string frees the previous text) and emits the signal.   *)
(*                                                                         *)
(* Memory contents are abstract: a response carries the content token of   *)
(* the address it read, and two byte ranges are equal when their tokens    *)
(* are.  A rendering is the (address, byte count, content) it shows.      *)
(***************************************************************************)
EXTENDS Naturals, Sequences

CONSTANTS
  Addrs,      \* addresses the view can be pointed at
  Sizes,      \* byte counts the view can be asked for
  Contents,   \* content tokens of a memory range
  InitAddr,   \* reqAddr_ set by the constructor
  InitBytes,  \* reqBytes_ set by the constructor
  Zero,       \* the content of the constructor's 8-byte data_
  MaxQueue    \* bound on commands waiting in the IGui queue

ASSUME InitAddr \in Addrs /\ InitBytes \in Sizes /\ Zero \in Contents

VARIABLES
  reqAddr, reqBytes,  \* the request parameters, written by the GUI thread
  mem,                \* target memory: the content at each address
  queue,              \* commands registered and not yet executed
  cmd,                \* the command thread: idle, or in handleResponse
  data,               \* data_: [n, c]
  text,               \* dataText_: the rendering it holds
  pending,            \* a queued signalUpdateData not yet delivered
  gui,                \* the GUI thread inside slotUpdateData
  shown               \* what the text widget displays

vars == <<reqAddr, reqBytes, mem, queue, cmd, data, text, pending, gui, shown>>

Idle == [ph |-> "idle"]

(* to_string(addr, bytes, &dataText_) over data_. *)
Rendering(a, n, d) == [a |-> a, n |-> n, c |-> d.c]

Init ==
  /\ reqAddr = InitAddr
  /\ reqBytes = InitBytes
  /\ mem \in [Addrs -> Contents]
  /\ queue = <<>>
  /\ cmd = Idle
  /\ data = [n |-> 8, c |-> Zero]
  /\ text = Rendering(InitAddr, 0, data)
  /\ pending = FALSE
  /\ gui = Idle
  /\ shown = text

-----------------------------------------------------------------------------
(* GUI thread; a slot runs only when the thread is not inside another. *)

(* slotAddressChanged(cmd): new address and byte count. *)
AddressChanged(a, n) ==
  /\ gui = Idle
  /\ reqAddr' = a /\ reqBytes' = n
  /\ UNCHANGED <<mem, queue, cmd, data, text, pending, gui, shown>>

(* slotUpdateByTimer: the command is built from reqAddr_ and reqBytes_ now. *)
UpdateByTimer ==
  /\ gui = Idle
  /\ Len(queue) < MaxQueue
  /\ queue' = Append(queue, [a |-> reqAddr, n |-> reqBytes])
  /\ UNCHANGED <<reqAddr, reqBytes, mem, cmd, data, text, pending, gui, shown>>

(* slotUpdateData, first half: the queued signal is delivered and           *)
(* dataText_.to_string() hands back the pointer to the current text.        *)
UpdateDataLoad ==
  /\ gui = Idle /\ pending
  /\ pending' = FALSE
  /\ gui' = [ph |-> "copy", txt |-> text, valid |-> TRUE]
  /\ UNCHANGED <<reqAddr, reqBytes, mem, queue, cmd, data, text, shown>>

(* slotUpdateData, second half: tr() copies the characters and            *)
(* insertText shows them.                                                  *)
UpdateDataCopy ==
  /\ gui.ph = "copy"
  /\ shown' = gui.txt
  /\ gui' = Idle
  /\ UNCHANGED <<reqAddr, reqBytes, mem, queue, cmd, data, text, pending>>

-----------------------------------------------------------------------------
(* The target changes its memory while it runs. *)
MemoryWrite(a, c) ==
  /\ mem' = [mem EXCEPT ![a] = c]
  /\ UNCHANGED <<reqAddr, reqBytes, queue, cmd, data, text, pending, gui, shown>>

-----------------------------------------------------------------------------
(* Command thread. *)

(* The queued read is executed; its response is the requested range. *)
Execute ==
  /\ cmd = Idle /\ queue # <<>>
  /\ cmd' = [ph |-> "compare", resp |-> [n |-> Head(queue).n, c |-> mem[Head(queue).a]]]
  /\ queue' = Tail(queue)
  /\ UNCHANGED <<reqAddr, reqBytes, mem, data, text, pending, gui, shown>>

(* handleResponse, up to data_ = *resp.  The response counts as changed  *)
(* when its size differs from reqBytes_ (read now) or a byte differs from *)
(* data_.  Past data_'s size data_(i) reads whatever lies there, so a     *)
(* longer response may compare either way.                               *)
HandleCompare ==
  /\ cmd.ph = "compare"
  /\ \E changed \in BOOLEAN :
       /\ changed = (cmd.resp.n # reqBytes \/ cmd.resp.c # data.c)
          \/ (cmd.resp.n = reqBytes /\ cmd.resp.n > data.n)
       /\ IF changed THEN cmd' = [cmd EXCEPT !.ph = "render"] /\ data' = cmd.resp
                     ELSE cmd' = Idle /\ UNCHANGED data
  /\ UNCHANGED <<reqAddr, reqBytes, mem, queue, text, pending, gui, shown>>

(* Variant that renders but forgets to emit the signal. *)
HandleRenderSilent ==
  /\ cmd.ph = "render"
  /\ text' = Rendering(reqAddr, reqBytes, data)
  /\ gui' = IF gui.ph = "copy" THEN [gui EXCEPT !.valid = FALSE] ELSE gui
  /\ cmd' = Idle
  /\ UNCHANGED <<reqAddr, reqBytes, mem, queue, data, pending, shown>>

(* handleResponse, rest: to_string(reqAddr_, reqBytes_, &dataText_) with  *)
(* the request parameters read now; make_string frees the old text, which *)
(* a GUI thread inside slotUpdateData may still be copying; then emit.   *)
HandleRender ==
  /\ cmd.ph = "render"
  /\ text' = Rendering(reqAddr, reqBytes, data)
  /\ gui' = IF gui.ph = "copy" THEN [gui EXCEPT !.valid = FALSE] ELSE gui
  /\ pending' = TRUE
  /\ cmd' = Idle
  /\ UNCHANGED <<reqAddr, reqBytes, mem, queue, data, shown>>

Next ==
  \/ \E a \in Addrs, n \in Sizes : AddressChanged(a, n)
  \/ UpdateByTimer \/ UpdateDataLoad \/ UpdateDataCopy
  \/ \E a \in Addrs, c \in Contents : MemoryWrite(a, c)
  \/ Execute \/ HandleCompare \/ HandleRender

(* The Qt event loop delivers posted events, and the command thread works *)
(* through its queue: both are weakly fair.  The timer, the user and the  *)
(* target are not required to act.                                        *)
Spec ==
  /\ Init /\ [][Next]_vars
  /\ WF_vars(UpdateDataLoad) /\ WF_vars(UpdateDataCopy)
  /\ WF_vars(Execute) /\ WF_vars(HandleCompare) /\ WF_vars(HandleRender)

-----------------------------------------------------------------------------
(* Properties *)

(* slotUpdateData never copies a dataText_ buffer that handleResponse has  *)
(* freed since slotUpdateData took its pointer.                           *)
NoUseAfterFree == gui.ph = "copy" => gui.valid

(* Once handleResponse stops re-rendering, the widget comes to show the    *)
(* latest rendering: every to_string is followed by a signal that the GUI  *)
(* thread handles after it.                                               *)
DisplayCatchesUp == []<><<HandleRender>>_vars \/ <>[](shown = text)

=============================================================================
