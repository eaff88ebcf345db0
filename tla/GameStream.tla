----------------------------- MODULE GameStream -----------------------------
(***************************************************************************)
(* Game streaming (kernel/src/gaming): the table of stream clients, the    *)
(* pads with the one that the keyboard drives, frames of pixels and the    *)
(* run-length codec.  Nothing runs concurrently: every table is used under *)
(* a lock of its own or by one owner.                                      *)
(***************************************************************************)
EXTENDS Integers, Sequences, FiniteSets, SequencesExt

CONSTANTS
  MaxClients,   \* MAX_CLIENTS
  MaxRun,       \* the longest run that the codec writes
  Width, Height, Colours, \* of a frame; a colour is one channel's value
  Strings, \* byte strings that are encoded
  MaxCalls,     \* bound: calls of every kind
  None

VARIABLES
  clients,      \* slot -> None or a StreamClient
  pad, held,    \* pads[0], None when disconnected; keys that are down since it was connected
  frame, drawn, \* a VideoFrame; what has been drawn on it
  text, coded,  \* a byte string and its code
  whole,        \* history: slot -> frames that arrived whole for its present client
  part,         \* the part that a behaviour is about: the parts share no state
  calls

stream == <<clients, pad, held, frame, drawn, text, coded, whole, part, calls>>

Slots == 0 .. MaxClients - 1
Call(p) == part = p /\ calls < MaxCalls /\ calls' = calls + 1 /\ UNCHANGED part

-----------------------------------------------------------------------------
(* StreamClientTable and StreamClient.                                      *)
NewClient == [state |-> "Disconnected", frames_received |-> 0, frames_dropped |-> 0, audio_underruns |-> 0]

CreateClient ==
  /\ Call("clients")
  /\ LET free == {s \in Slots : clients[s] = None} IN
     /\ free # {}
     /\ LET s == CHOOSE x \in free : \A y \in free : x <= y
        IN  /\ clients' = [clients EXCEPT ![s] = NewClient]
            /\ whole' = [whole EXCEPT ![s] = 0]
  /\ UNCHANGED <<pad, held, frame, drawn, text, coded>>

DestroyClient(s) ==
  /\ Call("clients") /\ clients[s] # None
  /\ clients' = [clients EXCEPT ![s] = None]
  /\ UNCHANGED <<pad, held, frame, drawn, text, coded, whole>>

(* process_video_frame counts a frame of the size its header gives, or more. *)
BytesPerPixel(format) == IF format = "rgba" THEN 4 ELSE 3
ProcessVideoFrame(s, format, bytes) ==
  /\ Call("clients") /\ clients[s] # None
  /\ LET complete == bytes >= Width * Height * BytesPerPixel(format) IN
     /\ clients' = [clients EXCEPT ![s] =
          IF complete THEN [@ EXCEPT !.frames_received = @ + 1, !.state = "Streaming"]
                      ELSE [@ EXCEPT !.frames_dropped = @ + 1]]
     /\ whole' = IF bytes >= Width * Height * (IF format = "rgba" THEN 4 ELSE 3)
                 THEN [whole EXCEPT ![s] = @ + 1] ELSE whole
  /\ UNCHANGED <<pad, held, frame, drawn, text, coded>>

ProcessAudioChunk(s, enough) ==
  /\ Call("clients") /\ clients[s] # None
  /\ clients' = [clients EXCEPT ![s] = IF enough THEN [@ EXCEPT !.state = "Streaming"]
                                                 ELSE [@ EXCEPT !.audio_underruns = @ + 1]]
  /\ UNCHANGED <<pad, held, frame, drawn, text, coded, whole>>

-----------------------------------------------------------------------------
(* GamepadTable, the pad of the keyboard: two keys for each axis, one for   *)
(* each button.                                                             *)
Axes == {"left_x", "left_y"}
Keys == {[axis |-> a, value |-> v] : a \in Axes, v \in {-1, 1}} \cup {[button |-> b] : b \in {"A", "B"}}
IsButton(key) == DOMAIN key = {"button"}
Fresh == [buttons |-> {}, axes |-> [a \in Axes |-> 0]]

ConnectPad ==
  /\ Call("pad") /\ pad' = Fresh /\ held' = {}
  /\ UNCHANGED <<clients, frame, drawn, text, coded, whole>>

DisconnectPad ==
  /\ Call("pad") /\ pad # None /\ pad' = None /\ held' = {}
  /\ UNCHANGED <<clients, frame, drawn, text, coded, whole>>

Released(key) == [pad EXCEPT !.axes[key.axis] = 0]
UpdateFromKeyboard(key, pressed) ==
  /\ Call("pad")
  /\ pressed \/ key \in held
  /\ pad' = CASE pad = None -> None
              [] pad # None /\ IsButton(key) ->
                   [pad EXCEPT !.buttons = IF pressed THEN @ \cup {key.button} ELSE @ \ {key.button}]
              [] OTHER -> IF pressed THEN [pad EXCEPT !.axes[key.axis] = key.value] ELSE Released(key)
  /\ held' = IF pad = None THEN held ELSE IF pressed THEN held \cup {key} ELSE held \ {key}
  /\ UNCHANGED <<clients, frame, drawn, text, coded, whole>>

-----------------------------------------------------------------------------
(* VideoFrame: bytes of the three channels in the order of the format, and  *)
(* the alpha byte of the format that has one.                               *)
Formats == {"rgb", "rgba", "bgr"}
Channels(format) == IF format = "bgr" THEN <<3, 2, 1>> ELSE <<1, 2, 3>>
NewFrame(format) ==
  [format |-> format, data |-> [i \in 0 .. Width * Height * BytesPerPixel(format) - 1 |-> 0]]
PixelOffset(f, x, y) == (y * Width + x) * BytesPerPixel(f.format)
Inside(x, y) == x < Width /\ y < Height
PixelAt(f, x, y) ==
  IF Inside(x, y) THEN [c \in 1 .. 3 |-> f.data[PixelOffset(f, x, y) + Channels(f.format)[c] - 1]]
                  ELSE <<0, 0, 0>>

SetPixel(x, y, rgb) ==
  /\ Call("frame")
  /\ LET at == PixelOffset(frame, x, y)
         byte(i) == IF i = 4 THEN 255 ELSE rgb[Channels(frame.format)[i]]
     IN  frame' = IF ~Inside(x, y) THEN frame
                  ELSE [frame EXCEPT !.data = [i \in DOMAIN @ |->
                          IF i - at \in 0 .. BytesPerPixel(frame.format) - 1 THEN byte(i - at + 1) ELSE @[i]]]
  /\ drawn' = IF Inside(x, y) THEN [drawn EXCEPT ![<<x, y>>] = rgb] ELSE drawn
  /\ UNCHANGED <<clients, pad, held, text, coded, whole>>

-----------------------------------------------------------------------------
(* rle_encode: pairs of a count and a value, a run at a time.               *)
RunLength(s, i) ==
  CHOOSE n \in 1 .. MaxRun :
    /\ i + n - 1 <= Len(s) /\ \A k \in i .. i + n - 1 : s[k] = s[i]
    /\ n = MaxRun \/ i + n > Len(s) \/ s[i + n] # s[i]
RleEncode(s) ==
  FoldLeft(LAMBDA acc, k : IF acc.i > Len(s) THEN acc
                           ELSE [i |-> acc.i + RunLength(s, acc.i),
                                 code |-> acc.code \o <<RunLength(s, acc.i), s[acc.i]>>],
           [i |-> 1, code |-> << >>], s).code

RleDecode(c) ==
  FlattenSeq([k \in 1 .. Len(c) \div 2 |-> [i \in 1 .. c[2 * k - 1] |-> c[2 * k]]])

Encode(s) ==
  /\ Call("codec") /\ text' = s /\ coded' = RleEncode(s)
  /\ UNCHANGED <<clients, pad, held, frame, drawn, whole>>

-----------------------------------------------------------------------------
Init ==
  /\ clients = [s \in Slots |-> None] /\ whole = [s \in Slots |-> 0]
  /\ pad = Fresh /\ held = {}
  /\ frame \in {NewFrame(f) : f \in Formats}
  /\ drawn = [p \in (0 .. Width - 1) \X (0 .. Height - 1) |-> <<0, 0, 0>>]
  /\ text = << >> /\ coded = << >> /\ calls = 0
  /\ part \in {"clients", "pad", "frame", "codec"}

Next ==
  \/ CreateClient
  \/ \E s \in Slots :
       \/ DestroyClient(s)
       \/ \E format \in Formats, short \in {0, 1} :
            ProcessVideoFrame(s, format, Width * Height * BytesPerPixel(format) - short)
       \/ \E enough \in BOOLEAN : ProcessAudioChunk(s, enough)
  \/ ConnectPad \/ DisconnectPad
  \/ \E key \in Keys, pressed \in BOOLEAN : UpdateFromKeyboard(key, pressed)
  \/ \E x \in 0 .. Width, y \in 0 .. Height - 1, c \in Colours : SetPixel(x, y, <<c, 0, c>>)
  \/ \E s \in Strings : Encode(s)

Spec == Init /\ [][Next]_stream
-----------------------------------------------------------------------------
(* The pad shows a button exactly while its key is down, and an axis is     *)
(* pushed to a side only while the key of that side is down; every pixel    *)
(* reads as it was last drawn, in every format, whatever was drawn next to  *)
(* it or outside; what is encoded decodes to the same, with runs longer     *)
(* than a count can say; a client has counted the whole frames that came    *)
(* since it was created, whoever had its slot before.                       *)
MediaFaithful ==
  /\ pad # None =>
       /\ pad.buttons = {k.button : k \in {h \in held : IsButton(h)}}
       /\ \A a \in Axes : pad.axes[a] # 0 => [axis |-> a, value |-> pad.axes[a]] \in held
  /\ \A p \in DOMAIN drawn : PixelAt(frame, p[1], p[2]) = drawn[p]
  /\ RleDecode(coded) = text
  /\ \A s \in Slots : clients[s] # None => clients[s].frames_received = whole[s]
=============================================================================
