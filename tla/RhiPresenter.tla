---------------------------- MODULE RhiPresenter ----------------------------
(***************************************************************************)
(* The presenter (viewer/rhi_presenter.cpp): two textures, written in      *)
(* turn, of the size of the pictures.  Textures and the command buffer are *)
(* Qt's, and making a texture may fail.                                    *)
(*                                                                         *)
(* A picture is a record with a size; the rest of it is the display's.     *)
(***************************************************************************)
EXTENDS Integers

CONSTANTS
  Sizes,     \* the sizes a window has: width and height, in pixels
  NoPicture

ASSUME SizesAssumption == Sizes \subseteq (Nat \ {0}) \X (Nat \ {0}) /\ Sizes # {}

VARIABLES
  textures,   \* textures_: null, or the size and the picture in it
  size,       \* the size resize() reached last
  wanted,     \* the size setTargetSize() was given last
  turn,       \* at
  commands,   \* whether a command buffer is set
  uploaded,   \* history: whether the last picture handed over was uploaded
  torn        \* history: whether a resize failed since one did not

presenterVars == <<textures, size, wanted, turn, commands, uploaded, torn>>

Null == [of |-> <<0, 0>>, holds |-> NoPicture]

Made(s) == [of |-> s, holds |-> NoPicture]

PresenterInit ==
  /\ textures = [i \in {0, 1} |-> Null]
  /\ size = <<0, 0>> /\ wanted \in Sizes
  /\ turn = 0 /\ commands = FALSE /\ uploaded = FALSE /\ torn = FALSE

setTargetSize(s) ==
  /\ wanted' = s
  /\ UNCHANGED <<textures, size, turn, commands, uploaded, torn>>

setCommandBuffer(set) ==
  /\ commands' = set
  /\ UNCHANGED <<textures, size, wanted, turn, uploaded, torn>>

\* Mutant: the one that will be written next.
nextTexture == textures[turn]

\* The one before: what the window draws.
current == textures[(turn + 1) % 2]

\* Mutant: the second keeps its size.
FirstRemade(s) == [textures EXCEPT ![0] = Made(s)]

Remade(s) == [i \in {0, 1} |-> Made(s)]

\* resize stops at the texture that cannot be made.
ResizeFails(s) ==
  /\ size # s
  /\ \/ textures' = [textures EXCEPT ![0] = Null]
     \/ textures' = [textures EXCEPT ![0] = Made(s), ![1] = Null]
  /\ uploaded' = FALSE /\ torn' = TRUE
  /\ UNCHANGED <<size, turn>>

\* A picture goes into texture i of those in ts, if there is one, and a frame
\* to do it in.
Puts(picture, ts, i) ==
  LET uploads == ts[i].of # <<0, 0>> /\ commands
  IN  /\ textures' = IF uploads THEN [ts EXCEPT ![i].holds = picture] ELSE ts
      /\ uploaded' = uploads
      /\ turn' = (i + 1) % 2

Resized(picture) ==
  /\ size # picture.size
  /\ size' = picture.size /\ torn' = FALSE
  /\ Puts(picture, Remade(picture.size), 0)

SameSize(picture) ==
  /\ size = picture.size
  /\ Puts(picture, textures, turn)
  /\ UNCHANGED <<size, torn>>

Refuses(picture) ==
  /\ 0 \in {picture.size[1], picture.size[2]}
  /\ uploaded' = FALSE
  /\ UNCHANGED <<textures, size, turn, torn>>

\* RhiPresenter::present
Present(picture) ==
  /\ \/ Refuses(picture)
     \/ /\ 0 \notin {picture.size[1], picture.size[2]}
        /\ Resized(picture) \/ ResizeFails(picture.size) \/ SameSize(picture)
  /\ UNCHANGED <<wanted, commands>>
=============================================================================
