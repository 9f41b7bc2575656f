--------------------------- MODULE MC_FrameGrabbers ---------------------------
(* Constants for model checking FrameGrabbers: every grabber, with and     *)
(* without XRender and shared memory, crops, a decimation and YUV.         *)
EXTENDS FrameGrabbers

Crop(l, r, t, b) == [left |-> l, right |-> r, top |-> t, bottom |-> b]

Multiples == {Size(4, 4), Size(8, 4), Size(12, 8)}

Setup(kind) ==
    [kind |-> kind, size |-> Size(4, 2), crop |-> NoCrop, hdec |-> 2, vdec |-> 2,
     render |-> FALSE, shm |-> FALSE, useXGetImage |-> FALSE, fill |-> FALSE,
     format |-> "BGR32", screens |-> Multiples \cup {Size(6, 4)}]

Servers ==
    {[Setup("x11") EXCEPT !.render = render, !.shm = shm, !.useXGetImage = get, !.crop = crop] :
        render, shm, get \in BOOLEAN, crop \in {NoCrop, Crop(1, 1, 0, 0), Crop(2, 1, 0, 1)}}

MCSetups ==
    Servers
    \cup {[Setup("x11") EXCEPT !.hdec = 1, !.vdec = 1, !.crop = Crop(1, 2, 1, 0)]}
    \cup {[Setup("x11") EXCEPT !.render = TRUE, !.shm = TRUE, !.vdec = 1]}
    \cup {[Setup("x11tool") EXCEPT !.render = render, !.shm = TRUE] : render \in BOOLEAN}
    \cup {[Setup("framebuffer") EXCEPT !.screens = Multiples], Setup("framebuffer"),
          [Setup("osx") EXCEPT !.size = Size(4, 4), !.screens = Multiples], Setup("amlogic")}
    \cup {[Setup("dispmanx") EXCEPT !.size = Size(6, 4), !.crop = crop, !.fill = fill] :
             crop \in {Crop(3, 0, 0, 2), Crop(3, 3, 0, 0)}, fill \in BOOLEAN}
    \cup {[Setup("v4l2") EXCEPT !.crop = Crop(1, 0, 0, 1), !.hdec = hdec, !.vdec = 1,
                                !.format = format] :
             hdec \in {1, 2}, format \in {"UYVY", "YUYV", "BGR32"}}

==============================================================================
