---------------------------- MODULE FrameGrabbers ----------------------------
(***************************************************************************)
(* From the screen to the image: what the grabbers of libsrc/grabber put   *)
(* into the image they show, through utils/ImageResampler and their own    *)
(* copying.  The image of a grabber is kept from one frame to the next, it *)
(* is resized only where the code says so, and meanwhile the screen gets   *)
(* another size and Kodi another video mode.  (Grabbers has the timers and *)
(* the channels of the same classes.)                                      *)
(*                                                                         *)
(* A pixel stands for the place on the screen it was taken from, or for    *)
(* what it holds instead: Old when it was not written by the last grab,    *)
(* Blank when it was taken from beyond the screen.  Colours and the pixel  *)
(* formats' bits are left out, but not which neighbour chroma comes from.  *)
(***************************************************************************)
EXTENDS Integers, Sequences, FiniteSets, FiniteSetsExt

CONSTANTS
    Setups,      \* the configured grabbers and the sizes of their screens, as in IsSetup
    MinSize,     \* the least width and height amlogic captures (160)
    MaxReads     \* the reads after which amlogic closes its device (20)

Kinds == {"x11", "x11tool", "framebuffer", "osx", "dispmanx", "amlogic", "v4l2"}

IsSetup(s) ==
    /\ s.kind \in Kinds
    /\ s.size.w \in Nat \ {0} /\ s.size.h \in Nat \ {0}
    /\ s.crop \in [left : Nat, right : Nat, top : Nat, bottom : Nat]
    /\ s.hdec \in Nat \ {0} /\ s.vdec \in Nat \ {0}
    /\ {s.render, s.shm, s.useXGetImage, s.fill} \subseteq BOOLEAN
    /\ s.format \in {"UYVY", "YUYV", "BGR32"}
    /\ \A size \in s.screens : size.w \in Nat \ {0} /\ size.h \in Nat \ {0}

ASSUME SetupsAreSetups == \A s \in Setups : IsSetup(s)
ASSUME LimitsArePositive == MinSize \in Nat \ {0} /\ MaxReads \in Nat

VARIABLES
    setup,    \* the grabber and its configuration
    screen,   \* the size of the screen
    mode,     \* the video mode the grabber was told
    grabber,  \* X11: the screen and the part of it known; amlogic: its device
    image,    \* the image that is kept, and the one that was shown last
    fresh,    \* history: that one was grabbed since the last change
    fault     \* "overrun" after writing beyond an image, "free" after freeing none

vars == <<setup, screen, mode, grabber, image, fresh, fault>>

Modes == {"2D", "3DSBS", "3DTAB"}

Blank == <<-1, -1>>
Old   == [luma |-> Blank, chroma |-> Blank]

Size(w, h) == [w |-> w, h |-> h]

NoCrop == [left |-> 0, right |-> 0, top |-> 0, bottom |-> 0]

-----------------------------------------------------------------------------
(* utils/Image.h: pixels beyond the size stay allocated.                   *)
NewImage(size) ==
    [size |-> size, pixels |-> [i \in 0 .. size.w * size.h - 1 |-> Old]]

Resize(img, size) ==
    IF size.w * size.h > Cardinality(DOMAIN img.pixels)
      THEN NewImage(size) ELSE [img EXCEPT !.size = size]

Forget(img) == [img EXCEPT !.pixels = [i \in DOMAIN @ |-> Old]]

At(img, x, y) == img.pixels[y * img.size.w + x]

(* for every y, for every x: img(x, y) = new(x, y).  Where the image is    *)
(* narrower than size, a row runs into the next, which overwrites it.      *)
Positions(size) == (0 .. size.w - 1) \X (0 .. size.h - 1)

Overruns(img, size) ==
    (size.h - 1) * img.size.w + size.w > Cardinality(DOMAIN img.pixels)

Fill(img, size, new) ==
    LET Rows(i) == {y \in 0 .. size.h - 1 : i - y * img.size.w \in 0 .. size.w - 1}
        New(i)  == LET y == Max(Rows(i)) IN new[i - y * img.size.w, y]
    IN [img EXCEPT !.pixels = [i \in DOMAIN @ |-> IF Rows(i) = {} THEN @[i] ELSE New(i)]]

-----------------------------------------------------------------------------
(* Where the pixels come from that the code copies.  X11: XRender scales   *)
(* and crops, otherwise the server crops.                                  *)
UsesRender == setup.render /\ ~setup.useXGetImage
UsesShm    == setup.shm /\ ~setup.useXGetImage

(* One scale for both directions, the lesser, taken after the crop was     *)
(* divided by the decimation.                                              *)
RenderSource(x, y) ==
    LET sx    == screen.w \div setup.hdec
        sy    == screen.h \div setup.vdec
        small == sx * screen.h <= sy * screen.w
        num   == IF small THEN screen.w ELSE screen.h
        den   == IF small THEN sx ELSE sy
        px    == ((setup.crop.left \div setup.hdec + x) * num) \div den
        py    == ((setup.crop.top \div setup.vdec + y) * num) \div den
    IN IF px < screen.w /\ py < screen.h THEN <<px, py>> ELSE Blank

X11Source(x, y) ==
    IF UsesRender THEN RenderSource(x, y)
    ELSE <<setup.crop.left + x, setup.crop.top + y>>

Place(x, y) == IF setup.kind \in {"x11", "x11tool"} THEN X11Source(x, y) ELSE <<x, y>>

(* With YUV, two neighbours share their chroma: the place it comes from.   *)
Sample(format, x, y) ==
    [luma   |-> Place(x, y),
     chroma |-> IF format = "BGR32" THEN Place(x, y) ELSE Place(x - (x % 2), y)]

-----------------------------------------------------------------------------
(* utils/ImageResampler.                                                   *)
Resampler(crop, hdec, vdec) == [crop |-> crop, hdec |-> hdec, vdec |-> vdec]

(* Seeded fault: the half of the wrong direction is left out.              *)
CropForSwapped(crop, size, m) ==
    IF m = "3DTAB" THEN [crop EXCEPT !.right = size.w \div 2]
    ELSE IF m = "3DSBS" THEN [crop EXCEPT !.bottom = size.h \div 2]
    ELSE crop

CropFor(crop, size, m) ==
    IF m = "3DSBS" THEN [crop EXCEPT !.right = size.w \div 2]
    ELSE IF m = "3DTAB" THEN [crop EXCEPT !.bottom = size.h \div 2]
    ELSE crop

Steps(length, decimation) == (length - decimation \div 2 + decimation - 1) \div decimation

OutputSize(r, size, m) ==
    LET crop == CropFor(r.crop, size, m)
    IN Size(Steps(size.w - crop.left - crop.right, r.hdec),
            Steps(size.h - crop.top - crop.bottom, r.vdec))

(* The image keeps its size if it has the right width or the right height. *)
Fitted(img, size) ==
    IF img.size.h # size.h /\ img.size.w # size.w THEN Resize(img, size) ELSE img

Resample(r, img, size, m, format) ==
    LET output == OutputSize(r, size, m)
    IN Fill(Fitted(img, output), output,
            [at \in Positions(output) |->
                Sample(format, r.crop.left + r.hdec \div 2 + at[1] * r.hdec,
                               r.crop.top + r.vdec \div 2 + at[2] * r.vdec)])

ResampleOverruns(r, img, size, m) ==
    Overruns(Fitted(img, OutputSize(r, size, m)), OutputSize(r, size, m))

-----------------------------------------------------------------------------
(* X11.                                                                    *)
(* Without XRender the resampler scales; with it, it never does, also when *)
(* useXGetImage says that XRender should not be used.                      *)
X11Resampler ==
    IF setup.render THEN Resampler(NoCrop, 1, 1) ELSE Resampler(NoCrop, setup.hdec, setup.vdec)

(* A crop that leaves nothing is ignored.                                  *)
Cropped(length, from, to, decimation) ==
    (IF length > from + to THEN length - from - to ELSE length) \div decimation

CroppedSize ==
    LET hdec == IF UsesRender THEN setup.hdec ELSE 1
        vdec == IF UsesRender THEN setup.vdec ELSE 1
    IN Size(Cropped(screen.w, setup.crop.left, setup.crop.right, hdec),
            Cropped(screen.h, setup.crop.top, setup.crop.bottom, vdec))

NoScreen == Size(0, 0)

(* freeResources and setupResources: only shared memory has its image made *)
(* beforehand; without it, the image to free comes from the last grab.     *)
Resources(g) == IF UsesShm THEN "made" ELSE g.xImage

FreesNothing(g) == g.known # NoScreen /\ g.known # screen /\ g.xImage = "none"

UpdateScreenDimensions(g) ==
    IF g.known = screen THEN g
    ELSE [g EXCEPT !.known = screen, !.part = CroppedSize, !.xImage = Resources(g)]

X11Grab(g, img) == Resample(X11Resampler, img, g.part, mode, "BGR32")

X11Overruns(g, img) == ResampleOverruns(X11Resampler, img, g.part, mode)

(* Without shared memory the server may refuse; the image is shown as it   *)
(* is then, and there is nothing to free the next time.                    *)
MayFail == setup.kind \in {"x11", "x11tool"} => ~UsesShm

-----------------------------------------------------------------------------
(* framebuffer and osx: decimated to about the configured size.            *)
ScaledResampler == Resampler(NoCrop, screen.w \div setup.size.w, screen.h \div setup.size.h)

ScaledGrab(img) == Resample(ScaledResampler, img, screen, mode, "BGR32")

ScaledOverruns(img) == ResampleOverruns(ScaledResampler, img, screen, mode)

(* v4l2: a new image every time.                                           *)
V4L2Resampler == Resampler(setup.crop, setup.hdec, setup.vdec)

V4L2Grab ==
    Resample(V4L2Resampler, NewImage(Size(0, 0)), screen, mode, setup.format)

-----------------------------------------------------------------------------
(* dispmanx: the GPU scales to the configured size, the code crops.  A     *)
(* video overlay is not cropped, and a crop that leaves nothing refused.   *)
DispmanxCrop ==
    LET c == setup.crop
    IN IF setup.fill \/ c.left + c.right >= setup.size.w \/ c.top + c.bottom >= setup.size.h
       THEN NoCrop ELSE c

DispmanxCorner ==
    [x |-> IF mode = "3DSBS" THEN DispmanxCrop.left \div 2 ELSE DispmanxCrop.left,
     y |-> IF mode = "3DTAB" THEN DispmanxCrop.top \div 2 ELSE DispmanxCrop.top]

DispmanxSize ==
    LET w == setup.size.w - DispmanxCrop.left - DispmanxCrop.right
        h == setup.size.h - DispmanxCrop.top - DispmanxCrop.bottom
    IN Size(IF mode = "3DSBS" THEN w \div 2 ELSE w, IF mode = "3DTAB" THEN h \div 2 ELSE h)

DispmanxFit(img) == IF img.size = DispmanxSize THEN img ELSE Resize(img, DispmanxSize)

DispmanxGrab(img) ==
    Fill(DispmanxFit(img), DispmanxSize,
         [at \in Positions(DispmanxSize) |->
             Sample("BGR32", DispmanxCorner.x + at[1], DispmanxCorner.y + at[2])])

(* amlogic: the driver scales; the video mode does nothing.  The device is *)
(* opened when needed, and closed after errors and after many reads.       *)
AmlogicSize == Size(Max({MinSize, setup.size.w}), Max({MinSize, setup.size.h}))

AmlogicFit(img) == IF img.size = AmlogicSize THEN img ELSE Resize(img, AmlogicSize)

AmlogicGrab(img) ==
    Fill(AmlogicFit(img), AmlogicSize,
         [at \in Positions(AmlogicSize) |-> Sample("BGR32", at[1], at[2])])

AmlogicErrors == {"no video", "not opened", "not configured", "not read"}

AfterRead(g) ==
    IF g.reads + 1 > MaxReads THEN [g EXCEPT !.open = FALSE, !.reads = 0]
    ELSE [g EXCEPT !.open = TRUE, !.reads = @ + 1]

AfterError(g, error) ==
    IF error = "no video" THEN g ELSE [g EXCEPT !.open = FALSE]

-----------------------------------------------------------------------------
NewGrabber ==
    [known |-> NoScreen, part |-> NoScreen, xImage |-> "none", open |-> FALSE, reads |-> 0]

(* X11Wrapper::start looks at the screen and resizes the image; the other  *)
(* wrappers make it in the configured size, and the tool's is empty.       *)
Init ==
    /\ setup \in Setups
    /\ screen \in setup.screens
    /\ mode = "2D"
    /\ grabber = IF setup.kind = "x11" THEN UpdateScreenDimensions(NewGrabber) ELSE NewGrabber
    /\ image = CASE setup.kind = "x11"     -> NewImage(grabber.part)
                 [] setup.kind = "x11tool" -> NewImage(Size(0, 0))
                 [] OTHER                  -> NewImage(setup.size)
    /\ fresh = FALSE
    /\ fault = "none"

ScreenResized(size) ==
    /\ size # screen
    /\ screen' = size
    /\ fresh' = FALSE
    /\ UNCHANGED <<setup, mode, grabber, image, fault>>

SetVideoMode(m) ==
    /\ m # mode
    /\ mode' = m
    /\ fresh' = FALSE
    /\ UNCHANGED <<setup, screen, grabber, image, fault>>

(* Seeded fault: the image keeps the size of the screen it was made for.   *)
X11SizedOnce(g, img) == img

(* action() resizes its image with the screen; so does the tool's grab().  *)
X11Sized(g, img) == IF g.known = screen THEN img ELSE Resize(img, CroppedSize)

(* A grab that fails leaves the image as it is; whatever happens, the      *)
(* wrapper shows it, unless the screen's size cannot be had.               *)
X11Action(fails) ==
    LET updated == UpdateScreenDimensions(grabber)
        sized   == X11Sized(grabber, Forget(image))
    IN /\ setup.kind \in {"x11", "x11tool"}
       /\ fails => MayFail
       /\ grabber' = [updated EXCEPT !.xImage = IF UsesShm THEN @
                                                ELSE IF fails THEN "none" ELSE "got"]
       /\ image' = IF fails THEN sized ELSE X11Grab(updated, sized)
       /\ fault' = IF FreesNothing(grabber) THEN "free"
                   ELSE IF ~fails /\ X11Overruns(updated, sized) THEN "overrun" ELSE "none"
       /\ fresh' = (~fails /\ fault' # "free")
       /\ UNCHANGED <<setup, screen, mode>>

(* A framebuffer of unknown depth or a lost display leaves the image.      *)
ScaledAction(fails) ==
    /\ setup.kind \in {"framebuffer", "osx"}
    /\ image' = IF fails THEN Forget(image) ELSE ScaledGrab(Forget(image))
    /\ fresh' = ~fails
    /\ fault' = IF ~fails /\ ScaledOverruns(image) THEN "overrun" ELSE "none"
    /\ UNCHANGED <<setup, screen, mode, grabber>>

V4L2Action ==
    /\ setup.kind = "v4l2"
    /\ image' = V4L2Grab
    /\ fresh' = TRUE
    /\ UNCHANGED <<setup, screen, mode, grabber, fault>>

DispmanxAction(fails) ==
    /\ setup.kind = "dispmanx"
    /\ image' = IF fails THEN DispmanxFit(Forget(image)) ELSE DispmanxGrab(Forget(image))
    /\ fresh' = ~fails
    /\ UNCHANGED <<setup, screen, mode, grabber, fault>>

AmlogicAction ==
    /\ setup.kind = "amlogic"
    /\ image' = AmlogicGrab(Forget(image))
    /\ grabber' = AfterRead(grabber)
    /\ fresh' = TRUE
    /\ UNCHANGED <<setup, screen, mode, fault>>

(* Nothing is shown; a device that is open need not be opened.             *)
AmlogicFails(error) ==
    /\ setup.kind = "amlogic"
    /\ error = "not opened" => ~grabber.open
    /\ image' = AmlogicFit(Forget(image))
    /\ grabber' = AfterError(grabber, error)
    /\ fresh' = FALSE
    /\ UNCHANGED <<setup, screen, mode, fault>>

Next ==
    /\ fault = "none"
    /\ \/ \E size \in setup.screens : ScreenResized(size)
       \/ \E m \in Modes : SetVideoMode(m)
       \/ \E fails \in BOOLEAN : X11Action(fails) \/ ScaledAction(fails) \/ DispmanxAction(fails)
       \/ V4L2Action
       \/ AmlogicAction
       \/ \E error \in AmlogicErrors : AmlogicFails(error)

Spec == Init /\ [][Next]_vars

-----------------------------------------------------------------------------
IsX11     == setup.kind \in {"x11", "x11tool"}
IsScaled  == setup.kind \in {"framebuffer", "osx"}
ShownAt   == Positions(image.size)
Shown(at) == At(image, at[1], at[2])

(* The picture a grabber takes pixels from, and the part it was told to.   *)
Picture ==
    CASE setup.kind = "dispmanx" -> setup.size
      [] setup.kind = "amlogic"  -> AmlogicSize
      [] OTHER                   -> screen

PartCrop ==
    CASE setup.kind = "dispmanx"          -> DispmanxCrop
      [] IsScaled \/ setup.kind = "amlogic" -> NoCrop
      [] OTHER                            -> setup.crop

(* Column or row n of count is taken from its place in a length that       *)
(* starts at from, or from at most one column or row beside it.            *)
InPlace(place, n, count, from, length) ==
    /\ (place - from) * count >= (n - 1) * length
    /\ (place - from) * count < (n + 2) * length

(* The crop leaves something of every screen.  The X11 grabber needs one   *)
(* decimation for both directions, XRender screens and crops whose sizes   *)
(* are multiples of it, framebuffer and osx screens whose sizes are        *)
(* multiples of the configured one.                                        *)
Mappable ==
    /\ IsX11 \/ setup.kind = "v4l2" =>
           \A s \in setup.screens : /\ setup.crop.left + setup.crop.right < s.w
                                    /\ setup.crop.top + setup.crop.bottom < s.h
    /\ IsX11 => setup.hdec = setup.vdec
    /\ IsX11 /\ UsesRender =>
           /\ setup.crop.left % setup.hdec = 0 /\ setup.crop.top % setup.vdec = 0
           /\ \A s \in setup.screens : s.w % setup.hdec = 0 /\ s.h % setup.vdec = 0
    /\ IsScaled => \A s \in setup.screens : s.w % setup.size.w = 0 /\ s.h % setup.size.h = 0

(* Every pixel of the image that is shown was written by this grab, from   *)
(* its place in the part of the screen to show.                            *)
Whole ==
    /\ fault # "overrun"
    /\ \A at \in ShownAt :
           LET pixel == Shown(at)
           IN /\ pixel # Old
              /\ \A place \in {pixel.luma, pixel.chroma} :
                     /\ InPlace(place[1], at[1], image.size.w, PartCrop.left,
                                Picture.w - PartCrop.left - PartCrop.right)
                     /\ InPlace(place[2], at[2], image.size.h, PartCrop.top,
                                Picture.h - PartCrop.top - PartCrop.bottom)

(* The resampler of an X11 grabber without XRender has made the image half *)
(* as large in a 3D mode, and does not make it larger again.               *)
KeptFrom3D ==
    /\ IsX11 /\ ~setup.render
    /\ image.size # OutputSize(X11Resampler, grabber.part, "2D")
    /\ \E m \in Modes : image.size = OutputSize(X11Resampler, grabber.part, m)

(* But for that, the image in 2D is a whole snapshot, also the first one   *)
(* after the screen had another size or Kodi another mode, which leave an  *)
(* image of another size, or half an image, behind.                        *)
SnapshotIsWhole == (fresh /\ mode = "2D" /\ Mappable /\ ~KeptFrom3D) => Whole

(* X11 halves what is left by the crop: it needs the same crop on both     *)
(* sides to find the middle.                                               *)
Centred == IsX11 => setup.crop.left = setup.crop.right /\ setup.crop.top = setup.crop.bottom

(* In a 3D mode no pixel that a grab writes comes from the other eye's     *)
(* half.  What dispmanx and V4L2 show is that half alone; the images of    *)
(* the others may keep older pixels in the rest.                           *)
OneEye ==
    (fresh /\ mode # "2D" /\ Mappable /\ Centred /\ setup.kind # "amlogic") =>
        \A at \in ShownAt :
            LET pixel == Shown(at)
            IN IF pixel = Old THEN setup.kind \notin {"dispmanx", "v4l2"}
               ELSE IF mode = "3DSBS" THEN 2 * pixel.luma[1] < Picture.w
               ELSE 2 * pixel.luma[2] < Picture.h

==============================================================================
