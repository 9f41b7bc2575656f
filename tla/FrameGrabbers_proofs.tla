------------------------- MODULE FrameGrabbers_proofs -------------------------
(***************************************************************************)
(* What the grabbers show, for every set of setups and screens: a whole    *)
(* snapshot in 2D, and one eye's half in a 3D mode.  Then, what tells them *)
(* the mode: the Kodi checker follows Kodi in every configuration.         *)
(*                                                                         *)
(* The proof is arithmetic at its base: where the n-th column that is      *)
(* taken comes from, and that it is in place.  On it rest the facts about  *)
(* images that are resized, forgotten and filled, then those about what    *)
(* each grabber writes, and last the invariant: that an image has the      *)
(* size its grabber expects it to have kept.                               *)
(***************************************************************************)
EXTENDS FrameGrabbers, FiniteSetTheorems, SequencesExt, SequenceTheorems, WellFoundedInduction,
        TLAPS

-----------------------------------------------------------------------------
(* The arithmetic of rows and columns: products and quotients.             *)
LEMMA Product ==
  ASSUME NEW a \in Int, NEW b \in Int, NEW c \in Nat, a <= b
  PROVE  a * c \in Int /\ b * c \in Int /\ a * c <= b * c
OBVIOUS

LEMMA Quotient ==
  ASSUME NEW a \in Int, NEW b \in Nat \ {0}
  PROVE  /\ a \div b \in Int
         /\ b * (a \div b) <= a
         /\ a < b * (a \div b) + b
OBVIOUS

LEMMA QuotientIs ==
  ASSUME NEW a \in Int, NEW b \in Nat \ {0}, NEW q \in Int, b * q <= a, a < b * q + b
  PROVE  a \div b = q
OBVIOUS

(* The number of steps of length d in L, taken from their middles.         *)
LEMMA StepsBounds ==
  ASSUME NEW L \in Nat, NEW d \in Nat \ {0}
  PROVE  LET s == Steps(L, d)
         IN /\ s \in Nat
            /\ L - d \div 2 <= d * s
            /\ d * s <= L + d - d \div 2 - 1
            /\ d = 1 => s = L
            /\ L = 0 => s = 0
            /\ L > 0 => s <= L
            /\ L > 0 /\ d > 1 => s < L
<1> DEFINE a == L - d \div 2 + d - 1
           s == a \div d
<1>0. d \div 2 \in Nat /\ 2 * (d \div 2) <= d /\ d < 2 * (d \div 2) + 2
  BY Quotient
<1>1. a \in Nat
  BY <1>0
<1>2. s \in Int /\ d * s <= a /\ a < d * s + d
  BY <1>1, Quotient
<1> HIDE DEF s
<1>3. s \in Nat
  BY <1>1, <1>2
<1>4. d = 1 => s = L
  BY <1>2, <1>0
<1>5. L = 0 => s = 0
  <2>1. CASE L = 0 /\ s >= 1
    <3>1. d * 1 <= d * s
      BY <2>1, <1>3
    <3> QED
      BY <3>1, <2>1, <1>2, <1>0
  <2> QED
    BY <2>1, <1>3
<1>6. ASSUME L > 0, d > 1, s >= L PROVE FALSE
  <2>1. d * L <= d * s
    BY <1>6, <1>3
  <2>2. (d - 1) * (L - 1) >= 0
    BY <1>6
  <2>3. (d - 1) * (L - 1) = d * L - d - L + 1
    OBVIOUS
  <2>4. d \div 2 >= 1
    BY <1>6, <1>0
  <2> QED
    BY <2>1, <2>2, <2>3, <2>4, <1>2, <1>0, <1>3
<1>7. L > 0 => s <= L
  BY <1>4, <1>6, <1>3
<1>8. s = Steps(L, d)
  BY DEF s, Steps
<1> QED
  BY <1>0, <1>2, <1>3, <1>4, <1>5, <1>6, <1>7, <1>8

(* The n-th middle, or its left neighbour, is in place, and the middle is  *)
(* within L.                                                               *)
LEMMA StepInPlace ==
  ASSUME NEW L \in Nat \ {0}, NEW d \in Nat \ {0}, NEW n \in 0 .. Steps(L, d) - 1,
         NEW from \in Int, NEW p \in Int,
         p = from + d \div 2 + n * d \/ p = from + d \div 2 + n * d - 1
  PROVE  /\ InPlace(p, n, Steps(L, d), from, L)
         /\ d \div 2 + n * d < L
         /\ d \div 2 + n * d \in Nat
<1> DEFINE s == Steps(L, d)
           h == d \div 2
<1>1. s \in Nat /\ L - h <= d * s /\ d * s <= L + d - h - 1 /\ s <= L /\ (d = 1 => s = L)
  BY StepsBounds
<1>2. h \in Nat /\ 2 * h <= d /\ d <= 2 * h + 1
  BY Quotient
<1>3. n \in Nat /\ n + 1 <= s /\ n \in Int
  BY <1>1
<1> HIDE DEF s, h
<1>4. (n + 1) * d <= s * d /\ (n + 1) * d = n * d + d /\ s * d = d * s
  BY <1>1, <1>3
<1>5. n * d \in Nat /\ h + n * d < L
  BY <1>1, <1>2, <1>3, <1>4
<1> DEFINE q == p - from
<1>6. q \in Int /\ (q = h + n * d \/ q = h + n * d - 1)
  BY <1>5, <1>2 DEF h
<1>7. q * s >= (n - 1) * L
  <2>1. n * (d * s) >= n * (L - h)
    BY <1>1, <1>2, <1>3, Product
  <2>2. (n * d) * s = n * (d * s) /\ n * (L - h) = n * L - n * h /\ (n - 1) * L = n * L - L
    BY <1>1, <1>2, <1>3
  <2>3. CASE h = 0
    <3>1. d = 1
      BY <2>3, <1>2
    <3>2. s = L /\ q >= n - 1
      BY <3>1, <1>1, <1>6, <2>3
    <3> QED
      BY <3>2, <1>3, <1>6, Product
  <2>4. CASE h >= 1
    <3>1. (h + n * d - 1) * s = h * s + (n * d) * s - s
      BY <1>1, <1>2, <1>5
    <3>2. q * s >= h * s + (n * d) * s - s
      <4>1. q >= h + n * d - 1 /\ h + n * d - 1 \in Int
        BY <1>6, <1>5, <1>2
      <4> QED
        BY <4>1, <3>1, <1>1, <1>6, Product
    <3>3. (s - n) * h >= 1 * h /\ (s - n) * h = h * s - n * h
      BY <1>1, <1>2, <1>3
    <3> DEFINE qs == q * s
               hs == h * s
               nh == n * h
               nL == n * L
               nds == n * (d * s)
    <3>4. qs \in Int /\ hs \in Int /\ nh \in Int /\ nL \in Int /\ nds \in Int
      BY <1>1, <1>2, <1>3, <1>6
    <3>5. /\ nds >= nL - nh
          /\ qs >= hs + nds - s
          /\ hs - nh >= h
          /\ (n - 1) * L = nL - L
      BY <2>1, <2>2, <3>2, <3>3, <1>2
    <3> HIDE DEF q, qs, hs, nh, nL, nds
    <3>6. qs >= nL - L
      BY <3>4, <3>5, <2>4, <1>1, <1>2
    <3> QED
      BY <3>5, <3>6 DEF qs
  <2> QED
    BY <2>3, <2>4, <1>2
<1>8. q * s < (n + 2) * L
  <2>1. q * s <= (h + n * d) * s
    BY <1>1, <1>2, <1>5, <1>6, Product
  <2>2. (h + n * d) * s = h * s + n * (d * s) /\ (n + 2) * L = n * L + 2 * L
    BY <1>1, <1>2, <1>3
  <2>3. n * (d * s) <= n * (L + d - h - 1) /\ n * (L + d - h - 1) = n * L + n * (d - h - 1)
    BY <1>1, <1>2, <1>3, Product
  <2>4. n * (d - h - 1) <= s * (d - h - 1)
    BY <1>1, <1>2, <1>3, Product
  <2>5. s * (d - h - 1) = d * s - h * s - s
    BY <1>1, <1>2
  <2>6. q * s \in Int /\ h * s \in Int /\ n * L \in Int
    BY <1>1, <1>2, <1>3, <1>6
  <2> HIDE DEF q
  <2>7. q * s <= n * L + d * s - s
    <3> DEFINE qs == q * s
               hs == h * s
               nL == n * L
               ds == d * s
               nds == n * (d * s)
               nd == n * (d - h - 1)
    <3>1. qs \in Int /\ hs \in Int /\ nL \in Int /\ ds \in Int /\ nds \in Int /\ nd \in Int
      BY <2>6, <1>1, <1>2, <1>3
    <3>2. qs <= hs + nds /\ nds <= nL + nd /\ nd <= ds - hs - s
      BY <2>1, <2>2, <2>3, <2>4, <2>5
    <3> HIDE DEF qs, hs, nL, ds, nds, nd
    <3>3. qs <= nL + ds - s
      BY <3>1, <3>2, <1>1
    <3> QED
      BY <3>3 DEF qs, nL, ds
  <2>8. q * s <= n * L + L + d - h - 1 - s
    BY <2>7, <2>6, <1>1, <1>2
  <2>9. d - h - 1 - s < L
    <3>1. d <= d * s
      BY <1>1, <1>3, Product
    <3> QED
      BY <3>1, <1>1, <1>2, <1>3
  <2> QED
    BY <2>8, <2>9, <2>2, <2>6, <1>1, <1>2
<1>9. InPlace(p, n, s, from, L)
  BY <1>7, <1>8 DEF InPlace
<1> QED
  BY <1>5, <1>2, <1>9 DEF s, h

(* So are the places of a picture that is not scaled.                      *)
LEMMA SameInPlace ==
  ASSUME NEW L \in Nat, NEW n \in 0 .. L - 1, NEW from \in Int
  PROVE  InPlace(from + n, n, L, from, L)
<1>1. (from + n) - from = n /\ n \in Int /\ L > 0
  OBVIOUS
<1>2. n * L >= (n - 1) * L /\ n * L < (n + 2) * L
  <2>1. (n - 1) * L = n * L - L /\ (n + 2) * L = n * L + 2 * L /\ n * L \in Int
    OBVIOUS
  <2> QED
    BY <2>1, <1>1
<1> QED
  BY <1>1, <1>2 DEF InPlace

(* With XRender: W is d times the scaled width, the crop from the left k   *)
(* times d, and what is left of W after the crop L.                        *)
LEMMA RenderInPlace ==
  ASSUME NEW L \in Nat \ {0}, NEW d \in Nat \ {0}, NEW n \in 0 .. (L \div d) - 1,
         NEW from \in Nat
  PROVE  /\ InPlace(from + n * d, n, L \div d, from, L)
         /\ n * d < L
         /\ n * d \in Nat
<1> DEFINE c == L \div d
<1>1. c \in Int /\ d * c <= L /\ L < d * c + d
  BY Quotient
<1> HIDE DEF c
<1>2. n \in Nat /\ n + 1 <= c /\ c \in Nat
  BY <1>1 DEF c
<1>3. (n + 1) * d <= c * d /\ (n + 1) * d = n * d + d /\ c * d = d * c /\ n * d \in Nat
  BY <1>1, <1>2, Product
<1>4. n * d < L
  BY <1>1, <1>3
<1>5. (n * d) * c >= (n - 1) * L
  <2>1. (n * d) * c = n * (d * c) /\ (n - 1) * L = n * L - L
    BY <1>1, <1>2
  <2>2. n * L <= n * (d * c + d) /\ n * (d * c + d) = n * (d * c) + n * d
    BY <1>1, <1>2, Product
  <2> DEFINE nL == n * L
             ndc == n * (d * c)
             nd == n * d
  <2>3. nL \in Int /\ ndc \in Int /\ nd \in Int
    BY <1>1, <1>2
  <2>4. nL <= ndc + nd /\ nd < L
    BY <2>2, <1>4
  <2> HIDE DEF nL, ndc, nd
  <2>5. ndc >= nL - L
    BY <2>3, <2>4
  <2> QED
    BY <2>1, <2>5 DEF ndc, nL
<1>6. (n * d) * c < (n + 2) * L
  <2>1. (n * d) * c = n * (d * c) /\ (n + 2) * L = n * L + 2 * L
    BY <1>1, <1>2
  <2>2. n * (d * c) <= n * L
    BY <1>1, <1>2, Product
  <2> DEFINE nL == n * L
             ndc == n * (d * c)
  <2>3. nL \in Int /\ ndc \in Int /\ ndc <= nL
    BY <1>1, <1>2, <2>2
  <2> HIDE DEF nL, ndc
  <2>4. ndc < nL + 2 * L
    BY <2>3
  <2> QED
    BY <2>1, <2>4 DEF ndc, nL
<1>7. (from + n * d) - from = n * d
  BY <1>3
<1> QED
  BY <1>3, <1>4, <1>5, <1>6, <1>7 DEF InPlace, c

(* The half that a 3D mode leaves of a length.                             *)
LEMMA HalfOf ==
  ASSUME NEW p \in Nat, NEW q \in Int, q < p - (p \div 2)
  PROVE  2 * q < p
BY Quotient

(* XRender's place for a pixel.                                            *)
LEMMA RenderPlace ==
  ASSUME NEW d \in Nat \ {0}, NEW W \in Nat \ {0}, W % d = 0,
         NEW from \in Nat, from % d = 0, NEW n \in Nat
  PROVE  /\ W \div d \in Nat \ {0}
         /\ d * (W \div d) = W
         /\ ((from \div d + n) * W) \div (W \div d) = from + n * d
<1> DEFINE s == W \div d
           k == from \div d
<1>1. s \in Int /\ W = d * s + (W % d) /\ k \in Int /\ from = d * k + (from % d)
  OBVIOUS
<1>2. W = d * s /\ from = d * k
  BY <1>1
<1> HIDE DEF s, k
<1>3. s \in Nat \ {0} /\ k \in Nat
  <2>1. CASE s <= 0
    <3>1. d * s <= 0
      BY <2>1, <1>1
    <3> QED
      BY <3>1, <1>2
  <2>2. CASE k < 0
    <3>1. d * k < 0
      BY <2>2, <1>1
    <3> QED
      BY <3>1, <1>2
  <2> QED
    BY <2>1, <2>2, <1>1
<1>4. (k + n) * W = s * (from + n * d)
  <2>1. (k + n) * (d * s) = s * (d * k + n * d)
    BY <1>3
  <2> QED
    BY <2>1, <1>2
<1>5. from + n * d \in Int
  BY <1>3
<1>6. (s * (from + n * d)) \div s = from + n * d
  BY <1>3, <1>5, QuotientIs
<1> QED
  BY <1>2, <1>3, <1>4, <1>6 DEF s, k

(* The least and the greatest of some numbers.                             *)
LEMMA LeastOf ==
  ASSUME NEW T \in SUBSET Nat, T # {}
  PROVE  \E x \in T : \A y \in T : x <= y
<1> DEFINE R == OpToRel(<, Nat)
<1>1. IsWellFoundedOn(R, Nat)
  BY NatLessThanWellFounded
<1>2. \E x \in T : \A y \in T : <<y, x>> \notin R
  <2> HIDE DEF R
  <2> QED
    BY <1>1, WFMin
<1>3. ASSUME NEW x \in Nat, NEW y \in Nat, <<y, x>> \notin R
      PROVE  x <= y
  BY <1>3, <<y, x>> \in Nat \X Nat DEF OpToRel
<1> HIDE DEF R
<1> QED
  BY <1>2, <1>3

LEMMA MaxOf ==
  ASSUME NEW n \in Nat, NEW T \in SUBSET (0 .. n), T # {}
  PROVE  Max(T) \in T
<1> DEFINE D == {n - y : y \in T}
<1>1. D \in SUBSET Nat /\ D # {}
  <2>1. \A y \in T : n - y \in Nat
    OBVIOUS
  <2>2. PICK y \in T : TRUE
    OBVIOUS
  <2>3. n - y \in D
    OBVIOUS
  <2> QED
    BY <2>1, <2>3
<1>2. PICK d \in D : \A y \in D : d <= y
  BY <1>1, LeastOf
<1>3. PICK x \in T : d = n - x
  BY <1>2
<1>4. \A y \in T : n - x <= n - y
  BY <1>2, <1>3
<1>5. \A y \in T : y \in 0 .. n
  OBVIOUS
<1>6. \E m \in T : \A y \in T : m >= y
  BY <1>4, <1>5
<1> QED
  BY <1>6 DEF Max

-----------------------------------------------------------------------------
(* An image has room for its size, perhaps more.                           *)
IsImage(img) ==
    /\ img = [size |-> img.size, pixels |-> img.pixels]
    /\ img.size.w \in Int /\ img.size.h \in Int
    /\ \E room \in Nat : /\ DOMAIN img.pixels = 0 .. room - 1
                         /\ img.size.w * img.size.h <= room

IsOld(img) == \A i \in DOMAIN img.pixels : img.pixels[i] = Old

LEMMA Room ==
  ASSUME NEW img, IsImage(img)
  PROVE  /\ Cardinality(DOMAIN img.pixels) \in Nat
         /\ DOMAIN img.pixels = 0 .. Cardinality(DOMAIN img.pixels) - 1
         /\ img.size.w * img.size.h <= Cardinality(DOMAIN img.pixels)
<1>1. PICK room \in Nat : /\ DOMAIN img.pixels = 0 .. room - 1
                          /\ img.size.w * img.size.h <= room
  BY DEF IsImage
<1>2. Cardinality(0 .. room - 1) = room
  BY FS_Interval
<1> QED
  BY <1>1, <1>2

LEMMA NewImageIs ==
  ASSUME NEW size, size.w \in Int, size.h \in Int
  PROVE  /\ IsImage(NewImage(size))
         /\ IsOld(NewImage(size))
         /\ NewImage(size).size = size
<1> DEFINE n == size.w * size.h
           room == IF n >= 0 THEN n ELSE 0
           img == NewImage(size)
<1>1. n \in Int
  OBVIOUS
<1>2. img.size = size /\ img.pixels = [i \in 0 .. n - 1 |-> Old]
       /\ img = [size |-> img.size, pixels |-> img.pixels]
  BY DEF NewImage
<1> HIDE DEF img
<1>3. n = img.size.w * img.size.h
  BY <1>2
<1>4. room \in Nat /\ n <= room /\ 0 .. room - 1 = 0 .. n - 1
  <2> HIDE DEF n
  <2> QED
    BY <1>1
<1>5. DOMAIN img.pixels = 0 .. room - 1
  BY <1>2, <1>4
<1>6. IsOld(img)
  BY <1>2 DEF IsOld
<1>7. IsImage(img)
  <2>1. img.size.w * img.size.h <= room
    BY <1>3, <1>4
  <2> QED
    BY <1>2, <1>4, <1>5, <2>1 DEF IsImage
<1> QED
  BY <1>2, <1>6, <1>7 DEF img

LEMMA ResizeIs ==
  ASSUME NEW img, IsImage(img), NEW size, size.w \in Int, size.h \in Int
  PROVE  /\ IsImage(Resize(img, size))
         /\ Resize(img, size).size = size
         /\ IsOld(img) => IsOld(Resize(img, size))
<1> DEFINE room == Cardinality(DOMAIN img.pixels)
           n == size.w * size.h
           kept == [img EXCEPT !.size = size]
<1>1. room \in Nat /\ DOMAIN img.pixels = 0 .. room - 1
  BY Room
<1>2. CASE n > room
  BY <1>2, NewImageIs DEF Resize
<1>3. CASE ~(n > room)
  <2>1. n \in Int /\ n <= room
    BY <1>1, <1>3
  <2>2. kept = [size |-> size, pixels |-> img.pixels]
    BY DEF IsImage
  <2>3. kept.size = size /\ kept.pixels = img.pixels
         /\ kept = [size |-> kept.size, pixels |-> kept.pixels]
    BY <2>2
  <2>4. Resize(img, size) = kept
    BY <1>3 DEF Resize
  <2> HIDE DEF kept, room
  <2>5. kept.size.w * kept.size.h <= room
    BY <2>1, <2>3
  <2>6. IsImage(kept)
    BY <1>1, <2>3, <2>5 DEF IsImage
  <2> QED
    BY <2>3, <2>4, <2>6 DEF IsOld
<1> QED
  BY <1>2, <1>3

LEMMA ForgetIs ==
  ASSUME NEW img, IsImage(img)
  PROVE  /\ IsImage(Forget(img))
         /\ Forget(img).size = img.size
         /\ IsOld(Forget(img))
<1> DEFINE old == [i \in DOMAIN img.pixels |-> Old]
<1>1. Forget(img) = [size |-> img.size, pixels |-> old]
  <2>1. Forget(img) = [img EXCEPT !.pixels = old]
    BY DEF Forget
  <2> HIDE DEF old
  <2>2. [img EXCEPT !.pixels = old] = [size |-> img.size, pixels |-> old]
    BY DEF IsImage
  <2> QED
    BY <2>1, <2>2
<1>2. DOMAIN old = DOMAIN img.pixels /\ \A i \in DOMAIN old : old[i] = Old
  OBVIOUS
<1> HIDE DEF old
<1>3. Forget(img).size = img.size /\ Forget(img).pixels = old
  BY <1>1
<1> QED
  BY <1>1, <1>2, <1>3 DEF IsImage, IsOld

LEMMA FittedIs ==
  ASSUME NEW img, IsImage(img), NEW size, size.w \in Int, size.h \in Int
  PROVE  /\ IsImage(Fitted(img, size))
         /\ Fitted(img, size).size \in {img.size, size}
         /\ (img.size.h = size.h \/ img.size.w = size.w) => Fitted(img, size) = img
         /\ (img.size.h # size.h /\ img.size.w # size.w) => Fitted(img, size).size = size
         /\ IsOld(img) => IsOld(Fitted(img, size))
BY ResizeIs DEF Fitted

(* Where a pixel of an image is.                                           *)
LEMMA Within ==
  ASSUME NEW w \in Int, NEW h \in Int, NEW x \in 0 .. w - 1, NEW y \in 0 .. h - 1
  PROVE  /\ y * w + x \in 0 .. w * h - 1
         /\ \A z \in Int : (y * w + x) - z * w \in 0 .. w - 1 => z = y
<1>1. w \in Nat /\ h \in Nat /\ x \in Nat /\ y \in Nat /\ x <= w - 1 /\ y + 1 <= h
  OBVIOUS
<1>2. y * w \in Nat /\ (y + 1) * w <= h * w /\ (y + 1) * w = y * w + w /\ h * w = w * h
  BY <1>1, Product
<1>3. y * w + x \in 0 .. w * h - 1
  BY <1>1, <1>2
<1>4. ASSUME NEW z \in Int, (y * w + x) - z * w \in 0 .. w - 1 PROVE z = y
  <2>1. z * w \in Int
    BY <1>1
  <2>2. (y * w + x) - z * w >= 0 /\ (y * w + x) - z * w < w
    BY <1>4
  <2>3. CASE z > y
    <3>1. (y + 1) * w <= z * w
      BY <1>1, <2>3, Product
    <3> QED
      BY <3>1, <2>1, <2>2, <1>1, <1>2
  <2>4. CASE z < y
    <3>1. (z + 1) * w <= y * w /\ (z + 1) * w = z * w + w
      BY <1>1, <2>4, Product
    <3> QED
      BY <3>1, <2>1, <2>2, <1>1, <1>2
  <2> QED
    BY <2>3, <2>4, <1>1
<1> QED
  BY <1>3, <1>4

(* Writing into an image keeps it an image of the same size.  A pixel of   *)
(* it is then as old as before or one of the new ones, and the new one at  *)
(* its place when the image has the size of what is written.               *)
LEMMA FillIs ==
  ASSUME NEW img, IsImage(img), NEW size, size.w \in Int, size.h \in Int, NEW new
  PROVE  /\ IsImage(Fill(img, size, new))
         /\ Fill(img, size, new).size = img.size
         /\ \A at \in Positions(img.size) :
                \/ /\ IsOld(img)
                   /\ At(Fill(img, size, new), at[1], at[2]) = Old
                \/ ~IsOld(img)
                \/ \E from \in Positions(size) : At(Fill(img, size, new), at[1], at[2]) = new[from]
         /\ img.size.w = size.w /\ img.size.h = size.h =>
                \A at \in Positions(img.size) : At(Fill(img, size, new), at[1], at[2]) = new[at]
<1> DEFINE Rows(i) == {y \in 0 .. size.h - 1 : i - y * img.size.w \in 0 .. size.w - 1}
           New(i) == new[i - Max(Rows(i)) * img.size.w, Max(Rows(i))]
           px == [i \in DOMAIN img.pixels |-> IF Rows(i) = {} THEN img.pixels[i] ELSE New(i)]
           filled == [size |-> img.size, pixels |-> px]
<1>1. Fill(img, size, new) = filled
  <2>1. Fill(img, size, new) = [img EXCEPT !.pixels = px]
    BY DEF Fill
  <2> HIDE DEF px
  <2>2. [img EXCEPT !.pixels = px] = filled
    BY DEF IsImage
  <2> QED
    BY <2>1, <2>2
<1>2. filled.size = img.size /\ filled.pixels = px /\ DOMAIN px = DOMAIN img.pixels
  OBVIOUS
<1>3. IsImage(filled)
  <2> HIDE DEF px
  <2> QED
    BY <1>2 DEF IsImage
<1> HIDE DEF filled
<1>4. ASSUME NEW at \in Positions(img.size)
      PROVE  /\ at = <<at[1], at[2]>> /\ at[1] \in 0 .. img.size.w - 1
                 /\ at[2] \in 0 .. img.size.h - 1
             /\ at[2] * img.size.w + at[1] \in DOMAIN px
             /\ At(filled, at[1], at[2]) = px[at[2] * img.size.w + at[1]]
  <2>1. at = <<at[1], at[2]>> /\ at[1] \in 0 .. img.size.w - 1 /\ at[2] \in 0 .. img.size.h - 1
    BY DEF Positions
  <2>2. At(filled, at[1], at[2]) = px[at[2] * img.size.w + at[1]]
    BY <1>2 DEF At
  <2>3. at[2] * img.size.w + at[1] \in 0 .. img.size.w * img.size.h - 1
    BY <2>1, Within DEF IsImage
  <2> DEFINE room == Cardinality(DOMAIN img.pixels)
             n == img.size.w * img.size.h
  <2>4. room \in Nat /\ DOMAIN img.pixels = 0 .. room - 1 /\ n <= room
    BY Room
  <2>7. n \in Int
    BY DEF IsImage
  <2>5. at[2] * img.size.w + at[1] \in 0 .. n - 1
    BY <2>3
  <2> HIDE DEF room, n
  <2>6. at[2] * img.size.w + at[1] \in DOMAIN img.pixels
    BY <2>4, <2>5, <2>7
  <2> QED
    BY <2>1, <2>2, <2>6, <1>2
<1>5. ASSUME NEW i \in DOMAIN px, Rows(i) # {}
      PROVE  Max(Rows(i)) \in Rows(i)
  <2>1. size.h - 1 \in Nat
    BY <1>5
  <2>2. Rows(i) \in SUBSET (0 .. size.h - 1)
    OBVIOUS
  <2> HIDE DEF Rows
  <2> QED
    BY <2>1, <2>2, <1>5, MaxOf
<1>6. ASSUME NEW at \in Positions(img.size), IsOld(img), At(filled, at[1], at[2]) # Old
      PROVE  \E from \in Positions(size) : At(filled, at[1], at[2]) = new[from]
  <2> DEFINE i == at[2] * img.size.w + at[1]
             y == Max(Rows(i))
  <2>1. i \in DOMAIN px /\ px[i] # Old /\ At(filled, at[1], at[2]) = px[i]
    BY <1>4, <1>6
  <2>2. Rows(i) # {}
    BY <2>1, <1>6, <1>2 DEF IsOld
  <2>3. y \in Rows(i)
    BY <2>1, <2>2, <1>5
  <2>4. <<i - y * img.size.w, y>> \in Positions(size)
    BY <2>3 DEF Positions
  <2>5. px[i] = new[<<i - y * img.size.w, y>>]
    BY <2>1, <2>2
  <2> QED
    BY <2>1, <2>4, <2>5
<1>7. ASSUME img.size.w = size.w, img.size.h = size.h, NEW at \in Positions(img.size)
      PROVE  At(filled, at[1], at[2]) = new[at]
  <2> DEFINE i == at[2] * img.size.w + at[1]
             y == Max(Rows(i))
  <2>1. i \in DOMAIN px /\ At(filled, at[1], at[2]) = px[i]
    BY <1>4
  <2>2. at[2] \in Int /\ at[1] \in Int /\ img.size.w \in Int
    <3> HIDE DEF px
    <3> QED
      BY <1>4 DEF IsImage
  <2>3. i - at[2] * img.size.w = at[1]
    BY <2>2
  <2>4. at[2] \in Rows(i)
    BY <1>4, <1>7, <2>3
  <2>5. y \in Rows(i)
    BY <2>1, <2>4, <1>5
  <2>6. y = at[2]
    <3> DEFINE w == img.size.w
               h == img.size.h
    <3>1. at[1] \in 0 .. w - 1 /\ at[2] \in 0 .. h - 1 /\ w \in Int /\ h \in Int
      BY <1>4 DEF IsImage
    <3> HIDE DEF y
    <3>2. y \in 0 .. size.h - 1 /\ i - y * img.size.w \in 0 .. size.w - 1
      <4> HIDE DEF px, i, w, h
      <4> QED
        BY <2>5
    <3>3. y \in Int /\ (at[2] * w + at[1]) - y * w \in 0 .. w - 1
      <4> HIDE DEF px, Rows
      <4>1. size.w = w
        BY <1>7
      <4> HIDE DEF i, w
      <4>2. y \in 0 .. size.h - 1 /\ i - y * w \in 0 .. size.w - 1
        BY <3>2 DEF w
      <4>3. i = at[2] * w + at[1]
        BY DEF i, w
      <4> QED
        BY <4>1, <4>2, <4>3
    <3> HIDE DEF px, Rows, i, w, h
    <3>4. \A z \in Int : (at[2] * w + at[1]) - z * w \in 0 .. w - 1 => z = at[2]
      <4>1. ASSUME NEW x \in 0 .. w - 1, NEW z \in 0 .. h - 1, NEW a \in Int,
                   (z * w + x) - a * w \in 0 .. w - 1
            PROVE  a = z
        BY <3>1, <4>1, Within
      <4> QED
        BY <3>1, <4>1
    <3> QED
      BY <3>3, <3>4
  <2>7. px[i] = new[<<i - y * img.size.w, y>>]
    BY <2>1, <2>4
  <2> HIDE DEF y, px, i
  <2>8. px[i] = new[<<at[1], at[2]>>]
    BY <2>3, <2>6, <2>7
  <2> QED
    BY <2>1, <2>8, <1>4
<1> QED
  BY <1>1, <1>2, <1>3, <1>6, <1>7

(* Nothing is written beyond an image of the right size.                   *)
LEMMA NoOverrun ==
  ASSUME NEW img, IsImage(img), NEW size, img.size.w = size.w, img.size.h = size.h
  PROVE  ~Overruns(img, size)
<1> DEFINE room == Cardinality(DOMAIN img.pixels)
<1>1. room \in Nat /\ img.size.w * img.size.h <= room
  BY Room
<1> HIDE DEF room
<1>2. (size.h - 1) * img.size.w + size.w = img.size.w * img.size.h
  BY DEF IsImage
<1>3. ~((size.h - 1) * img.size.w + size.w > room)
  BY <1>1, <1>2 DEF IsImage
<1> QED
  BY <1>3 DEF Overruns, room

-----------------------------------------------------------------------------
(* The setup and the screen are configured ones.                           *)
Configured == setup \in Setups /\ screen \in setup.screens

IsCrop(crop) == crop \in [left : Nat, right : Nat, top : Nat, bottom : Nat]

LEMMA SetFacts ==
  ASSUME Configured
  PROVE  /\ setup.kind \in Kinds
         /\ setup.size.w \in Nat \ {0} /\ setup.size.h \in Nat \ {0}
         /\ IsCrop(setup.crop)
         /\ setup.hdec \in Nat \ {0} /\ setup.vdec \in Nat \ {0}
         /\ screen.w \in Nat \ {0} /\ screen.h \in Nat \ {0}
         /\ \A s \in setup.screens : s.w \in Nat \ {0} /\ s.h \in Nat \ {0}
BY SetupsAreSetups DEF Configured, IsSetup, IsCrop

LEMMA NoCropIs == /\ IsCrop(NoCrop) /\ NoCrop.left = 0 /\ NoCrop.right = 0
                  /\ NoCrop.top = 0 /\ NoCrop.bottom = 0
BY DEF IsCrop, NoCrop

(* What a resampler shows of a picture, in each direction.                 *)
Across(r, size, m) ==
    size.w - r.crop.left - (IF m = "3DSBS" THEN size.w \div 2 ELSE r.crop.right)

Down(r, size, m) ==
    size.h - r.crop.top - (IF m = "3DTAB" THEN size.h \div 2 ELSE r.crop.bottom)

IsResampler(r) == IsCrop(r.crop) /\ r.hdec \in Nat \ {0} /\ r.vdec \in Nat \ {0}

LEMMA OutputIs ==
  ASSUME NEW r, IsResampler(r), NEW size, size.w \in Int, size.h \in Int, NEW m
  PROVE  /\ OutputSize(r, size, m) = Size(Steps(Across(r, size, m), r.hdec),
                                          Steps(Down(r, size, m), r.vdec))
         /\ OutputSize(r, size, m).w = Steps(Across(r, size, m), r.hdec)
         /\ OutputSize(r, size, m).h = Steps(Down(r, size, m), r.vdec)
         /\ Across(r, size, m) \in Int /\ Down(r, size, m) \in Int
         /\ OutputSize(r, size, m).w \in Int /\ OutputSize(r, size, m).h \in Int
<1> DEFINE crop == CropFor(r.crop, size, m)
<1>1. /\ crop.left = r.crop.left /\ crop.top = r.crop.top
      /\ crop.right = IF m = "3DSBS" THEN size.w \div 2 ELSE r.crop.right
      /\ crop.bottom = IF m = "3DTAB" THEN size.h \div 2 ELSE r.crop.bottom
  BY DEF CropFor, IsResampler, IsCrop
<1>2. size.w \div 2 \in Int /\ size.h \div 2 \in Int
  BY Quotient
<1>3. Across(r, size, m) \in Int /\ Down(r, size, m) \in Int
  BY <1>2 DEF Across, Down, IsResampler, IsCrop
<1>4. OutputSize(r, size, m) = Size(Steps(Across(r, size, m), r.hdec),
                                    Steps(Down(r, size, m), r.vdec))
  BY <1>1 DEF OutputSize, Across, Down
<1>5. ASSUME NEW a \in Int, NEW d \in Nat \ {0} PROVE Steps(a, d) \in Int
  <2>1. d \div 2 \in Int
    BY Quotient
  <2>2. a - d \div 2 + d - 1 \in Int
    BY <2>1
  <2> QED
    BY <2>2, Quotient DEF Steps
<1>6. Steps(Across(r, size, m), r.hdec) \in Int /\ Steps(Down(r, size, m), r.vdec) \in Int
  BY <1>3, <1>5 DEF IsResampler
<1> QED
  BY <1>3, <1>4, <1>6 DEF Size

(* A length that is not positive has no steps.                             *)
LEMMA NoSteps ==
  ASSUME NEW a \in Int, a <= 0, NEW d \in Nat \ {0}
  PROVE  Steps(a, d) \in Int /\ Steps(a, d) <= 0
<1> DEFINE b == a - d \div 2 + d - 1
           s == b \div d
<1>1. d \div 2 \in Nat
  BY Quotient
<1>2. b \in Int /\ b < d
  BY <1>1
<1>3. s \in Int /\ d * s <= b
  BY <1>2, Quotient
<1> HIDE DEF b, s
<1>4. s <= 0
  <2>1. CASE s >= 1
    <3>1. d * 1 <= d * s
      BY <2>1, <1>3
    <3> QED
      BY <3>1, <1>2, <1>3
  <2> QED
    BY <2>1, <1>3
<1> QED
  BY <1>3, <1>4 DEF s, b, Steps

(* A pixel resampled from row or column n of a picture.                    *)
LEMMA StepPlace ==
  ASSUME NEW a \in Int, NEW d \in Nat \ {0}, NEW n \in 0 .. Steps(a, d) - 1,
         NEW from \in Nat
  PROVE  LET p == from + d \div 2 + n * d
         IN /\ a > 0
            /\ p \in Nat /\ p < from + a
            /\ InPlace(p, n, Steps(a, d), from, a)
            /\ InPlace(p - (p % 2), n, Steps(a, d), from, a)
<1> DEFINE p == from + d \div 2 + n * d
           s == Steps(a, d)
<1>1. a > 0 /\ a \in Nat \ {0}
  BY NoSteps
<1>2. d \div 2 \in Nat
  BY Quotient
<1>3. /\ d \div 2 + n * d < a
      /\ d \div 2 + n * d \in Nat
      /\ \A q \in Int : q = p \/ q = p - 1 => InPlace(q, n, s, from, a)
  <2>5. from \in Int /\ n \in 0 .. Steps(a, d) - 1
    OBVIOUS
  <2>1. ASSUME NEW q \in Int, q = from + d \div 2 + n * d \/ q = from + d \div 2 + n * d - 1
        PROVE  /\ InPlace(q, n, Steps(a, d), from, a)
               /\ d \div 2 + n * d < a
               /\ d \div 2 + n * d \in Nat
    BY <1>1, <2>1, <2>5, StepInPlace, ZenonT(30)
  <2>2. n * d \in Int
    OBVIOUS
  <2>3. p \in Int
    BY <1>2, <2>2
  <2>4. InPlace(p, n, Steps(a, d), from, a) /\ d \div 2 + n * d < a /\ d \div 2 + n * d \in Nat
    BY <2>1, <2>3
  <2> QED
    BY <2>1, <2>4
<1>4. p \in Nat /\ p < from + a
  <2>1. n * d \in Int
    OBVIOUS
  <2> QED
    BY <2>1, <1>2, <1>3
<1> HIDE DEF p, s
<1>5. p - (p % 2) \in Int /\ (p - (p % 2) = p \/ p - (p % 2) = p - 1)
  BY <1>4
<1>6. InPlace(p, n, s, from, a) /\ InPlace(p - (p % 2), n, s, from, a)
  BY <1>3, <1>4, <1>5
<1> QED
  BY <1>1, <1>4, <1>6 DEF p, s

(* What a resampler makes of an image whose old pixels are forgotten.      *)
LEMMA ResampleIs ==
  ASSUME NEW r, IsResampler(r), NEW img, IsImage(img), IsOld(img),
         NEW size, size.w \in Int, size.h \in Int, NEW m, NEW format
  PROVE  LET output == OutputSize(r, size, m)
             result == Resample(r, img, size, m, format)
             X(n)   == r.crop.left + r.hdec \div 2 + n * r.hdec
             Y(n)   == r.crop.top + r.vdec \div 2 + n * r.vdec
         IN /\ IsImage(result)
            /\ result.size = Fitted(img, output).size
            /\ \A at \in Positions(result.size) :
                   \/ At(result, at[1], at[2]) = Old
                   \/ \E from \in Positions(output) :
                          At(result, at[1], at[2]) = Sample(format, X(from[1]), Y(from[2]))
            /\ result.size.w = output.w /\ result.size.h = output.h =>
                   /\ ~ResampleOverruns(r, img, size, m)
                   /\ \A at \in Positions(output) :
                          At(result, at[1], at[2]) = Sample(format, X(at[1]), Y(at[2]))
<1> DEFINE output == OutputSize(r, size, m)
           result == Resample(r, img, size, m, format)
           X(n)   == r.crop.left + r.hdec \div 2 + n * r.hdec
           Y(n)   == r.crop.top + r.vdec \div 2 + n * r.vdec
           new    == [at \in Positions(output) |-> Sample(format, X(at[1]), Y(at[2]))]
           fit    == Fitted(img, output)
<1>1. output.w \in Int /\ output.h \in Int
  BY OutputIs
<1>2. IsImage(fit) /\ IsOld(fit)
  <2> HIDE DEF output
  <2> QED
    BY <1>1, FittedIs
<1>3. result = Fill(fit, output, new)
  BY DEF Resample
<1>4. \A from \in Positions(output) : new[from] = Sample(format, X(from[1]), Y(from[2]))
  OBVIOUS
<1>5. ResampleOverruns(r, img, size, m) <=> Overruns(fit, output)
  BY DEF ResampleOverruns
<1> HIDE DEF result, fit, new, output
<1>6. /\ IsImage(result)
      /\ result.size = fit.size
      /\ \A at \in Positions(fit.size) :
             \/ At(result, at[1], at[2]) = Old
             \/ \E from \in Positions(output) : At(result, at[1], at[2]) = new[from]
      /\ fit.size.w = output.w /\ fit.size.h = output.h =>
             \A at \in Positions(fit.size) : At(result, at[1], at[2]) = new[at]
  BY <1>1, <1>2, <1>3, FillIs
<1>7. \A at \in Positions(result.size) :
          \/ At(result, at[1], at[2]) = Old
          \/ \E from \in Positions(output) :
                 At(result, at[1], at[2]) = Sample(format, X(from[1]), Y(from[2]))
  <2> HIDE DEF X, Y
  <2> QED
    BY <1>4, <1>6
<1>8. ASSUME result.size.w = output.w, result.size.h = output.h
      PROVE  /\ ~ResampleOverruns(r, img, size, m)
             /\ \A at \in Positions(output) :
                    At(result, at[1], at[2]) = Sample(format, X(at[1]), Y(at[2]))
  <2>1. Positions(output) = Positions(fit.size)
    BY <1>6, <1>8 DEF Positions
  <2>2. ~Overruns(fit, output)
    BY <1>2, <1>6, <1>8, NoOverrun
  <2> HIDE DEF X, Y
  <2> QED
    BY <1>4, <1>5, <1>6, <1>8, <2>1, <2>2
<1>9. /\ IsImage(result)
      /\ result.size = fit.size
      /\ \A at \in Positions(result.size) :
             \/ At(result, at[1], at[2]) = Old
             \/ \E from \in Positions(output) :
                    At(result, at[1], at[2]) = Sample(format, X(from[1]), Y(from[2]))
      /\ result.size.w = output.w /\ result.size.h = output.h =>
             /\ ~ResampleOverruns(r, img, size, m)
             /\ \A at \in Positions(output) :
                    At(result, at[1], at[2]) = Sample(format, X(at[1]), Y(at[2]))
  <2> HIDE DEF X, Y
  <2> QED
    BY <1>6, <1>7, <1>8
<1> QED
  BY <1>9 DEF result, fit, output

-----------------------------------------------------------------------------
(* The two properties, of an image that may be the next one to be shown.   *)
WholePixel(pixel, at, size) ==
    /\ pixel # Old
    /\ \A place \in {pixel.luma, pixel.chroma} :
           /\ InPlace(place[1], at[1], size.w, PartCrop.left,
                      Picture.w - PartCrop.left - PartCrop.right)
           /\ InPlace(place[2], at[2], size.h, PartCrop.top,
                      Picture.h - PartCrop.top - PartCrop.bottom)

WholeImage(img) ==
    \A at \in Positions(img.size) : WholePixel(At(img, at[1], at[2]), at, img.size)

EyePixel(pixel) ==
    IF pixel = Old THEN setup.kind \notin {"dispmanx", "v4l2"}
    ELSE IF mode = "3DSBS" THEN 2 * pixel.luma[1] < Picture.w
    ELSE 2 * pixel.luma[2] < Picture.h

EyeImage(img) == \A at \in Positions(img.size) : EyePixel(At(img, at[1], at[2]))

(* A pixel that was taken from somewhere on the screen.                    *)
LEMMA WholePlace ==
  ASSUME NEW pixel, NEW x \in Nat, NEW u \in Int, NEW y \in Nat, NEW at, NEW size,
         pixel.luma = <<x, y>>, pixel.chroma = <<u, y>>,
         InPlace(x, at[1], size.w, PartCrop.left, Picture.w - PartCrop.left - PartCrop.right),
         InPlace(u, at[1], size.w, PartCrop.left, Picture.w - PartCrop.left - PartCrop.right),
         InPlace(y, at[2], size.h, PartCrop.top, Picture.h - PartCrop.top - PartCrop.bottom)
  PROVE  WholePixel(pixel, at, size)
<1>1. pixel # Old
  <2>1. <<x, y>> # <<-1, -1>>
    OBVIOUS
  <2> QED
    BY <2>1 DEF Old, Blank
<1>2. \A place \in {pixel.luma, pixel.chroma} :
          /\ InPlace(place[1], at[1], size.w, PartCrop.left,
                     Picture.w - PartCrop.left - PartCrop.right)
          /\ InPlace(place[2], at[2], size.h, PartCrop.top,
                     Picture.h - PartCrop.top - PartCrop.bottom)
  <2>1. <<x, y>>[1] = x /\ <<x, y>>[2] = y /\ <<u, y>>[1] = u /\ <<u, y>>[2] = y
    OBVIOUS
  <2> QED
    BY <2>1
<1> QED
  BY <1>1, <1>2 DEF WholePixel

(* Only X11 takes pixels from elsewhere than the same place.               *)
LEMMA SampleIs ==
  ASSUME NEW format, NEW x, NEW y, ~IsX11
  PROVE  /\ Sample(format, x, y).luma = <<x, y>>
         /\ Sample(format, x, y).chroma = <<IF format = "BGR32" THEN x ELSE x - (x % 2), y>>
BY DEF Sample, Place, IsX11

LEMMA SampleX11Is ==
  ASSUME NEW x, NEW y, IsX11
  PROVE  /\ Sample("BGR32", x, y).luma = X11Source(x, y)
         /\ Sample("BGR32", x, y).chroma = X11Source(x, y)
BY DEF Sample, Place, IsX11

LEMMA ResampledWhole ==
  ASSUME Configured, ~IsX11, mode = "2D", NEW r, IsResampler(r), PartCrop = r.crop,
          Picture = screen,
         NEW img, IsImage(img), IsOld(img), NEW format,
         Resample(r, img, screen, mode, format).size.w = OutputSize(r, screen, mode).w,
         Resample(r, img, screen, mode, format).size.h = OutputSize(r, screen, mode).h
  PROVE  /\ WholeImage(Resample(r, img, screen, mode, format))
         /\ ~ResampleOverruns(r, img, screen, mode)
<1> DEFINE result == Resample(r, img, screen, mode, format)
           output == OutputSize(r, screen, mode)
           X(n) == r.crop.left + r.hdec \div 2 + n * r.hdec
           Y(n) == r.crop.top + r.vdec \div 2 + n * r.vdec
<1>1. screen.w \in Nat \ {0} /\ screen.h \in Nat \ {0}
  BY SetFacts
<1>2. result.size.w = output.w /\ result.size.h = output.h =>
          /\ ~ResampleOverruns(r, img, screen, mode)
          /\ \A at \in Positions(output) :
                 At(result, at[1], at[2]) = Sample(format, X(at[1]), Y(at[2]))
  BY <1>1, ResampleIs
<1>3. ASSUME NEW at \in Positions(output)
      PROVE  WholePixel(Sample(format, X(at[1]), Y(at[2])), at, output)
  <2>1. /\ output.w = Steps(Across(r, screen, mode), r.hdec)
        /\ output.h = Steps(Down(r, screen, mode), r.vdec)
        /\ Across(r, screen, mode) \in Int /\ Down(r, screen, mode) \in Int
    BY <1>1, OutputIs
  <2>2. /\ Across(r, screen, mode) = screen.w - r.crop.left - r.crop.right
        /\ Down(r, screen, mode) = screen.h - r.crop.top - r.crop.bottom
    BY DEF Across, Down
  <2>3. at[1] \in 0 .. output.w - 1 /\ at[2] \in 0 .. output.h - 1
    BY <1>3 DEF Positions
  <2>4. /\ r.hdec \in Nat \ {0} /\ r.vdec \in Nat \ {0}
        /\ r.crop.left \in Nat /\ r.crop.top \in Nat
    BY DEF IsResampler, IsCrop
  <2> HIDE DEF result, output
  <2>5. /\ X(at[1]) \in Nat
        /\ InPlace(X(at[1]), at[1], output.w, r.crop.left, screen.w - r.crop.left - r.crop.right)
        /\ InPlace(X(at[1]) - (X(at[1]) % 2), at[1], output.w, r.crop.left,
                   screen.w - r.crop.left - r.crop.right)
    <3> DEFINE from == r.crop.left
               d == r.hdec
               a == screen.w - r.crop.left - r.crop.right
    <3>1. /\ a \in Int /\ d \in Nat \ {0} /\ from \in Nat
          /\ at[1] \in 0 .. Steps(a, d) - 1 /\ output.w = Steps(a, d)
      BY <2>1, <2>2, <2>3, <2>4
    <3>2. X(at[1]) = from + d \div 2 + at[1] * d
      OBVIOUS
    <3> HIDE DEF X, from, d, a
    <3>3. /\ X(at[1]) \in Nat
          /\ InPlace(X(at[1]), at[1], output.w, from, a)
          /\ InPlace(X(at[1]) - (X(at[1]) % 2), at[1], output.w, from, a)
      BY <3>1, <3>2, StepPlace
    <3> QED
      BY <3>3 DEF from, a
  <2>6. /\ Y(at[2]) \in Nat
        /\ InPlace(Y(at[2]), at[2], output.h, r.crop.top, screen.h - r.crop.top - r.crop.bottom)
    <3> DEFINE from == r.crop.top
               d == r.vdec
               a == screen.h - r.crop.top - r.crop.bottom
    <3>1. /\ a \in Int /\ d \in Nat \ {0} /\ from \in Nat
          /\ at[2] \in 0 .. Steps(a, d) - 1 /\ output.h = Steps(a, d)
      BY <2>1, <2>2, <2>3, <2>4
    <3>2. Y(at[2]) = from + d \div 2 + at[2] * d
      OBVIOUS
    <3> HIDE DEF Y, from, d, a
    <3>3. /\ Y(at[2]) \in Nat
          /\ InPlace(Y(at[2]), at[2], output.h, from, a)
      BY <3>1, <3>2, StepPlace
    <3> QED
      BY <3>3 DEF from, a
  <2> HIDE DEF X, Y
  <2> DEFINE x == X(at[1])
             u == IF format = "BGR32" THEN x ELSE x - (x % 2)
             pixel == Sample(format, x, Y(at[2]))
  <2>7. x - (x % 2) \in Int
    <3> HIDE DEF x
    <3> QED
      BY <2>5 DEF x
  <2>8. u \in Int /\ (u = x \/ u = x - (x % 2))
    BY <2>5, <2>7
  <2>9. pixel.luma = <<x, Y(at[2])>> /\ pixel.chroma = <<u, Y(at[2])>>
    BY SampleIs
  <2> HIDE DEF u, pixel, x
  <2>10. /\ InPlace(x, at[1], output.w, PartCrop.left, Picture.w - PartCrop.left - PartCrop.right)
         /\ InPlace(u, at[1], output.w, PartCrop.left, Picture.w - PartCrop.left - PartCrop.right)
         /\ InPlace(Y(at[2]), at[2], output.h, PartCrop.top,
                    Picture.h - PartCrop.top - PartCrop.bottom)
    BY <2>5, <2>6, <2>8 DEF x
  <2>11. x \in Nat
    BY <2>5 DEF x
  <2> QED
    BY <2>6, <2>8, <2>9, <2>10, <2>11, WholePlace DEF pixel, x
<1> HIDE DEF result, output, X, Y
<1>4. result.size.w = output.w /\ result.size.h = output.h
  BY DEF result, output
<1>5. Positions(result.size) = Positions(output)
  BY <1>4 DEF Positions
<1>6. WholeImage(result)
  BY <1>2, <1>3, <1>4, <1>5 DEF WholeImage, WholePixel
<1> QED
  BY <1>2, <1>4, <1>6 DEF result

-----------------------------------------------------------------------------
(* v4l2, whose image is a new one every time.                              *)
LEMMA V4L2ResamplerIs ==
  ASSUME Configured PROVE IsResampler(V4L2Resampler) /\ V4L2Resampler.crop = setup.crop
                   /\ V4L2Resampler.hdec = setup.hdec /\ V4L2Resampler.vdec = setup.vdec
BY SetFacts DEF IsResampler, V4L2Resampler, Resampler

(* It has the size of what is shown, or nothing is.                        *)
LEMMA V4L2Size ==
  ASSUME Configured
  PROVE  LET output == OutputSize(V4L2Resampler, screen, mode)
         IN V4L2Grab.size = output \/ Positions(V4L2Grab.size) = {}
<1> DEFINE output == OutputSize(V4L2Resampler, screen, mode)
           none == NewImage(Size(0, 0))
<1>1. Size(0, 0).w = 0 /\ Size(0, 0).h = 0
  BY DEF Size
<1>2. IsImage(none) /\ IsOld(none) /\ none.size.w = 0 /\ none.size.h = 0
  BY <1>1, NewImageIs
<1>3. screen.w \in Int /\ screen.h \in Int /\ IsResampler(V4L2Resampler)
  BY SetFacts, V4L2ResamplerIs
<1>4. output.w \in Int /\ output.h \in Int
  BY <1>3, OutputIs
<1> HIDE DEF output, none
<1>5. Fitted(none, output).size \in {none.size, output}
  BY <1>2, <1>4, FittedIs
<1>6. V4L2Grab.size = Fitted(none, output).size
  BY <1>2, <1>3, ResampleIs DEF V4L2Grab, output, none
<1>7. Positions(none.size) = {}
  BY <1>2 DEF Positions
<1> QED
  BY <1>5, <1>6, <1>7 DEF output

LEMMA V4L2Whole ==
  ASSUME Configured, setup.kind = "v4l2", Mappable, mode = "2D"
  PROVE  WholeImage(V4L2Grab)
<1> DEFINE none == NewImage(Size(0, 0))
<1>1. IsImage(none) /\ IsOld(none)
  <2>1. Size(0, 0).w \in Int /\ Size(0, 0).h \in Int
    BY DEF Size
  <2> QED
    BY <2>1, NewImageIs
<1>2. PartCrop = setup.crop /\ Picture = screen /\ ~IsX11
  BY DEF PartCrop, Picture, IsX11, IsScaled
<1>3. CASE Positions(V4L2Grab.size) = {}
  BY <1>3 DEF WholeImage
<1>4. CASE V4L2Grab.size = OutputSize(V4L2Resampler, screen, mode)
  BY <1>1, <1>2, <1>4, V4L2ResamplerIs, ResampledWhole DEF V4L2Grab
<1> QED
  BY <1>3, <1>4, V4L2Size

(* A pixel from the half that is shown.                                    *)
LEMMA EyePlace ==
  ASSUME NEW pixel, NEW x \in Nat, NEW y \in Nat, pixel.luma = <<x, y>>,
         mode = "3DSBS" => 2 * x < Picture.w,
         mode # "3DSBS" => 2 * y < Picture.h
  PROVE  EyePixel(pixel)
<1>1. pixel # Old
  <2>1. <<x, y>> # <<-1, -1>>
    OBVIOUS
  <2> QED
    BY <2>1 DEF Old, Blank
<1>2. pixel.luma[1] = x /\ pixel.luma[2] = y
  OBVIOUS
<1> QED
  BY <1>1, <1>2 DEF EyePixel

LEMMA ResampledEye ==
  ASSUME Configured, ~IsX11, mode \in Modes, mode # "2D", NEW r, IsResampler(r), Picture = screen,
         NEW img, IsImage(img), IsOld(img), NEW format,
         \/ setup.kind # "v4l2" /\ setup.kind # "dispmanx"
         \/ Resample(r, img, screen, mode, format).size = OutputSize(r, screen, mode)
  PROVE  EyeImage(Resample(r, img, screen, mode, format))
<1> DEFINE result == Resample(r, img, screen, mode, format)
           output == OutputSize(r, screen, mode)
           X(n) == r.crop.left + r.hdec \div 2 + n * r.hdec
           Y(n) == r.crop.top + r.vdec \div 2 + n * r.vdec
<1>1. screen.w \in Nat \ {0} /\ screen.h \in Nat \ {0}
  BY SetFacts
<1>2. /\ \A at \in Positions(result.size) :
             \/ At(result, at[1], at[2]) = Old
             \/ \E from \in Positions(output) :
                    At(result, at[1], at[2]) = Sample(format, X(from[1]), Y(from[2]))
      /\ result.size.w = output.w /\ result.size.h = output.h =>
             \A at \in Positions(output) :
                 At(result, at[1], at[2]) = Sample(format, X(at[1]), Y(at[2]))
  BY <1>1, ResampleIs
<1>3. ASSUME NEW at \in Positions(output)
      PROVE  EyePixel(Sample(format, X(at[1]), Y(at[2])))
  <2>1. /\ output.w = Steps(Across(r, screen, mode), r.hdec)
        /\ output.h = Steps(Down(r, screen, mode), r.vdec)
        /\ Across(r, screen, mode) \in Int /\ Down(r, screen, mode) \in Int
    BY <1>1, OutputIs
  <2>2. at[1] \in 0 .. output.w - 1 /\ at[2] \in 0 .. output.h - 1
    BY <1>3 DEF Positions
  <2>3. /\ r.hdec \in Nat \ {0} /\ r.vdec \in Nat \ {0}
        /\ r.crop.left \in Nat /\ r.crop.top \in Nat
    BY DEF IsResampler, IsCrop
  <2> HIDE DEF result, output
  <2>4. X(at[1]) \in Nat /\ X(at[1]) < r.crop.left + Across(r, screen, mode)
    BY <2>1, <2>2, <2>3, StepPlace
  <2>5. Y(at[2]) \in Nat /\ Y(at[2]) < r.crop.top + Down(r, screen, mode)
    BY <2>1, <2>2, <2>3, StepPlace
  <2> HIDE DEF X, Y
  <2>6. ASSUME mode = "3DSBS" PROVE 2 * X(at[1]) < screen.w
    <3>1. Across(r, screen, mode) = screen.w - r.crop.left - (screen.w \div 2)
      BY <2>6 DEF Across
    <3>2. X(at[1]) < screen.w - (screen.w \div 2)
      <4>1. screen.w \div 2 \in Int
        BY <1>1, Quotient
      <4> QED
        BY <2>3, <2>4, <3>1, <4>1, <1>1
    <3> QED
      BY <2>4, <3>2, <1>1, HalfOf
  <2>7. ASSUME mode # "3DSBS" PROVE 2 * Y(at[2]) < screen.h
    <3>1. Down(r, screen, mode) = screen.h - r.crop.top - (screen.h \div 2)
      BY <2>7 DEF Down, Modes
    <3>2. Y(at[2]) < screen.h - (screen.h \div 2)
      <4>1. screen.h \div 2 \in Int
        BY <1>1, Quotient
      <4> QED
        BY <2>3, <2>5, <3>1, <4>1, <1>1
    <3> QED
      BY <2>5, <3>2, <1>1, HalfOf
  <2>8. Sample(format, X(at[1]), Y(at[2])).luma = <<X(at[1]), Y(at[2])>>
    BY SampleIs
  <2> DEFINE x == X(at[1])
             y == Y(at[2])
             pixel == Sample(format, x, y)
  <2> HIDE DEF pixel, x, y
  <2>9. x \in Nat /\ y \in Nat /\ pixel.luma = <<x, y>>
    BY <2>4, <2>5, <2>8 DEF pixel, x, y
  <2>10. (mode = "3DSBS" => 2 * x < Picture.w) /\ (mode # "3DSBS" => 2 * y < Picture.h)
    BY <2>6, <2>7 DEF x, y
  <2> QED
    BY <2>9, <2>10, EyePlace DEF pixel, x, y
<1>4. CASE setup.kind # "v4l2" /\ setup.kind # "dispmanx"
  <2>1. EyePixel(Old)
    BY <1>4 DEF EyePixel
  <2> HIDE DEF result, output, X, Y
  <2>2. EyeImage(result)
    BY <1>2, <1>3, <2>1 DEF EyeImage
  <2> QED
    BY <2>2 DEF result
<1>5. CASE result.size = output
  <2> HIDE DEF result, output, X, Y
  <2>1. EyeImage(result)
    BY <1>2, <1>3, <1>5 DEF EyeImage
  <2> QED
    BY <2>1 DEF result
<1> QED
  BY <1>4, <1>5

LEMMA V4L2Eye ==
  ASSUME Configured, setup.kind = "v4l2", mode \in Modes, mode # "2D"
  PROVE  EyeImage(V4L2Grab)
<1> DEFINE none == NewImage(Size(0, 0))
<1>1. IsImage(none) /\ IsOld(none)
  <2>1. Size(0, 0).w \in Int /\ Size(0, 0).h \in Int
    BY DEF Size
  <2> QED
    BY <2>1, NewImageIs
<1>2. Picture = screen /\ ~IsX11
  BY DEF Picture, IsX11, IsScaled
<1>3. CASE Positions(V4L2Grab.size) = {}
  BY <1>3 DEF EyeImage
<1>4. CASE V4L2Grab.size = OutputSize(V4L2Resampler, screen, mode)
  BY <1>1, <1>2, <1>4, V4L2ResamplerIs, ResampledEye DEF V4L2Grab
<1> QED
  BY <1>3, <1>4, V4L2Size

-----------------------------------------------------------------------------
(* framebuffer and osx: for each pixel of the image, a whole number of the *)
(* screen's.                                                               *)
LEMMA WholeSteps ==
  ASSUME NEW a \in Nat \ {0}, NEW b \in Nat \ {0}, a % b = 0
  PROVE  a \div b \in Nat \ {0} /\ Steps(a, a \div b) = b
<1> DEFINE d == a \div b
           c == a - d \div 2 + d - 1
<1>1. d \in Int /\ a = b * d + (a % b)
  OBVIOUS
<1>2. d \in Nat \ {0} /\ a = b * d
  <2>1. a = b * d
    BY <1>1
  <2> HIDE DEF d
  <2>2. CASE d <= 0
    <3>1. b * d <= 0
      BY <1>1, <2>2
    <3> QED
      BY <3>1, <2>1
  <2> QED
    BY <2>1, <2>2, <1>1
<1> HIDE DEF d
<1>3. d \div 2 \in Nat /\ 2 * (d \div 2) <= d
  BY <1>2, Quotient
<1>4. c \in Int /\ d * b <= c /\ c < d * b + d
  BY <1>2, <1>3
<1>5. c \div d = b
  <2> HIDE DEF c
  <2> QED
    BY <1>2, <1>4, QuotientIs
<1> QED
  BY <1>2, <1>5 DEF Steps, d, c

LEMMA ScaledIs ==
  ASSUME Configured, IsScaled, Mappable
  PROVE  /\ IsResampler(ScaledResampler) /\ ScaledResampler.crop = NoCrop
         /\ mode # "3DSBS" => OutputSize(ScaledResampler, screen, mode).w = setup.size.w
         /\ mode # "3DTAB" => OutputSize(ScaledResampler, screen, mode).h = setup.size.h
<1> DEFINE r == ScaledResampler
<1>1. /\ screen.w \in Nat \ {0} /\ screen.h \in Nat \ {0}
      /\ setup.size.w \in Nat \ {0} /\ setup.size.h \in Nat \ {0}
      /\ screen.w % setup.size.w = 0 /\ screen.h % setup.size.h = 0
  BY SetFacts DEF Mappable, Configured
<1>2. r.crop = NoCrop /\ r.hdec = screen.w \div setup.size.w /\ r.vdec = screen.h \div setup.size.h
  BY DEF ScaledResampler, Resampler
<1>3. /\ r.hdec \in Nat \ {0} /\ Steps(screen.w, r.hdec) = setup.size.w
      /\ r.vdec \in Nat \ {0} /\ Steps(screen.h, r.vdec) = setup.size.h
  <2> HIDE DEF r
  <2> DEFINE hdec == screen.w \div setup.size.w
             vdec == screen.h \div setup.size.h
  <2>1. hdec \in Nat \ {0} /\ Steps(screen.w, hdec) = setup.size.w
    BY <1>1, WholeSteps
  <2>2. vdec \in Nat \ {0} /\ Steps(screen.h, vdec) = setup.size.h
    BY <1>1, WholeSteps
  <2>3. r.hdec = hdec /\ r.vdec = vdec
    BY <1>2
  <2> HIDE DEF hdec, vdec
  <2> QED
    BY <2>1, <2>2, <2>3
<1> HIDE DEF r
<1>4. IsResampler(r)
  BY <1>2, <1>3, NoCropIs DEF IsResampler
<1>5. mode # "3DSBS" => Across(r, screen, mode) = screen.w
  BY <1>1, <1>2, NoCropIs DEF Across
<1>6. mode # "3DTAB" => Down(r, screen, mode) = screen.h
  BY <1>1, <1>2, NoCropIs DEF Down
<1>7. /\ OutputSize(r, screen, mode).w = Steps(Across(r, screen, mode), r.hdec)
      /\ OutputSize(r, screen, mode).h = Steps(Down(r, screen, mode), r.vdec)
  BY <1>1, <1>4, OutputIs
<1> QED
  BY <1>2, <1>3, <1>4, <1>5, <1>6, <1>7 DEF r

(* The image keeps the configured size in every mode.                      *)
LEMMA ScaledFits ==
  ASSUME Configured, IsScaled, Mappable, mode \in Modes, NEW img, IsImage(img),
          img.size = setup.size
  PROVE  /\ Fitted(img, OutputSize(ScaledResampler, screen, mode)) = img
         /\ mode = "2D" => ~ScaledOverruns(img)
<1> DEFINE r == ScaledResampler
           output == OutputSize(r, screen, mode)
<1>1. screen.w \in Int /\ screen.h \in Int
  BY SetFacts
<1>2. /\ IsResampler(r)
      /\ mode # "3DSBS" => output.w = setup.size.w
      /\ mode # "3DTAB" => output.h = setup.size.h
  BY ScaledIs
<1>3. output.w \in Int /\ output.h \in Int
  BY <1>1, <1>2, OutputIs
<1>4. Fitted(img, output) = img
  <2>1. output.w = img.size.w \/ output.h = img.size.h
    BY <1>2
  <2> HIDE DEF output
  <2> QED
    BY <1>3, <2>1, FittedIs
<1>5. ASSUME mode = "2D" PROVE ~ScaledOverruns(img)
  <2>1. ScaledOverruns(img) <=> Overruns(img, output)
    BY <1>4 DEF ScaledOverruns, ResampleOverruns
  <2>2. img.size.w = output.w /\ img.size.h = output.h
    BY <1>2, <1>5
  <2> HIDE DEF output
  <2> QED
    BY <2>1, <2>2, NoOverrun
<1> QED
  BY <1>4, <1>5

LEMMA ScaledGrabIs ==
  ASSUME Configured, mode \in Modes, IsScaled, Mappable, NEW img, IsImage(img), IsOld(img),
          img.size = setup.size
  PROVE  /\ IsImage(ScaledGrab(img)) /\ ScaledGrab(img).size = setup.size
         /\ mode = "2D" => WholeImage(ScaledGrab(img))
         /\ mode # "2D" => EyeImage(ScaledGrab(img))
<1> DEFINE r == ScaledResampler
           output == OutputSize(r, screen, mode)
<1>1. /\ screen.w \in Nat \ {0} /\ screen.h \in Nat \ {0}
      /\ setup.size.w \in Nat \ {0} /\ setup.size.h \in Nat \ {0}
  BY SetFacts
<1>2. /\ IsResampler(r) /\ r.crop = NoCrop
      /\ mode # "3DSBS" => output.w = setup.size.w
      /\ mode # "3DTAB" => output.h = setup.size.h
  BY ScaledIs
<1>3. /\ PartCrop = NoCrop /\ Picture = screen /\ ~IsX11
      /\ setup.kind # "v4l2" /\ setup.kind # "dispmanx"
  BY DEF PartCrop, Picture, IsX11, IsScaled
<1>4. Fitted(img, output) = img
  BY ScaledFits
<1>5. IsImage(ScaledGrab(img)) /\ ScaledGrab(img).size = setup.size
  BY <1>1, <1>2, <1>4, ResampleIs DEF ScaledGrab
<1>6. mode # "2D" => EyeImage(ScaledGrab(img))
  BY <1>2, <1>3, ResampledEye DEF ScaledGrab
<1>7. ASSUME mode = "2D" PROVE WholeImage(ScaledGrab(img))
  <2> DEFINE result == Resample(r, img, screen, mode, "BGR32")
  <2>1. /\ result.size.w = output.w /\ result.size.h = output.h
    BY <1>2, <1>5, <1>7 DEF ScaledGrab
  <2>2. WholeImage(result)
    BY <1>2, <1>3, <1>7, <2>1, ResampledWhole
  <2> QED
    BY <1>7, <2>2 DEF ScaledGrab
<1> QED
  BY <1>5, <1>6, <1>7

-----------------------------------------------------------------------------
(* dispmanx and amlogic copy their picture pixel by pixel into an image of *)
(* the right size.  A pixel n of length is in place there.                 *)
LEMMA CopyInPlace ==
  ASSUME NEW length \in Nat, NEW n \in 0 .. length - 1, NEW from \in Int, NEW p, p = from + n
  PROVE  InPlace(p, n, length, from, length)
BY SameInPlace

LEMMA DispmanxIs ==
  ASSUME Configured
  PROVE  /\ IsCrop(DispmanxCrop)
         /\ setup.size.w - DispmanxCrop.left - DispmanxCrop.right \in Nat \ {0}
         /\ setup.size.h - DispmanxCrop.top - DispmanxCrop.bottom \in Nat \ {0}
         /\ DispmanxSize.w = IF mode = "3DSBS"
                THEN (setup.size.w - DispmanxCrop.left - DispmanxCrop.right) \div 2
                ELSE setup.size.w - DispmanxCrop.left - DispmanxCrop.right
         /\ DispmanxSize.h = IF mode = "3DTAB"
                THEN (setup.size.h - DispmanxCrop.top - DispmanxCrop.bottom) \div 2
                ELSE setup.size.h - DispmanxCrop.top - DispmanxCrop.bottom
         /\ DispmanxSize.w \in Int /\ DispmanxSize.h \in Int
         /\ DispmanxCorner.x \in Nat /\ DispmanxCorner.y \in Nat
         /\ DispmanxCorner.x = IF mode = "3DSBS" THEN DispmanxCrop.left \div 2
                               ELSE DispmanxCrop.left
         /\ DispmanxCorner.y = IF mode = "3DTAB" THEN DispmanxCrop.top \div 2
                               ELSE DispmanxCrop.top
<1> DEFINE c == DispmanxCrop
           w == setup.size.w - c.left - c.right
           h == setup.size.h - c.top - c.bottom
<1>1. /\ setup.size.w \in Nat \ {0} /\ setup.size.h \in Nat \ {0} /\ IsCrop(setup.crop)
  BY SetFacts
<1>2. \/ c = NoCrop
      \/ /\ c = setup.crop
         /\ setup.crop.left + setup.crop.right < setup.size.w
         /\ setup.crop.top + setup.crop.bottom < setup.size.h
  BY <1>1 DEF DispmanxCrop, IsCrop
<1> HIDE DEF c
<1>3. IsCrop(c) /\ w \in Nat \ {0} /\ h \in Nat \ {0}
  BY <1>1, <1>2, NoCropIs DEF IsCrop
<1>4. c.left \in Nat /\ c.top \in Nat
  BY <1>3 DEF IsCrop
<1> HIDE DEF w, h
<1>5. w \div 2 \in Int /\ h \div 2 \in Int /\ c.left \div 2 \in Nat /\ c.top \div 2 \in Nat
  BY <1>3, <1>4, Quotient
<1>6. /\ DispmanxSize.w = IF mode = "3DSBS" THEN w \div 2 ELSE w
      /\ DispmanxSize.h = IF mode = "3DTAB" THEN h \div 2 ELSE h
      /\ DispmanxCorner.x = IF mode = "3DSBS" THEN c.left \div 2 ELSE c.left
      /\ DispmanxCorner.y = IF mode = "3DTAB" THEN c.top \div 2 ELSE c.top
  BY DEF DispmanxSize, DispmanxCorner, Size, w, h, c
<1>7. /\ DispmanxSize.w \in Int /\ DispmanxSize.h \in Int
      /\ DispmanxCorner.x \in Nat /\ DispmanxCorner.y \in Nat
  BY <1>3, <1>4, <1>5, <1>6
<1> QED
  BY <1>3, <1>6, <1>7 DEF w, h, c

LEMMA DispmanxGrabIs ==
  ASSUME Configured, mode \in Modes, setup.kind = "dispmanx", NEW img, IsImage(img), IsOld(img)
  PROVE  /\ IsImage(DispmanxFit(img)) /\ IsImage(DispmanxGrab(img))
         /\ mode = "2D" => WholeImage(DispmanxGrab(img))
         /\ mode # "2D" => EyeImage(DispmanxGrab(img))
<1> DEFINE size == DispmanxSize
           X(n) == DispmanxCorner.x + n
           Y(n) == DispmanxCorner.y + n
           new == [at \in Positions(size) |-> Sample("BGR32", X(at[1]), Y(at[2]))]
           fit == DispmanxFit(img)
           result == Fill(fit, size, new)
           c == DispmanxCrop
           w == setup.size.w - c.left - c.right
           h == setup.size.h - c.top - c.bottom
<1>1. DispmanxGrab(img) = result
  BY DEF DispmanxGrab
<1>2. fit = IF img.size = size THEN img ELSE Resize(img, size)
  BY DEF DispmanxFit
<1>3. size.w \in Int /\ size.h \in Int
  BY DispmanxIs
<1>4. \A at \in Positions(size) : new[at] = Sample("BGR32", X(at[1]), Y(at[2]))
  OBVIOUS
<1> HIDE DEF size, new, fit
<1>5. /\ IsImage(fit) /\ IsImage(result) /\ result.size = size
      /\ \A at \in Positions(size) : At(result, at[1], at[2]) = new[at]
  <2>1. IsImage(fit) /\ fit.size = size
    BY <1>2, <1>3, ResizeIs
  <2> QED
    BY <1>3, <2>1, FillIs
<1>6. /\ c.left \in Nat /\ c.top \in Nat /\ c.right \in Nat /\ c.bottom \in Nat
      /\ w \in Nat \ {0} /\ h \in Nat \ {0}
      /\ size.w = IF mode = "3DSBS" THEN w \div 2 ELSE w
      /\ size.h = IF mode = "3DTAB" THEN h \div 2 ELSE h
      /\ DispmanxCorner.x \in Nat /\ DispmanxCorner.y \in Nat
      /\ DispmanxCorner.x = IF mode = "3DSBS" THEN c.left \div 2 ELSE c.left
      /\ DispmanxCorner.y = IF mode = "3DTAB" THEN c.top \div 2 ELSE c.top
      /\ setup.size.w \in Nat /\ setup.size.h \in Nat
  BY DispmanxIs, SetFacts DEF IsCrop, size
<1>7. /\ PartCrop = c /\ Picture = setup.size /\ ~IsX11
      /\ w = Picture.w - PartCrop.left - PartCrop.right
      /\ h = Picture.h - PartCrop.top - PartCrop.bottom
  BY DEF PartCrop, Picture, IsX11, IsScaled
<1> HIDE DEF result, c
<1>8. ASSUME NEW at \in Positions(size)
      PROVE  /\ at[1] \in 0 .. size.w - 1 /\ at[2] \in 0 .. size.h - 1
             /\ X(at[1]) \in Nat /\ Y(at[2]) \in Nat
             /\ Sample("BGR32", X(at[1]), Y(at[2])).luma = <<X(at[1]), Y(at[2])>>
             /\ Sample("BGR32", X(at[1]), Y(at[2])).chroma = <<X(at[1]), Y(at[2])>>
  <2>1. at[1] \in 0 .. size.w - 1 /\ at[2] \in 0 .. size.h - 1
    BY <1>8 DEF Positions
  <2>2. X(at[1]) \in Nat /\ Y(at[2]) \in Nat
    BY <1>3, <1>6, <2>1
  <2> QED
    BY <1>7, <2>1, <2>2, SampleIs
<1>9. ASSUME mode = "2D", NEW at \in Positions(size)
      PROVE  WholePixel(Sample("BGR32", X(at[1]), Y(at[2])), at, size)
  <2>1. /\ X(at[1]) = c.left + at[1] /\ Y(at[2]) = c.top + at[2]
        /\ size.w = w /\ size.h = h
    BY <1>6, <1>9
  <2>2. InPlace(X(at[1]), at[1], size.w, c.left, w) /\ InPlace(Y(at[2]), at[2], size.h, c.top, h)
    <3>1. w \in Nat /\ h \in Nat /\ c.left \in Int /\ c.top \in Int
      BY <1>6
    <3>2. at[1] \in 0 .. w - 1 /\ at[2] \in 0 .. h - 1
      BY <1>8, <2>1
    <3> HIDE DEF X, Y, w, h
    <3>3. InPlace(X(at[1]), at[1], w, c.left, w)
      BY <2>1, <3>1, <3>2, CopyInPlace
    <3>4. InPlace(Y(at[2]), at[2], h, c.top, h)
      BY <2>1, <3>1, <3>2, CopyInPlace
    <3> QED
      BY <2>1, <3>3, <3>4
  <2> HIDE DEF X, Y, w, h
  <2> DEFINE x == X(at[1])
             y == Y(at[2])
             pixel == Sample("BGR32", x, y)
  <2>3. x \in Nat /\ y \in Nat /\ pixel.luma = <<x, y>> /\ pixel.chroma = <<x, y>>
    BY <1>8
  <2>4. /\ InPlace(x, at[1], size.w, PartCrop.left, Picture.w - PartCrop.left - PartCrop.right)
        /\ InPlace(y, at[2], size.h, PartCrop.top, Picture.h - PartCrop.top - PartCrop.bottom)
    BY <1>7, <2>2
  <2> HIDE DEF x, y, pixel
  <2>5. x \in Int
    BY <2>3
  <2> QED
    BY <2>3, <2>4, <2>5, WholePlace DEF x, y, pixel
<1>10. ASSUME mode # "2D", NEW at \in Positions(size)
       PROVE  EyePixel(Sample("BGR32", X(at[1]), Y(at[2])))
  <2>1. ASSUME mode = "3DSBS" PROVE 2 * X(at[1]) < Picture.w
    <3>1. 2 * (c.left \div 2) <= c.left /\ 2 * (w \div 2) <= w
      BY <1>6, Quotient
    <3>2. DispmanxCorner.x = c.left \div 2 /\ size.w = w \div 2
      BY <1>6, <2>1
    <3>3. w = setup.size.w - c.left - c.right
      OBVIOUS
    <3> HIDE DEF w
    <3>4. at[1] \in Int /\ at[1] <= size.w - 1
      BY <1>8, <1>3
    <3> QED
      BY <1>3, <1>6, <1>7, <3>1, <3>2, <3>3, <3>4
  <2>2. ASSUME mode # "3DSBS" PROVE 2 * Y(at[2]) < Picture.h
    <3>1. 2 * (c.top \div 2) <= c.top /\ 2 * (h \div 2) <= h
      BY <1>6, Quotient
    <3>2. DispmanxCorner.y = c.top \div 2 /\ size.h = h \div 2
      BY <1>6, <1>10, <2>2 DEF Modes
    <3>3. h = setup.size.h - c.top - c.bottom
      OBVIOUS
    <3> HIDE DEF h
    <3>4. at[2] \in Int /\ at[2] <= size.h - 1
      BY <1>8, <1>3
    <3>5. /\ h \in Nat /\ c.top \in Nat /\ c.bottom \in Nat
          /\ setup.size.h \in Nat /\ Picture.h = setup.size.h
      BY <1>6, <1>7
    <3>6. c.top \div 2 \in Int /\ h \div 2 \in Int
      BY <3>5, Quotient
    <3> QED
      BY <3>1, <3>2, <3>3, <3>4, <3>5, <3>6
  <2> HIDE DEF X, Y, w, h
  <2> DEFINE x == X(at[1])
             y == Y(at[2])
             pixel == Sample("BGR32", x, y)
  <2>3. x \in Nat /\ y \in Nat /\ pixel.luma = <<x, y>>
    BY <1>8
  <2>4. (mode = "3DSBS" => 2 * x < Picture.w) /\ (mode # "3DSBS" => 2 * y < Picture.h)
    BY <2>1, <2>2
  <2> HIDE DEF x, y, pixel
  <2> QED
    BY <2>3, <2>4, EyePlace DEF x, y, pixel
<1> HIDE DEF X, Y
<1>11. mode = "2D" => WholeImage(result)
  BY <1>4, <1>5, <1>9 DEF WholeImage
<1>12. mode # "2D" => EyeImage(result)
  BY <1>4, <1>5, <1>10 DEF EyeImage
<1> QED
  BY <1>1, <1>5, <1>11, <1>12 DEF fit

LEMMA AmlogicIs ==
  ASSUME Configured PROVE AmlogicSize.w \in Nat /\ AmlogicSize.h \in Nat
<1>1. ASSUME NEW a \in Nat, NEW b \in Nat PROVE Max({a, b}) \in Nat
  <2>1. \E x \in {a, b} : \A y \in {a, b} : x >= y
    OBVIOUS
  <2>2. Max({a, b}) \in {a, b}
    BY <2>1 DEF Max
  <2> QED
    BY <2>2
<1>2. MinSize \in Nat /\ setup.size.w \in Nat /\ setup.size.h \in Nat
  BY SetFacts, LimitsArePositive
<1> QED
  BY <1>1, <1>2 DEF AmlogicSize, Size

LEMMA AmlogicGrabIs ==
  ASSUME Configured, setup.kind = "amlogic", NEW img, IsImage(img), IsOld(img)
  PROVE  /\ IsImage(AmlogicFit(img)) /\ IsImage(AmlogicGrab(img))
         /\ WholeImage(AmlogicGrab(img))
<1> DEFINE size == AmlogicSize
           new == [at \in Positions(size) |-> Sample("BGR32", at[1], at[2])]
           fit == AmlogicFit(img)
           result == Fill(fit, size, new)
<1>1. AmlogicGrab(img) = result
  BY DEF AmlogicGrab
<1>2. fit = IF img.size = size THEN img ELSE Resize(img, size)
  BY DEF AmlogicFit
<1>3. size.w \in Nat /\ size.h \in Nat
  BY AmlogicIs
<1>4. \A at \in Positions(size) : new[at] = Sample("BGR32", at[1], at[2])
  OBVIOUS
<1> HIDE DEF size, new, fit
<1>5. /\ IsImage(fit) /\ IsImage(result) /\ result.size = size
      /\ \A at \in Positions(size) : At(result, at[1], at[2]) = new[at]
  <2>1. IsImage(fit) /\ fit.size = size
    BY <1>2, <1>3, ResizeIs
  <2> QED
    BY <1>3, <2>1, FillIs
<1>6. PartCrop = NoCrop /\ Picture = size /\ ~IsX11
  BY DEF PartCrop, Picture, IsX11, size
<1>7. ASSUME NEW at \in Positions(size)
      PROVE  WholePixel(Sample("BGR32", at[1], at[2]), at, size)
  <2>1. at[1] \in 0 .. size.w - 1 /\ at[2] \in 0 .. size.h - 1
    BY <1>7 DEF Positions
  <2>2. /\ PartCrop.left = 0 /\ Picture.w - PartCrop.left - PartCrop.right = size.w
        /\ PartCrop.top = 0 /\ Picture.h - PartCrop.top - PartCrop.bottom = size.h
    BY <1>3, <1>6, NoCropIs
  <2>3. InPlace(at[1], at[1], size.w, 0, size.w) /\ InPlace(at[2], at[2], size.h, 0, size.h)
    <3>1. 0 + at[1] = at[1] /\ 0 + at[2] = at[2] /\ 0 \in Int
      BY <1>3, <2>1
    <3> QED
      BY <1>3, <2>1, <3>1, CopyInPlace
  <2>4. at[1] \in Nat /\ at[1] \in Int /\ at[2] \in Nat
    BY <1>3, <2>1
  <2>5. /\ Sample("BGR32", at[1], at[2]).luma = <<at[1], at[2]>>
        /\ Sample("BGR32", at[1], at[2]).chroma = <<at[1], at[2]>>
    BY <1>6, SampleIs
  <2> QED
    BY <2>2, <2>3, <2>4, <2>5, WholePlace
<1> HIDE DEF result
<1>8. WholeImage(result)
  BY <1>4, <1>5, <1>7 DEF WholeImage
<1> QED
  BY <1>1, <1>5, <1>8 DEF fit

-----------------------------------------------------------------------------
(* X11, one direction: a screen of length is cropped to left, of which a   *)
(* 3D mode leaves half, and every decimation-th column is taken.           *)
LEMMA CroppedColumn ==
  ASSUME NEW length \in Nat \ {0}, NEW from \in Nat, NEW to \in Nat, from + to < length,
         NEW d \in Nat \ {0}, NEW half \in BOOLEAN,
         NEW left, left = length - from - to,
         NEW a, a = IF half THEN left - (left \div 2) ELSE left,
         NEW n \in 0 .. Steps(a, d) - 1,
         NEW p, p = from + (0 + d \div 2 + n * d)
  PROVE  /\ p \in Nat
         /\ ~half => InPlace(p, n, Steps(a, d), from, left)
         /\ half /\ from = to => 2 * p < length
<1>1. left \in Nat \ {0} /\ left \div 2 \in Int
  BY Quotient
<1>2. a \in Int
  BY <1>1
<1> DEFINE q == from + d \div 2 + n * d
           s == Steps(a, d)
<1>3. d \div 2 \in Int /\ n * d \in Int
  <2>1. n \in Int
    BY <1>2
  <2> QED
    BY <2>1, Quotient
<1>4. p = q
  BY <1>3
<1>5. q \in Nat /\ q < from + a /\ InPlace(q, n, s, from, a)
  BY <1>2, StepPlace
<1> HIDE DEF q, s
<1>6. ~half => a = left
  OBVIOUS
<1>7. ASSUME half, from = to PROVE 2 * p < length
  <2>1. p - from \in Int /\ p - from < left - (left \div 2)
    BY <1>1, <1>4, <1>5, <1>7
  <2>2. 2 * (p - from) < left
    <3> DEFINE e == p - from
    <3>1. e \in Int /\ e < left - (left \div 2) /\ left \in Nat
      BY <1>1, <2>1
    <3> HIDE DEF e
    <3>2. 2 * e < left
      BY <3>1, HalfOf
    <3> QED
      BY <3>2 DEF e
  <2> QED
    BY <2>1, <2>2, <1>4, <1>5, <1>7
<1> QED
  BY <1>4, <1>5, <1>6, <1>7 DEF s

LEMMA StepsOfOne ==
  ASSUME NEW a \in Int PROVE Steps(a, 1) = a
<1>1. 1 \div 2 = 0
  OBVIOUS
<1>2. a - 1 \div 2 + 1 - 1 = a /\ a \div 1 = a
  BY <1>1
<1> QED
  BY <1>2 DEF Steps

(* The same with XRender, which decimates before the half is taken.        *)
LEMMA RenderedColumn ==
  ASSUME NEW length \in Nat \ {0}, NEW from \in Nat, NEW to \in Nat, from + to < length,
         NEW d \in Nat \ {0}, NEW half \in BOOLEAN,
         NEW left, left = length - from - to,
         NEW part, part = left \div d,
         NEW a, a = IF half THEN part - (part \div 2) ELSE part,
         NEW n \in 0 .. Steps(a, 1) - 1,
         NEW p, p = from + n * d
  PROVE  /\ p \in Nat /\ p < length
         /\ ~half => InPlace(p, n, Steps(a, 1), from, left)
         /\ half /\ from = to => 2 * p < length
<1>1. left \in Nat \ {0}
  OBVIOUS
<1>2. part \in Int /\ d * part <= left
  BY <1>1, Quotient
<1>3. part \in Nat
  <2>1. part \div 2 \in Int /\ 2 * (part \div 2) <= part /\ part < 2 * (part \div 2) + 2
    BY <1>2, Quotient
  <2>2. CASE part < 0
    <3>1. a \in Int /\ a <= 0
      BY <1>2, <2>1, <2>2
    <3> QED
      BY <3>1, StepsOfOne
  <2> QED
    BY <1>2, <2>2
<1>4. part \div 2 \in Nat /\ 2 * (part \div 2) <= part
  BY <1>3, Quotient
<1>5. Steps(a, 1) = a /\ a \in Int /\ a <= part
  BY <1>2, <1>4, StepsOfOne
<1>6. n \in 0 .. part - 1 /\ n \in Nat /\ n \in 0 .. (left \div d) - 1
  BY <1>3, <1>5
<1>7. InPlace(from + n * d, n, left \div d, from, left) /\ n * d < left /\ n * d \in Nat
  BY <1>1, <1>6, RenderInPlace
<1>8. p \in Nat /\ p < length
  BY <1>7
<1>9. ~half => InPlace(p, n, Steps(a, 1), from, left)
  BY <1>5, <1>7
<1>10. ASSUME half, from = to PROVE 2 * p < length
  <2>1. 2 * n < part
    <3>1. n < part - (part \div 2) /\ n \in Int
      BY <1>5, <1>6, <1>10
    <3> QED
      BY <3>1, <1>3, HalfOf
  <2>2. (2 * n) * d <= (part - 1) * d
    BY <1>3, <1>6, <2>1, Product
  <2>3. (2 * n) * d = 2 * (n * d) /\ (part - 1) * d = d * part - d
    BY <1>3, <1>6
  <2> DEFINE nd == n * d
             dp == d * part
  <2>4. nd \in Nat /\ dp \in Int /\ 2 * nd <= dp - d /\ dp <= left /\ p = from + nd
    BY <1>2, <1>3, <1>7, <2>2, <2>3
  <2> HIDE DEF nd, dp
  <2> QED
    BY <2>4, <1>10
<1> QED
  BY <1>8, <1>9, <1>10

LEMMA PartIs ==
  ASSUME Configured, IsX11, Mappable
  PROVE  LET left == screen.w - setup.crop.left - setup.crop.right
             down == screen.h - setup.crop.top - setup.crop.bottom
         IN /\ setup.crop.left + setup.crop.right < screen.w
            /\ setup.crop.top + setup.crop.bottom < screen.h
            /\ setup.hdec = setup.vdec
            /\ left \in Nat \ {0} /\ down \in Nat \ {0}
            /\ CroppedSize.w = IF UsesRender THEN left \div setup.hdec ELSE left
            /\ CroppedSize.h = IF UsesRender THEN down \div setup.vdec ELSE down
            /\ CroppedSize.w \in Nat /\ CroppedSize.h \in Nat
            /\ CroppedSize = Size(CroppedSize.w, CroppedSize.h)
            /\ ~UsesRender => CroppedSize.w > 0 /\ CroppedSize.h > 0
<1> DEFINE left == screen.w - setup.crop.left - setup.crop.right
           down == screen.h - setup.crop.top - setup.crop.bottom
<1>1. /\ screen.w \in Nat /\ screen.h \in Nat
      /\ setup.crop.left \in Nat /\ setup.crop.right \in Nat
      /\ setup.crop.top \in Nat /\ setup.crop.bottom \in Nat
      /\ setup.hdec \in Nat \ {0} /\ setup.vdec \in Nat \ {0}
  BY SetFacts DEF IsCrop
<1>2. /\ setup.crop.left + setup.crop.right < screen.w
      /\ setup.crop.top + setup.crop.bottom < screen.h
      /\ setup.hdec = setup.vdec
  BY DEF Mappable, Configured
<1>3. left \in Nat \ {0} /\ down \in Nat \ {0}
  BY <1>1, <1>2
<1>4. /\ CroppedSize.w = left \div (IF UsesRender THEN setup.hdec ELSE 1)
      /\ CroppedSize.h = down \div (IF UsesRender THEN setup.vdec ELSE 1)
      /\ CroppedSize = Size(CroppedSize.w, CroppedSize.h)
  BY <1>2 DEF CroppedSize, Cropped, Size
<1> HIDE DEF left, down
<1>5. left \div 1 = left /\ down \div 1 = down
  BY <1>3
<1>6. ASSUME NEW b \in Nat \ {0}, NEW c \in Nat \ {0} PROVE b \div c \in Nat
  BY <1>6
<1> QED
  BY <1>1, <1>2, <1>3, <1>4, <1>5, <1>6 DEF left, down

LEMMA RenderSourceIs ==
  ASSUME Configured, IsX11, Mappable, UsesRender, NEW x \in Nat, NEW y \in Nat,
         setup.crop.left + x * setup.hdec < screen.w, setup.crop.top + y * setup.hdec < screen.h
  PROVE  RenderSource(x, y) = <<setup.crop.left + x * setup.hdec, setup.crop.top + y * setup.hdec>>
<1> DEFINE d == setup.hdec
           W == screen.w
           H == screen.h
           sx == W \div d
           sy == H \div d
<1>1. /\ W \in Nat \ {0} /\ H \in Nat \ {0} /\ d \in Nat \ {0} /\ setup.vdec = d
      /\ setup.crop.left \in Nat /\ setup.crop.top \in Nat
      /\ setup.crop.left % d = 0 /\ setup.crop.top % d = 0
      /\ W % d = 0 /\ H % d = 0
  BY SetFacts DEF Mappable, Configured, IsCrop
<1>2. /\ ((setup.crop.left \div d + x) * W) \div sx = setup.crop.left + x * d
      /\ ((setup.crop.top \div d + y) * W) \div sx = setup.crop.top + y * d
      /\ sx \in Nat /\ sy \in Nat /\ d * sx = W /\ d * sy = H
  BY <1>1, RenderPlace
<1>3. sx * H <= sy * W
  <2>1. sx * (d * sy) = sy * (d * sx) /\ sx * (d * sy) \in Int
    BY <1>1, <1>2
  <2> QED
    BY <1>2, <2>1
<1>4. RenderSource(x, y) =
          IF setup.crop.left + x * d < W /\ setup.crop.top + y * d < H
            THEN <<setup.crop.left + x * d, setup.crop.top + y * d>> ELSE Blank
  BY <1>1, <1>2, <1>3 DEF RenderSource
<1> QED
  BY <1>4

LEMMA X11ResamplerIs ==
  ASSUME Configured, IsX11, Mappable
  PROVE  /\ IsResampler(X11Resampler) /\ X11Resampler.crop = NoCrop
         /\ X11Resampler.hdec = IF setup.render THEN 1 ELSE setup.hdec
         /\ X11Resampler.vdec = IF setup.render THEN 1 ELSE setup.hdec
BY SetFacts, PartIs, NoCropIs DEF X11Resampler, Resampler, IsResampler

(* The sizes the resampler of an X11 grabber shows the part in: without    *)
(* decimation one direction is always that of the part, with decimation    *)
(* none is.                                                                *)
LEMMA X11Sizes ==
  ASSUME Configured, IsX11, Mappable, NEW m \in Modes
  PROVE  LET part   == CroppedSize
             output == OutputSize(X11Resampler, part, m)
             d      == X11Resampler.hdec
         IN /\ output.w \in Int /\ output.h \in Int
            /\ output.w = Steps(IF m = "3DSBS" THEN part.w - (part.w \div 2) ELSE part.w, d)
            /\ output.h = Steps(IF m = "3DTAB" THEN part.h - (part.h \div 2) ELSE part.h, d)
            /\ d = 1 => output.w = part.w \/ output.h = part.h
            /\ d = 1 /\ m = "2D" => output = part
            /\ d # 1 /\ m = "2D" => output.w # part.w /\ output.h # part.h
            /\ d \in Nat \ {0} /\ (setup.render => d = 1)
<1> DEFINE part == CroppedSize
           r == X11Resampler
           d == r.hdec
           output == OutputSize(r, part, m)
<1>1. /\ part.w \in Nat /\ part.h \in Nat /\ part = Size(part.w, part.h)
      /\ ~UsesRender => part.w > 0 /\ part.h > 0
  BY PartIs
<1>2. /\ IsResampler(r) /\ r.crop = NoCrop /\ r.vdec = d /\ d \in Nat \ {0}
      /\ setup.render => d = 1
  BY X11ResamplerIs, SetFacts
<1> HIDE DEF part, r
<1>3. /\ output = Size(Steps(Across(r, part, m), d), Steps(Down(r, part, m), d))
      /\ output.w = Steps(Across(r, part, m), d)
      /\ output.h = Steps(Down(r, part, m), d)
      /\ output.w \in Int /\ output.h \in Int
  BY <1>1, <1>2, OutputIs
<1>4. part.w \div 2 \in Int /\ part.h \div 2 \in Int
  BY <1>1, Quotient
<1>5. /\ Across(r, part, m) = IF m = "3DSBS" THEN part.w - (part.w \div 2) ELSE part.w
      /\ Down(r, part, m) = IF m = "3DTAB" THEN part.h - (part.h \div 2) ELSE part.h
  BY <1>1, <1>2, <1>4, NoCropIs DEF Across, Down
<1> HIDE DEF d, output
<1>6. ASSUME d = 1
      PROVE  /\ output.w = part.w \/ output.h = part.h
             /\ m = "2D" => output = part
  <2>1. Steps(part.w, 1) = part.w /\ Steps(part.h, 1) = part.h
    BY <1>1, StepsOfOne
  <2> QED
    BY <1>1, <1>3, <1>5, <1>6, <2>1
<1>7. ASSUME d # 1, m = "2D" PROVE output.w # part.w /\ output.h # part.h
  <2>1. ~UsesRender
    BY <1>2, <1>7 DEF UsesRender
  <2>2. part.w > 0 /\ part.h > 0 /\ d > 1
    BY <1>1, <1>2, <1>7, <2>1
  <2>3. Steps(part.w, d) < part.w /\ Steps(part.h, d) < part.h
    BY <1>1, <1>2, <2>2, StepsBounds
  <2> QED
    BY <1>1, <1>3, <1>5, <1>7, <2>3
<1>8. /\ output.w = Steps(IF m = "3DSBS" THEN part.w - (part.w \div 2) ELSE part.w, d)
      /\ output.h = Steps(IF m = "3DTAB" THEN part.h - (part.h \div 2) ELSE part.h, d)
  BY <1>3, <1>5
<1> QED
  BY <1>2, <1>3, <1>6, <1>7, <1>8 DEF output, d, r, part

(* A pixel of an X11 image.                                                *)
LEMMA X11PixelIs ==
  ASSUME Configured, mode \in Modes, IsX11, Mappable,
         NEW at \in Positions(OutputSize(X11Resampler, CroppedSize, mode))
  PROVE  LET r      == X11Resampler
             output == OutputSize(r, CroppedSize, mode)
             pixel  == Sample("BGR32", r.crop.left + r.hdec \div 2 + at[1] * r.hdec,
                                       r.crop.top + r.vdec \div 2 + at[2] * r.vdec)
         IN /\ mode = "2D" => WholePixel(pixel, at, output)
            /\ mode # "2D" /\ Centred => EyePixel(pixel)
<1> DEFINE r == X11Resampler
           d == r.hdec
           part == CroppedSize
           output == OutputSize(r, part, mode)
           left == screen.w - setup.crop.left - setup.crop.right
           down == screen.h - setup.crop.top - setup.crop.bottom
           c == setup.crop
           X == r.crop.left + r.hdec \div 2 + at[1] * r.hdec
           Y == r.crop.top + r.vdec \div 2 + at[2] * r.vdec
           pixel == Sample("BGR32", X, Y)
           a == IF mode = "3DSBS" THEN part.w - (part.w \div 2) ELSE part.w
           b == IF mode = "3DTAB" THEN part.h - (part.h \div 2) ELSE part.h
           sbs == mode = "3DSBS"
           tab == mode = "3DTAB"
<1>1. /\ screen.w \in Nat \ {0} /\ screen.h \in Nat \ {0}
      /\ c.left \in Nat /\ c.right \in Nat /\ c.top \in Nat /\ c.bottom \in Nat
      /\ setup.hdec \in Nat \ {0}
  BY SetFacts DEF IsCrop
<1>2. /\ c.left + c.right < screen.w /\ c.top + c.bottom < screen.h
      /\ part.w = IF UsesRender THEN left \div setup.hdec ELSE left
      /\ part.h = IF UsesRender THEN down \div setup.hdec ELSE down
      /\ part.w \in Nat /\ part.h \in Nat
  BY PartIs
<1>3. /\ r.crop.left = 0 /\ r.crop.top = 0 /\ r.vdec = r.hdec
      /\ r.hdec = IF setup.render THEN 1 ELSE setup.hdec
  BY X11ResamplerIs, NoCropIs
<1>4. /\ output.w = Steps(a, d) /\ output.h = Steps(b, d)
      /\ output.w \in Int /\ output.h \in Int
  BY X11Sizes
<1>5. at[1] \in 0 .. output.w - 1 /\ at[2] \in 0 .. output.h - 1
  BY DEF Positions
<1>6. PartCrop = c /\ Picture = screen
  BY DEF PartCrop, Picture, IsX11, IsScaled
<1>7. pixel.luma = X11Source(X, Y) /\ pixel.chroma = X11Source(X, Y)
  BY SampleX11Is
<1> HIDE DEF r, part, output, pixel
<1> DEFINE Placed(x, y) ==
             /\ pixel.luma = <<x, y>> /\ pixel.chroma = <<x, y>>
             /\ ~sbs => InPlace(x, at[1], output.w, c.left, left)
             /\ ~tab => InPlace(y, at[2], output.h, c.top, down)
             /\ sbs /\ c.left = c.right => 2 * x < screen.w
             /\ tab /\ c.top = c.bottom => 2 * y < screen.h
<1>8. ASSUME ~UsesRender PROVE \E i \in Nat, j \in Nat : Placed(i, j)
  <2> DEFINE x == c.left + (0 + d \div 2 + at[1] * d)
             y == c.top + (0 + d \div 2 + at[2] * d)
  <2>1. d \in Nat \ {0} /\ X = 0 + d \div 2 + at[1] * d /\ Y = 0 + d \div 2 + at[2] * d
    BY <1>1, <1>3
  <2>2. X11Source(X, Y) = <<x, y>>
    BY <1>8, <2>1 DEF X11Source
  <2> HIDE DEF X, Y, d, left, down
  <2>3. at[1] \in 0 .. Steps(a, d) - 1 /\ at[2] \in 0 .. Steps(b, d) - 1
    BY <1>4, <1>5
  <2>4. /\ a = IF sbs THEN left - (left \div 2) ELSE left
        /\ b = IF tab THEN down - (down \div 2) ELSE down
    BY <1>2, <1>8
  <2>5. /\ left = screen.w - c.left - c.right /\ down = screen.h - c.top - c.bottom
    BY DEF left, down
  <2> HIDE DEF a, b, x, y
  <2>6. /\ x \in Nat
        /\ ~sbs => InPlace(x, at[1], Steps(a, d), c.left, left)
        /\ sbs /\ c.left = c.right => 2 * x < screen.w
    <3>1. /\ sbs \in BOOLEAN /\ d \in Nat \ {0}
          /\ screen.w \in Nat \ {0} /\ c.left \in Nat /\ c.right \in Nat
          /\ c.left + c.right < screen.w
      BY <1>1, <1>2, <2>1
    <3>2. /\ at[1] \in 0 .. Steps(a, d) - 1
          /\ a = IF sbs THEN left - (left \div 2) ELSE left
          /\ left = screen.w - c.left - c.right
      BY <2>3, <2>4, <2>5
    <3>3. x = c.left + (0 + d \div 2 + at[1] * d)
      BY DEF x
    <3> HIDE DEF sbs, c
    <3> QED
      BY <3>1, <3>2, <3>3, CroppedColumn
  <2>7. /\ y \in Nat
        /\ ~tab => InPlace(y, at[2], Steps(b, d), c.top, down)
        /\ tab /\ c.top = c.bottom => 2 * y < screen.h
    <3>1. /\ tab \in BOOLEAN /\ d \in Nat \ {0}
          /\ screen.h \in Nat \ {0} /\ c.top \in Nat /\ c.bottom \in Nat
          /\ c.top + c.bottom < screen.h
      BY <1>1, <1>2, <2>1
    <3>2. /\ at[2] \in 0 .. Steps(b, d) - 1
          /\ b = IF tab THEN down - (down \div 2) ELSE down
          /\ down = screen.h - c.top - c.bottom
      BY <2>3, <2>4, <2>5
    <3>3. y = c.top + (0 + d \div 2 + at[2] * d)
      BY DEF y
    <3> HIDE DEF tab, c
    <3> QED
      BY <3>1, <3>2, <3>3, CroppedColumn
  <2>8. Placed(x, y)
    BY <1>4, <1>7, <2>2, <2>6, <2>7
  <2> HIDE DEF Placed
  <2> QED
    BY <2>6, <2>7, <2>8
<1>9. ASSUME UsesRender PROVE \E i \in Nat, j \in Nat : Placed(i, j)
  <2> DEFINE e == setup.hdec
             x == c.left + at[1] * e
             y == c.top + at[2] * e
  <2>1. d = 1
    BY <1>3, <1>9 DEF UsesRender
  <2>2. at[1] \in 0 .. Steps(a, 1) - 1 /\ at[2] \in 0 .. Steps(b, 1) - 1
    BY <1>4, <1>5, <2>1
  <2>3. X = at[1] /\ Y = at[2] /\ at[1] \in Nat /\ at[2] \in Nat
    <3>1. 1 \div 2 = 0
      OBVIOUS
    <3> QED
      BY <1>3, <1>4, <1>5, <2>1, <3>1
  <2> HIDE DEF X, Y, d, left, down
  <2>4. part.w = left \div e /\ part.h = down \div e
    BY <1>2, <1>9
  <2>5. /\ left = screen.w - c.left - c.right /\ down = screen.h - c.top - c.bottom
    BY DEF left, down
  <2>6. /\ a = IF sbs THEN part.w - (part.w \div 2) ELSE part.w
        /\ b = IF tab THEN part.h - (part.h \div 2) ELSE part.h
    OBVIOUS
  <2> HIDE DEF a, b, x, y
  <2>7. /\ x \in Nat /\ x < screen.w
        /\ ~sbs => InPlace(x, at[1], Steps(a, 1), c.left, left)
        /\ sbs /\ c.left = c.right => 2 * x < screen.w
    <3> DEFINE shown == part.w
    <3>1. /\ sbs \in BOOLEAN /\ e \in Nat \ {0}
          /\ screen.w \in Nat \ {0} /\ c.left \in Nat /\ c.right \in Nat
          /\ c.left + c.right < screen.w
      BY <1>1, <1>2
    <3>2. /\ at[1] \in 0 .. Steps(a, 1) - 1
          /\ a = IF sbs THEN shown - (shown \div 2) ELSE shown
          /\ shown = left \div e /\ left = screen.w - c.left - c.right
      BY <2>2, <2>4, <2>5, <2>6
    <3>3. x = c.left + at[1] * e
      BY DEF x
    <3> HIDE DEF sbs, c, e, shown
    <3> QED
      BY <3>1, <3>2, <3>3, RenderedColumn
  <2>8. /\ y \in Nat /\ y < screen.h
        /\ ~tab => InPlace(y, at[2], Steps(b, 1), c.top, down)
        /\ tab /\ c.top = c.bottom => 2 * y < screen.h
    <3> DEFINE shown == part.h
    <3>1. /\ tab \in BOOLEAN /\ e \in Nat \ {0}
          /\ screen.h \in Nat \ {0} /\ c.top \in Nat /\ c.bottom \in Nat
          /\ c.top + c.bottom < screen.h
      BY <1>1, <1>2
    <3>2. /\ at[2] \in 0 .. Steps(b, 1) - 1
          /\ b = IF tab THEN shown - (shown \div 2) ELSE shown
          /\ shown = down \div e /\ down = screen.h - c.top - c.bottom
      BY <2>2, <2>4, <2>5, <2>6
    <3>3. y = c.top + at[2] * e
      BY DEF y
    <3> HIDE DEF tab, c, e, shown
    <3> QED
      BY <3>1, <3>2, <3>3, RenderedColumn
  <2>9. X11Source(X, Y) = <<x, y>>
    BY <1>9, <2>3, <2>7, <2>8, RenderSourceIs DEF X11Source, x, y
  <2>10. Placed(x, y)
    BY <1>4, <1>7, <2>1, <2>7, <2>8, <2>9
  <2> HIDE DEF Placed
  <2> QED
    BY <2>7, <2>8, <2>10
<1>10. PICK x \in Nat, y \in Nat : Placed(x, y)
  <2> HIDE DEF Placed
  <2> QED
    BY <1>8, <1>9
<1>11. mode = "2D" => WholePixel(pixel, at, output)
  BY <1>6, <1>10, x \in Int, WholePlace
<1>12. ASSUME mode # "2D", Centred PROVE EyePixel(pixel)
  <2>1. c.left = c.right /\ c.top = c.bottom
    BY <1>12 DEF Centred
  <2>2. (mode = "3DSBS" => 2 * x < Picture.w) /\ (mode # "3DSBS" => 2 * y < Picture.h)
    BY <1>6, <1>10, <1>12, <2>1 DEF Modes
  <2> QED
    BY <1>10, <2>2, EyePlace
<1> QED
  BY <1>11, <1>12 DEF pixel, output, part, r

(* The size an X11 image has when its part was last updated.               *)
FitsPart(img, part) ==
    /\ img.size = part \/ \E m \in Modes : img.size = OutputSize(X11Resampler, part, m)
    /\ X11Resampler.hdec = 1 => img.size = part

LEMMA X11GrabIs ==
  ASSUME Configured, mode \in Modes, IsX11, Mappable,
         NEW img, IsImage(img), IsOld(img), FitsPart(img, CroppedSize),
         NEW g, g.part = CroppedSize
  PROVE  LET result == X11Grab(g, img)
             output(m) == OutputSize(X11Resampler, CroppedSize, m)
         IN /\ IsImage(result) /\ FitsPart(result, CroppedSize)
            /\ mode = "2D" => /\ result.size = output("2D") =>
                                     WholeImage(result) /\ ~X11Overruns(g, img)
                              /\ \/ result.size = output("2D")
                                 \/ ~setup.render /\ \E m \in Modes : result.size = output(m)
            /\ mode # "2D" /\ Centred => EyeImage(result)
<1> DEFINE r == X11Resampler
           part == CroppedSize
           result == Resample(r, img, part, mode, "BGR32")
           output(m) == OutputSize(r, part, m)
           now == output(mode)
           X(n) == r.crop.left + r.hdec \div 2 + n * r.hdec
           Y(n) == r.crop.top + r.vdec \div 2 + n * r.vdec
           fit == Fitted(img, now)
<1>1. X11Grab(g, img) = result /\ X11Overruns(g, img) = ResampleOverruns(r, img, part, mode)
  BY DEF X11Grab, X11Overruns
<1>2. /\ IsResampler(r) /\ part.w \in Int /\ part.h \in Int
  BY X11ResamplerIs, PartIs
<1>3. /\ now.w \in Int /\ now.h \in Int
      /\ r.hdec = 1 => now.w = part.w \/ now.h = part.h
      /\ r.hdec = 1 /\ mode = "2D" => now = part
      /\ r.hdec # 1 /\ mode = "2D" => now.w # part.w /\ now.h # part.h
      /\ setup.render => r.hdec = 1
  BY X11Sizes
<1>4. \A at \in Positions(now) :
          /\ mode = "2D" => WholePixel(Sample("BGR32", X(at[1]), Y(at[2])), at, now)
          /\ mode # "2D" /\ Centred => EyePixel(Sample("BGR32", X(at[1]), Y(at[2])))
  BY X11PixelIs
<1>5. /\ IsImage(result) /\ result.size = fit.size
      /\ \A at \in Positions(result.size) :
             \/ At(result, at[1], at[2]) = Old
             \/ \E from \in Positions(now) :
                    At(result, at[1], at[2]) = Sample("BGR32", X(from[1]), Y(from[2]))
      /\ result.size.w = now.w /\ result.size.h = now.h =>
             /\ ~ResampleOverruns(r, img, part, mode)
             /\ \A at \in Positions(now) :
                    At(result, at[1], at[2]) = Sample("BGR32", X(at[1]), Y(at[2]))
  BY <1>2, ResampleIs
<1> HIDE DEF X, Y, now
<1>6. /\ fit.size \in {img.size, now}
      /\ (img.size.h = now.h \/ img.size.w = now.w) => fit = img
      /\ (img.size.h # now.h /\ img.size.w # now.w) => fit.size = now
  BY <1>3, FittedIs
<1>7. FitsPart(result, part)
  <2>1. r.hdec = 1 => result.size = part
    BY <1>3, <1>5, <1>6 DEF FitsPart
  <2>2. now = OutputSize(X11Resampler, part, mode)
    BY DEF now
  <2> HIDE DEF fit, result, part
  <2>3. result.size = img.size \/ result.size = now
    BY <1>5, <1>6
  <2> QED
    BY <2>1, <2>2, <2>3 DEF FitsPart, part
<1>8. ASSUME mode = "2D"
      PROVE  \/ result.size = output("2D")
             \/ ~setup.render /\ \E m \in Modes : result.size = output(m)
  <2>1. now = output("2D")
    BY <1>8 DEF now
  <2>2. CASE result.size = part
    <3>1. CASE r.hdec = 1
      BY <1>3, <1>8, <2>1, <2>2, <3>1
    <3>2. CASE r.hdec # 1
      <4>1. img.size # part
        BY <1>3, <1>5, <1>6, <1>8, <2>2, <3>2
      <4>2. now.w # part.w
        BY <1>3, <1>8, <3>2
      <4>3. result.size # now
        BY <2>2, <4>2
      <4>4. result.size = img.size
        BY <1>5, <1>6, <4>3
      <4> QED
        BY <2>2, <4>1, <4>4
    <3> QED
      BY <3>1, <3>2
  <2>3. CASE result.size # part
    <3>1. r.hdec # 1
      BY <1>7, <2>3 DEF FitsPart
    <3>2. ~setup.render
      BY <1>3, <3>1
    <3>3. \E m \in Modes : result.size = OutputSize(r, part, m)
      BY <1>7, <2>3 DEF FitsPart
    <3> QED
      BY <3>2, <3>3
  <2> QED
    BY <2>2, <2>3
<1>9. ASSUME mode = "2D", result.size = output("2D")
      PROVE  WholeImage(result) /\ ~ResampleOverruns(r, img, part, mode)
  <2>1. result.size = now
    BY <1>9 DEF now
  <2> HIDE DEF result
  <2> QED
    BY <1>4, <1>5, <1>9, <2>1 DEF WholeImage
<1>10. ASSUME mode # "2D", Centred PROVE EyeImage(result)
  <2>1. EyePixel(Old)
    BY DEF EyePixel, IsX11
  <2> HIDE DEF result
  <2> QED
    BY <1>4, <1>5, <1>10, <2>1 DEF EyeImage
<1> QED
  BY <1>1, <1>5, <1>7, <1>8, <1>9, <1>10

-----------------------------------------------------------------------------
(* The inductive invariant.                                                *)
PartOf(s) ==
    Size(Cropped(s.w, setup.crop.left, setup.crop.right, IF UsesRender THEN setup.hdec ELSE 1),
         Cropped(s.h, setup.crop.top, setup.crop.bottom, IF UsesRender THEN setup.vdec ELSE 1))

IsGrabber(g) == g = [known |-> g.known, part |-> g.part, xImage |-> g.xImage,
                     open |-> g.open, reads |-> g.reads]

X11Inv ==
    /\ IsGrabber(grabber)
    /\ grabber.known # NoScreen =>
           grabber.part = PartOf(grabber.known) /\ FitsPart(image, grabber.part)

ImageInv ==
    /\ setup.kind # "v4l2" => IsImage(image)
    /\ IsScaled => image.size = setup.size
    /\ IsX11 => X11Inv

GrabbersInv ==
    /\ Configured /\ mode \in Modes
    /\ Mappable => ImageInv
    /\ SnapshotIsWhole /\ OneEye

LEMMA PartOfScreen == CroppedSize = PartOf(screen)
BY DEF CroppedSize, PartOf

LEMMA NoScreenIs == ASSUME Configured PROVE screen # NoScreen
<1>1. NoScreen.w = 0 /\ screen.w # 0
  BY SetFacts DEF NoScreen, Size
<1> QED
  BY <1>1

LEMMA UpdatedIs ==
  ASSUME Configured, NEW g, IsGrabber(g), g.known # NoScreen => g.part = PartOf(g.known), NEW v
  PROVE  /\ IsGrabber(UpdateScreenDimensions(g))
         /\ UpdateScreenDimensions(g).known = screen
         /\ UpdateScreenDimensions(g).part = CroppedSize
         /\ IsGrabber([UpdateScreenDimensions(g) EXCEPT !.xImage = v])
         /\ [UpdateScreenDimensions(g) EXCEPT !.xImage = v].known = screen
         /\ [UpdateScreenDimensions(g) EXCEPT !.xImage = v].part = CroppedSize
<1> DEFINE u == UpdateScreenDimensions(g)
<1>1. IsGrabber(u) /\ u.known = screen /\ u.part = CroppedSize
  <2>1. CASE g.known = screen
    BY <2>1, NoScreenIs, PartOfScreen DEF UpdateScreenDimensions
  <2>2. CASE g.known # screen
    BY <2>2 DEF UpdateScreenDimensions, IsGrabber
  <2> QED
    BY <2>1, <2>2
<1> HIDE DEF u
<1>2. /\ IsGrabber([u EXCEPT !.xImage = v])
      /\ [u EXCEPT !.xImage = v].known = u.known
      /\ [u EXCEPT !.xImage = v].part = u.part
  BY <1>1 DEF IsGrabber
<1> QED
  BY <1>1, <1>2 DEF u

LEMMA InitInv == Init => GrabbersInv
<1> SUFFICES ASSUME Init PROVE GrabbersInv
  OBVIOUS
<1>1. Configured /\ mode = "2D" /\ mode \in Modes /\ fresh = FALSE
  BY DEF Init, Configured, Modes
<1>2. SnapshotIsWhole /\ OneEye
  BY <1>1 DEF SnapshotIsWhole, OneEye
<1>3. Size(0, 0).w \in Int /\ Size(0, 0).h \in Int
  BY DEF Size
<1>4. /\ setup.kind \in Kinds /\ setup.size.w \in Int /\ setup.size.h \in Int
  BY <1>1, SetFacts
<1>5. IsGrabber(NewGrabber) /\ NewGrabber.known = NoScreen
  BY DEF NewGrabber, IsGrabber
<1>6. ASSUME Mappable, setup.kind = "x11" PROVE ImageInv
  <2>1. IsX11 /\ ~IsScaled /\ image = NewImage(grabber.part)
    BY <1>6 DEF IsX11, IsScaled, Init
  <2>2. grabber = UpdateScreenDimensions(NewGrabber)
    BY <1>6 DEF Init
  <2>3. IsGrabber(grabber) /\ grabber.known = screen /\ grabber.part = CroppedSize
    BY <1>1, <1>5, <2>2, UpdatedIs
  <2>4. CroppedSize.w \in Int /\ CroppedSize.h \in Int
    BY <1>1, <1>6, <2>1, PartIs
  <2>5. IsImage(image) /\ image.size = grabber.part
    BY <2>1, <2>3, <2>4, NewImageIs
  <2> QED
    BY <2>1, <2>3, <2>5, PartOfScreen DEF ImageInv, X11Inv, FitsPart
<1>7. ASSUME setup.kind = "x11tool" PROVE ImageInv
  <2>1. IsX11 /\ ~IsScaled /\ image = NewImage(Size(0, 0)) /\ grabber = NewGrabber
    BY <1>7 DEF IsX11, IsScaled, Init
  <2>2. IsImage(image)
    BY <1>3, <2>1, NewImageIs
  <2> QED
    BY <1>5, <2>1, <2>2 DEF ImageInv, X11Inv
<1>8. ASSUME setup.kind \notin {"x11", "x11tool"} PROVE ImageInv
  <2>1. ~IsX11 /\ image = NewImage(setup.size)
    BY <1>8 DEF IsX11, Init
  <2> QED
    BY <1>4, <2>1, NewImageIs DEF ImageInv
<1> QED
  BY <1>1, <1>2, <1>6, <1>7, <1>8 DEF GrabbersInv

(* A step that shows an image, or an image that is not fresh.              *)
LEMMA ShownIs ==
  ASSUME setup' = setup, screen' = screen, mode' = mode,
         fresh' /\ mode = "2D" /\ Mappable /\ ~KeptFrom3D' =>
             fault' # "overrun" /\ WholeImage(image'),
         fresh' /\ mode # "2D" /\ Mappable /\ Centred /\ setup.kind # "amlogic" =>
             EyeImage(image')
  PROVE  SnapshotIsWhole' /\ OneEye'
<1>1. /\ Mappable' <=> Mappable
      /\ Centred' <=> Centred
      /\ Picture' = Picture /\ PartCrop' = PartCrop
  BY DEF Mappable, Centred, Picture, PartCrop, IsX11, IsScaled, UsesRender, AmlogicSize,
         DispmanxCrop
<1>2. WholeImage(image') /\ fault' # "overrun" => Whole'
  BY <1>1 DEF Whole, WholeImage, WholePixel, Shown, ShownAt
<1>3. SnapshotIsWhole'
  BY <1>1, <1>2 DEF SnapshotIsWhole
<1>4. OneEye'
  BY <1>1 DEF OneEye, EyeImage, EyePixel, Shown, ShownAt
<1> QED
  BY <1>3, <1>4

LEMMA NotFresh ==
  ASSUME ~fresh' PROVE SnapshotIsWhole' /\ OneEye'
BY DEF SnapshotIsWhole, OneEye

(* What is assumed of the setup stays so.                                  *)
LEMMA SameSetup ==
  ASSUME setup' = setup
  PROVE  /\ Mappable' <=> Mappable
         /\ IsX11' <=> IsX11
         /\ IsScaled' <=> IsScaled
         /\ X11Resampler' = X11Resampler
         /\ \A s : PartOf(s)' = PartOf(s)
         /\ \A img, part : FitsPart(img, part)' <=> FitsPart(img, part)
BY DEF Mappable, IsX11, IsScaled, UsesRender, X11Resampler, PartOf, FitsPart

LEMMA WorldChanges ==
  ASSUME GrabbersInv, \/ \E size \in setup.screens : ScreenResized(size)
                      \/ \E m \in Modes : SetVideoMode(m)
  PROVE  GrabbersInv'
<1>1. /\ setup' = setup /\ screen' \in setup.screens /\ mode' \in Modes
      /\ grabber' = grabber /\ image' = image /\ ~fresh'
  BY DEF ScreenResized, SetVideoMode, GrabbersInv, Configured
<1>2. Configured' /\ mode' \in Modes
  BY <1>1 DEF GrabbersInv, Configured
<1>3. (Mappable => ImageInv)'
  BY <1>1, SameSetup DEF GrabbersInv, ImageInv, X11Inv
<1> QED
  BY <1>1, <1>2, <1>3, NotFresh DEF GrabbersInv

LEMMA X11ActionKeeps ==
  ASSUME GrabbersInv, NEW fails \in BOOLEAN, X11Action(fails)
  PROVE  GrabbersInv'
<1> DEFINE updated == UpdateScreenDimensions(grabber)
           sized == X11Sized(grabber, Forget(image))
<1>1. /\ setup' = setup /\ screen' = screen /\ mode' = mode
      /\ IsX11 /\ ~IsScaled /\ setup.kind # "v4l2"
      /\ \E v : grabber' = [updated EXCEPT !.xImage = v]
      /\ image' = IF fails THEN sized ELSE X11Grab(updated, sized)
      /\ fresh' => ~fails
      /\ fault' = "overrun" => X11Overruns(updated, sized)
  BY DEF X11Action, IsX11, IsScaled
<1>2. Configured /\ Configured' /\ mode \in Modes /\ mode' \in Modes
  BY <1>1 DEF GrabbersInv, Configured
<1>3. ASSUME Mappable
      PROVE  /\ ImageInv'
             /\ fresh' /\ mode = "2D" /\ ~KeptFrom3D' => fault' # "overrun" /\ WholeImage(image')
             /\ fresh' /\ mode # "2D" /\ Centred => EyeImage(image')
  <2>1. IsImage(image) /\ X11Inv
    BY <1>1, <1>3 DEF GrabbersInv, ImageInv
  <2>2. /\ IsGrabber(grabber')
        /\ grabber'.known = screen /\ grabber'.part = CroppedSize
        /\ updated.part = CroppedSize
    BY <1>1, <1>2, <2>1, UpdatedIs DEF X11Inv
  <2>3. CroppedSize.w \in Int /\ CroppedSize.h \in Int
    BY <1>1, <1>2, <1>3, PartIs
  <2>4. IsImage(sized) /\ IsOld(sized) /\ FitsPart(sized, CroppedSize)
    <3>1. IsImage(Forget(image)) /\ IsOld(Forget(image)) /\ Forget(image).size = image.size
      BY <2>1, ForgetIs
    <3>2. CASE grabber.known = screen
      <4>1. FitsPart(image, CroppedSize)
        BY <1>2, <2>1, <3>2, NoScreenIs, PartOfScreen DEF X11Inv
      <4> QED
        BY <3>1, <3>2, <4>1 DEF X11Sized, FitsPart
    <3>3. CASE grabber.known # screen
      <4>1. sized = Resize(Forget(image), CroppedSize)
        BY <3>3 DEF X11Sized
      <4> QED
        BY <2>3, <3>1, <4>1, ResizeIs DEF FitsPart
    <3> QED
      BY <3>2, <3>3
  <2> DEFINE shown == X11Grab(updated, sized)
             output(m) == OutputSize(X11Resampler, CroppedSize, m)
  <2> HIDE DEF sized, updated
  <2>5. /\ IsImage(shown) /\ FitsPart(shown, CroppedSize)
        /\ mode = "2D" => /\ shown.size = output("2D") =>
                                 WholeImage(shown) /\ ~X11Overruns(updated, sized)
                          /\ \/ shown.size = output("2D")
                             \/ ~setup.render /\ \E m \in Modes : shown.size = output(m)
        /\ mode # "2D" /\ Centred => EyeImage(shown)
    BY <1>1, <1>2, <1>3, <2>2, <2>4, X11GrabIs
  <2> HIDE DEF shown
  <2>6. image' = (IF fails THEN sized ELSE shown)
    BY <1>1 DEF shown
  <2>7. IsImage(image') /\ FitsPart(image', CroppedSize)
    BY <2>4, <2>5, <2>6
  <2>8. ImageInv'
    <3>1. grabber'.part = PartOf(grabber'.known) /\ FitsPart(image', grabber'.part)
      BY <2>2, <2>7, PartOfScreen
    <3>2. PartOf(grabber.known)' = PartOf(grabber'.known)
      BY <1>1 DEF PartOf, UsesRender
    <3>3. FitsPart(image, grabber.part)'
      BY <1>1, <3>1, SameSetup DEF FitsPart
    <3>4. X11Inv'
      BY <2>2, <3>1, <3>2, <3>3 DEF X11Inv
    <3> QED
      BY <1>1, <2>7, <3>4, SameSetup DEF ImageInv
  <2>9. ASSUME fresh', mode = "2D", ~KeptFrom3D' PROVE fault' # "overrun" /\ WholeImage(image')
    <3>1. image' = shown
      BY <1>1, <2>6, <2>9
    <3>2. ~(~setup.render /\ shown.size # output("2D") /\ \E m \in Modes : shown.size = output(m))
      BY <1>1, <2>2, <2>9, <3>1, SameSetup DEF KeptFrom3D
    <3>3. shown.size = output("2D")
      BY <2>5, <2>9, <3>2
    <3> QED
      BY <1>1, <2>5, <2>9, <3>1, <3>3
  <2>10. ASSUME fresh', mode # "2D", Centred PROVE EyeImage(image')
    BY <1>1, <2>5, <2>6, <2>10
  <2> QED
    BY <2>8, <2>9, <2>10
<1>4. SnapshotIsWhole' /\ OneEye'
  BY <1>1, <1>3, ShownIs
<1> QED
  BY <1>1, <1>2, <1>3, <1>4, SameSetup DEF GrabbersInv

LEMMA ScaledActionKeeps ==
  ASSUME GrabbersInv, fault = "none", NEW fails \in BOOLEAN, ScaledAction(fails)
  PROVE  GrabbersInv'
<1> DEFINE old == Forget(image)
<1>1. /\ setup' = setup /\ screen' = screen /\ mode' = mode /\ grabber' = grabber
      /\ IsScaled /\ ~IsX11 /\ setup.kind # "v4l2"
      /\ image' = IF fails THEN old ELSE ScaledGrab(old)
      /\ fresh' => ~fails
      /\ fault' = "overrun" => ScaledOverruns(image)
  BY DEF ScaledAction, IsX11, IsScaled
<1>2. Configured /\ Configured' /\ mode \in Modes /\ mode' \in Modes
  BY <1>1 DEF GrabbersInv, Configured
<1>3. ASSUME Mappable
      PROVE  /\ ImageInv'
             /\ fresh' /\ mode = "2D" => fault' # "overrun" /\ WholeImage(image')
             /\ fresh' /\ mode # "2D" => EyeImage(image')
  <2>1. IsImage(image) /\ image.size = setup.size
    BY <1>1, <1>3 DEF GrabbersInv, ImageInv
  <2>2. IsImage(old) /\ IsOld(old) /\ old.size = setup.size
    BY <2>1, ForgetIs
  <2>3. /\ IsImage(ScaledGrab(old)) /\ ScaledGrab(old).size = setup.size
        /\ mode = "2D" => WholeImage(ScaledGrab(old))
        /\ mode # "2D" => EyeImage(ScaledGrab(old))
    BY <1>1, <1>2, <1>3, <2>2, ScaledGrabIs
  <2>4. mode = "2D" => ~ScaledOverruns(image)
    BY <1>1, <1>2, <1>3, <2>1, ScaledFits
  <2> QED
    BY <1>1, <2>2, <2>3, <2>4, SameSetup DEF ImageInv
<1>4. SnapshotIsWhole' /\ OneEye'
  BY <1>1, <1>3, ShownIs
<1> QED
  BY <1>1, <1>2, <1>3, <1>4, SameSetup DEF GrabbersInv

LEMMA V4L2ActionKeeps ==
  ASSUME GrabbersInv, fault = "none", V4L2Action
  PROVE  GrabbersInv'
<1>1. /\ setup' = setup /\ screen' = screen /\ mode' = mode /\ grabber' = grabber
      /\ setup.kind = "v4l2" /\ ~IsX11 /\ ~IsScaled
      /\ image' = V4L2Grab /\ fault' = "none"
  BY DEF V4L2Action, IsX11, IsScaled
<1>2. Configured /\ Configured' /\ mode \in Modes /\ mode' \in Modes
  BY <1>1 DEF GrabbersInv, Configured
<1>3. ImageInv'
  BY <1>1, SameSetup DEF ImageInv
<1>4. SnapshotIsWhole' /\ OneEye'
  BY <1>1, <1>2, V4L2Whole, V4L2Eye, ShownIs
<1> QED
  BY <1>2, <1>3, <1>4 DEF GrabbersInv

LEMMA DispmanxActionKeeps ==
  ASSUME GrabbersInv, fault = "none", NEW fails \in BOOLEAN, DispmanxAction(fails)
  PROVE  GrabbersInv'
<1> DEFINE old == Forget(image)
<1>1. /\ setup' = setup /\ screen' = screen /\ mode' = mode /\ grabber' = grabber
      /\ setup.kind = "dispmanx" /\ ~IsX11 /\ ~IsScaled
      /\ image' = IF fails THEN DispmanxFit(old) ELSE DispmanxGrab(old)
      /\ fresh' => ~fails
      /\ fault' = "none"
  BY DEF DispmanxAction, IsX11, IsScaled
<1>2. Configured /\ Configured' /\ mode \in Modes /\ mode' \in Modes
  BY <1>1 DEF GrabbersInv, Configured
<1>3. ASSUME Mappable
      PROVE  /\ ImageInv'
             /\ fresh' /\ mode = "2D" => WholeImage(image')
             /\ fresh' /\ mode # "2D" => EyeImage(image')
  <2>1. IsImage(image)
    BY <1>1, <1>3 DEF GrabbersInv, ImageInv
  <2>2. IsImage(old) /\ IsOld(old)
    BY <2>1, ForgetIs
  <2>3. /\ IsImage(DispmanxFit(old)) /\ IsImage(DispmanxGrab(old))
        /\ mode = "2D" => WholeImage(DispmanxGrab(old))
        /\ mode # "2D" => EyeImage(DispmanxGrab(old))
    BY <1>1, <1>2, <2>2, DispmanxGrabIs
  <2> QED
    BY <1>1, <2>3, SameSetup DEF ImageInv
<1>4. SnapshotIsWhole' /\ OneEye'
  BY <1>1, <1>3, ShownIs
<1> QED
  BY <1>1, <1>2, <1>3, <1>4, SameSetup DEF GrabbersInv

LEMMA AmlogicKeeps ==
  ASSUME GrabbersInv, fault = "none",
         AmlogicAction \/ \E error \in AmlogicErrors : AmlogicFails(error)
  PROVE  GrabbersInv'
<1> DEFINE old == Forget(image)
<1>1. /\ setup' = setup /\ screen' = screen /\ mode' = mode
      /\ setup.kind = "amlogic" /\ ~IsX11 /\ ~IsScaled
      /\ image' = AmlogicGrab(old) \/ (image' = AmlogicFit(old) /\ ~fresh')
      /\ fault' = "none"
  <2>1. ASSUME AmlogicAction
        PROVE  /\ setup' = setup /\ screen' = screen /\ mode' = mode
               /\ setup.kind = "amlogic" /\ ~IsX11 /\ ~IsScaled
               /\ image' = AmlogicGrab(old)
               /\ fault' = "none"
    BY <2>1 DEF AmlogicAction, IsX11, IsScaled
  <2>2. ASSUME NEW error \in AmlogicErrors, AmlogicFails(error)
        PROVE  /\ setup' = setup /\ screen' = screen /\ mode' = mode
               /\ setup.kind = "amlogic" /\ ~IsX11 /\ ~IsScaled
               /\ image' = AmlogicFit(old) /\ ~fresh'
               /\ fault' = "none"
    BY <2>2 DEF AmlogicFails, IsX11, IsScaled
  <2> QED
    BY <2>1, <2>2
<1>2. Configured /\ Configured' /\ mode \in Modes /\ mode' \in Modes
  BY <1>1 DEF GrabbersInv, Configured
<1>3. ASSUME Mappable
      PROVE  ImageInv' /\ (fresh' => WholeImage(image'))
  <2>1. IsImage(image)
    BY <1>1, <1>3 DEF GrabbersInv, ImageInv
  <2>2. IsImage(old) /\ IsOld(old)
    BY <2>1, ForgetIs
  <2>3. /\ IsImage(AmlogicFit(old)) /\ IsImage(AmlogicGrab(old))
        /\ WholeImage(AmlogicGrab(old))
    BY <1>1, <1>2, <2>2, AmlogicGrabIs
  <2> QED
    BY <1>1, <2>3, SameSetup DEF ImageInv
<1>4. SnapshotIsWhole' /\ OneEye'
  BY <1>1, <1>3, ShownIs
<1> QED
  BY <1>1, <1>2, <1>3, <1>4, SameSetup DEF GrabbersInv

LEMMA NextInv == GrabbersInv /\ [Next]_vars => GrabbersInv'
<1> SUFFICES ASSUME GrabbersInv, [Next]_vars PROVE GrabbersInv'
  OBVIOUS
<1>1. CASE Next
  BY <1>1, WorldChanges, X11ActionKeeps, ScaledActionKeeps, V4L2ActionKeeps,
     DispmanxActionKeeps, AmlogicKeeps DEF Next
<1>2. CASE UNCHANGED vars
  <2>1. /\ setup' = setup /\ screen' = screen /\ mode' = mode /\ grabber' = grabber
        /\ image' = image /\ fresh' = fresh /\ fault' = fault
    BY <1>2 DEF vars
  <2>2. (Configured /\ mode \in Modes)' /\ (Mappable => ImageInv)'
    BY <2>1, SameSetup DEF GrabbersInv, Configured, ImageInv, X11Inv
  <2>3. KeptFrom3D' <=> KeptFrom3D
    BY <2>1, SameSetup DEF KeptFrom3D
  <2>4. Picture' = Picture /\ PartCrop' = PartCrop /\ (Centred' <=> Centred)
    BY <2>1 DEF Picture, PartCrop, Centred, IsX11, IsScaled, AmlogicSize, DispmanxCrop
  <2>5. Whole' <=> Whole
    BY <2>1, <2>4 DEF Whole, ShownAt, Shown
  <2>6. SnapshotIsWhole'
    BY <2>1, <2>3, <2>5, SameSetup DEF GrabbersInv, SnapshotIsWhole
  <2>7. OneEye'
    BY <2>1, <2>4, SameSetup DEF GrabbersInv, OneEye, ShownAt, Shown
  <2> QED
    BY <2>2, <2>6, <2>7 DEF GrabbersInv
<1> QED
  BY <1>1, <1>2

(* Through every grab, mode and size of the screen, the buffer that a      *)
(* grabber keeps from one frame to the next has a size its next frame is   *)
(* written in: the configured one, or with X11 one that the resampler      *)
(* makes of the part of the screen in some mode.                           *)
THEOREM GrabbersInvariant == Spec => []GrabbersInv
BY InitInv, NextInv, PTL DEF Spec

(* In 2D grabFrame (V4L2: process_image) shows the whole of the screen     *)
(* that the crop leaves, each pixel from its place and none from an older  *)
(* frame, but for X11's image that kept its size from a 3D mode.           *)
THEOREM SnapshotIsWholeCorrect == Spec => []SnapshotIsWhole
<1>1. GrabbersInv => SnapshotIsWhole
  BY DEF GrabbersInv
<1> QED
  BY <1>1, GrabbersInvariant, PTL

(* In a 3D mode no pixel that a grab writes comes from the half of the     *)
(* screen for the other eye: the grabbers and processImage, which halve    *)
(* sizes in the modes that setVideoMode sets, keep to one half.            *)
THEOREM OneEyeCorrect == Spec => []OneEye
<1>1. GrabbersInv => OneEye
  BY DEF GrabbersInv
<1> QED
  BY <1>1, GrabbersInvariant, PTL

-----------------------------------------------------------------------------
(* The Kodi checker (KODIVideoChecker) tells the grabbers when to grab and *)
(* in which mode.  It follows Kodi in every configuration, with whatever   *)
(* Kodi plays in whatever video mode, however long requests, replies and   *)
(* notifications are on their way and however often the connection is      *)
(* lost and the component switched.                                        *)
CONSTANTS GrabConfigurations, StereoModes, MaxEvents

VARIABLES checker, toKodi, toChecker, kodi, dropped, count

Kodi == INSTANCE KODIVideoChecker

(* The types of the variables.                                             *)
Stereos   == StereoModes \cup {"2D"}
Versions  == {12, 17}
Shows     == Kodi!Media \cup {"none"}
Requests  == {"players", "item", "screensaver", "stereo", "version", "speed"}
Grabbings == Kodi!Media \cup {"INVALID", "OFF", "MENU", "PAUSE", "SCREENSAVER"}
Methods   == {"OnPlay", "OnPause", "OnStop", "OnAdd", "OnInputFinished",
              "ScreensaverActivated", "ScreensaverDeactivated"}

Messages ==
    [id : {"players", "item"}, media : Shows, stereo : Stereos]
        \cup [id : {"screensaver"}, on : BOOLEAN]
        \cup [id : {"stereo"}, stereo : Stereos]
        \cup [id : {"version"}, version : Versions]
        \cup [id : {"speed"}, media : Shows, playing : BOOLEAN]
        \cup [id : {"notification"}, method : Methods]

Checkers ==
    [active : BOOLEAN, socket : {"unconnected", "connecting", "connected", "closing"},
     grabs : GrabConfigurations, previousGrabbing : Grabbings, previousVideo : Stereos,
     playing : BOOLEAN, player : 0 .. 2, version : Versions \cup {0}, initialized : BOOLEAN,
     timers : Nat, out : Seq(Requests), grabbed : Grabbings, shown : Stereos]

Kodis ==
    {k \in [up : BOOLEAN, media : Shows, playing : BOOLEAN, stereo : Stereos,
            saver : BOOLEAN, version : Versions] : k.playing => k.media # "none"}

TypeOK ==
    /\ checker \in Checkers
    /\ checker.out = <<>>
    /\ toKodi \in Seq(Requests)
    /\ toChecker \in Seq(Messages)
    /\ kodi \in Kodis
    /\ dropped \in BOOLEAN
    /\ count \in Nat

-----------------------------------------------------------------------------
(* Nothing is on its way without a connection, and Kodi runs while there   *)
(* is one.  The mode that was set last is the one that was emitted last,   *)
(* unless the connection was lost since.                                   *)
Emitted(c) == c.previousGrabbing \in {"INVALID", c.grabbed}

Connection ==
    /\ ~Kodi!Connected => toKodi = <<>> /\ toChecker = <<>>
    /\ Kodi!Connected => kodi.up
    /\ Emitted(checker)

(* From here on c and k are the checker and Kodi, p the requests on their  *)
(* way to Kodi and q the messages on their way to the checker.  Behind the *)
(* i-th message of q is a notification of this method.                     *)
Is(m, method) == m.id = "notification" /\ m.method = method

Behind(q, i, method) == \E j \in 1 .. Len(q) : i < j /\ Is(q[j], method)

(* What the i-th message tells is still so, or a notification of what has  *)
(* changed since is behind it.                                             *)
Changed(k, q, i) == Behind(q, i, "OnPlay") \/ (k.media = "none" /\ Behind(q, i, "OnStop"))

StillSo(k, q, i) ==
    /\ q[i].id \in {"players", "item", "speed"} => q[i].media = k.media \/ Changed(k, q, i)
    /\ q[i].id = "speed" /\ q[i].media # "none" =>
           q[i].playing = k.playing \/ Changed(k, q, i) \/ Behind(q, i, "OnPause")
    /\ Is(q[i], "OnPlay") => k.media = "none" \/ k.playing \/ Behind(q, i, "OnPlay")
                                 \/ Behind(q, i, "OnPause")
    /\ Is(q[i], "OnPause") => (k.media # "none" /\ ~k.playing) \/ Changed(k, q, i)
    /\ Is(q[i], "OnStop") => k.media = "none" \/ Behind(q, i, "OnPlay")
    /\ Is(q[i], "OnAdd") => Behind(q, i, "OnPlay")
    /\ (q[i].id = "screensaver" /\ q[i].on) \/ Is(q[i], "ScreensaverActivated") =>
           k.saver \/ Behind(q, i, "ScreensaverDeactivated")

AllStillSo(k, q) == \A i \in 1 .. Len(q) : StillSo(k, q, i)

(* The checker will ask once more what is played, and so it is answered as *)
(* it is now.                                                              *)
Asks(m) ==
    \/ m.id = "screensaver" /\ ~m.on
    \/ Is(m, "OnPlay") \/ Is(m, "ScreensaverDeactivated") \/ Is(m, "OnInputFinished")

Has(p, request) == \E i \in 1 .. Len(p) : p[i] = request

WillAsk(k, p, q) ==
    (\E i \in 1 .. Len(q) : Asks(q[i])) \/ (Has(p, "screensaver") /\ ~k.saver)

WillBeTold(k, p, q) == WillAsk(k, p, q) \/ Has(p, "players")

(* The mode is right or about to be set.                                   *)
Decides(m) == m.id = "players" \/ Is(m, "OnPause") \/ Is(m, "OnStop")

Right(k) == IF k.media = "none" THEN "MENU" ELSE IF k.playing THEN k.media ELSE "PAUSE"

ModeFollows(c, k, p, q) ==
    ~k.saver =>
        \/ WillBeTold(k, p, q)
        \/ \E i \in 1 .. Len(q) : Decides(q[i])
        \/ c.initialized => c.grabbed = Kodi!Wanted(c, Right(k))

(* The speed is asked for, and what is played is told after that.          *)
SpeedRequested(k, p, q) ==
    \E i \in 1 .. Len(p) :
        /\ p[i] = "speed"
        /\ k.saver \/ WillAsk(k, p, q) \/ \E j \in 1 .. Len(p) : i < j /\ p[j] = "players"

SpeedReplied(k, p, q) ==
    \E i \in 1 .. Len(q) :
        /\ q[i].id = "speed"
        /\ k.saver \/ WillBeTold(k, p, q) \/ \E j \in 1 .. Len(q) : i < j /\ q[j].id = "players"

PlayingFollows(c, k, p, q) ==
    c.initialized /\ k.media # "none" =>
        \/ c.playing = k.playing
        \/ Behind(q, 0, "OnPlay") \/ Behind(q, 0, "OnPause")
        \/ SpeedRequested(k, p, q) \/ SpeedReplied(k, p, q)

(* A player that has been playing since before the connection was made is  *)
(* noticed by the first reply, which comes before that to "screensaver".   *)
FirstRequested(p) ==
    \E i \in 1 .. Len(p), j \in 1 .. Len(p) : i < j /\ p[i] = "players" /\ p[j] = "screensaver"

FirstReplied(p, q) ==
    \E i \in 1 .. Len(q) :
        /\ q[i].id = "players"
        /\ Has(p, "screensaver") \/ \E j \in 1 .. Len(q) : i < j /\ q[j].id = "screensaver"

PlayerNoticed(c, k, p, q) ==
    ~c.initialized /\ c.player = 0 /\ k.media \in {"VIDEO", "PHOTO"} =>
        Behind(q, 0, "OnPlay") \/ FirstRequested(p) \/ FirstReplied(p, q)

Follows(c, k, p, q) ==
    /\ AllStillSo(k, q)
    /\ ModeFollows(c, k, p, q)
    /\ PlayingFollows(c, k, p, q)
    /\ PlayerNoticed(c, k, p, q)

IInv ==
    /\ TypeOK
    /\ Connection
    /\ Kodi!Connected /\ ~dropped => Follows(checker, kodi, toKodi, toChecker)

-----------------------------------------------------------------------------
(* Queues.                                                                 *)
LEMMA TailIs ==
  ASSUME NEW S, NEW q \in Seq(S), q # <<>>
  PROVE  /\ Tail(q) \in Seq(S) /\ Len(q) \in Nat \ {0} /\ Len(Tail(q)) = Len(q) - 1
         /\ Head(q) = q[1] /\ Head(q) \in S
         /\ \A i \in 1 .. Len(q) - 1 : Tail(q)[i] = q[i + 1]
BY HeadTailProperties, EmptySeq

LEMMA ConcatIs ==
  ASSUME NEW S, NEW q \in Seq(S), NEW r \in Seq(S)
  PROVE  /\ q \o r \in Seq(S) /\ Len(q) \in Nat /\ Len(r) \in Nat
         /\ Len(q \o r) = Len(q) + Len(r)
         /\ \A i \in 1 .. Len(q) : (q \o r)[i] = q[i]
         /\ \A i \in 1 .. Len(r) : (q \o r)[Len(q) + i] = r[i]
<1>1. /\ q \o r \in Seq(S) /\ Len(q) \in Nat /\ Len(r) \in Nat
      /\ Len(q \o r) = Len(q) + Len(r)
      /\ \A i \in 1 .. Len(q) + Len(r) :
             (q \o r)[i] = IF i <= Len(q) THEN q[i] ELSE r[i - Len(q)]
  BY ConcatProperties
<1>2. QED
  BY <1>1

LEMMA AppendIs ==
  ASSUME NEW S, NEW q \in Seq(S), NEW m \in S
  PROVE  /\ Append(q, m) \in Seq(S) /\ Len(q) \in Nat /\ Len(Append(q, m)) = Len(q) + 1
         /\ \A i \in 1 .. Len(q) : Append(q, m)[i] = q[i]
         /\ Append(q, m)[Len(q) + 1] = m
BY AppendProperties

LEMMA HasGrown ==
  ASSUME NEW S, NEW p \in Seq(S), NEW r \in Seq(S), NEW request
  PROVE  Has(p \o r, request) <=> Has(p, request) \/ Has(r, request)
<1>1. /\ Len(p) \in Nat /\ Len(r) \in Nat /\ Len(p \o r) = Len(p) + Len(r)
      /\ \A i \in 1 .. Len(p) : (p \o r)[i] = p[i]
      /\ \A i \in 1 .. Len(r) : (p \o r)[Len(p) + i] = r[i]
  BY ConcatIs
<1>2. ASSUME Has(p \o r, request) PROVE Has(p, request) \/ Has(r, request)
  <2>1. PICK i \in 1 .. Len(p) + Len(r) : (p \o r)[i] = request
    BY <1>1, <1>2 DEF Has
  <2>2. CASE i <= Len(p)
    BY <1>1, <2>1, <2>2 DEF Has
  <2>3. CASE i > Len(p)
    <3>1. i - Len(p) \in 1 .. Len(r) /\ i = Len(p) + (i - Len(p))
      BY <1>1, <2>1, <2>3
    <3>2. QED
      BY <1>1, <2>1, <3>1 DEF Has
  <2>4. QED
    BY <1>1, <2>1, <2>2, <2>3
<1>3. ASSUME Has(p, request) PROVE Has(p \o r, request)
  BY <1>1, <1>3 DEF Has
<1>4. ASSUME Has(r, request) PROVE Has(p \o r, request)
  <2>1. PICK i \in 1 .. Len(r) : r[i] = request
    BY <1>4 DEF Has
  <2>2. Len(p) + i \in 1 .. Len(p) + Len(r) /\ (p \o r)[Len(p) + i] = request
    BY <1>1, <2>1
  <2>3. QED
    BY <1>1, <2>2 DEF Has
<1>5. QED
  BY <1>2, <1>3, <1>4

LEMMA BehindTail ==
  ASSUME NEW q \in Seq(Messages), q # <<>>, NEW i \in Nat, NEW method
  PROVE  Behind(Tail(q), i, method) <=> Behind(q, i + 1, method)
<1>1. /\ Len(q) \in Nat \ {0} /\ Len(Tail(q)) = Len(q) - 1
      /\ \A j \in 1 .. Len(q) - 1 : Tail(q)[j] = q[j + 1]
  BY TailIs
<1>2. ASSUME Behind(Tail(q), i, method) PROVE Behind(q, i + 1, method)
  <2>1. PICK j \in 1 .. Len(q) - 1 : i < j /\ Is(Tail(q)[j], method)
    BY <1>1, <1>2 DEF Behind
  <2>2. j + 1 \in 1 .. Len(q) /\ i + 1 < j + 1 /\ Is(q[j + 1], method)
    BY <1>1, <2>1
  <2>3. QED
    BY <2>2 DEF Behind
<1>3. ASSUME Behind(q, i + 1, method) PROVE Behind(Tail(q), i, method)
  <2>1. PICK j \in 1 .. Len(q) : i + 1 < j /\ Is(q[j], method)
    BY <1>3 DEF Behind
  <2>2. j - 1 \in 1 .. Len(q) - 1 /\ i < j - 1 /\ Tail(q)[j - 1] = q[j]
    BY <1>1, <2>1
  <2>3. QED
    BY <1>1, <2>1, <2>2 DEF Behind
<1>4. QED
  BY <1>2, <1>3

LEMMA BehindGrown ==
  ASSUME NEW q \in Seq(Messages), NEW r \in Seq(Messages), NEW i \in Nat, NEW method
  PROVE  /\ Behind(q, i, method) => Behind(q \o r, i, method)
         /\ i <= Len(q) /\ Behind(r, 0, method) => Behind(q \o r, i, method)
<1>1. /\ Len(q) \in Nat /\ Len(r) \in Nat /\ Len(q \o r) = Len(q) + Len(r)
      /\ \A j \in 1 .. Len(q) : (q \o r)[j] = q[j]
      /\ \A j \in 1 .. Len(r) : (q \o r)[Len(q) + j] = r[j]
  BY ConcatIs
<1>2. ASSUME Behind(q, i, method) PROVE Behind(q \o r, i, method)
  BY <1>1, <1>2 DEF Behind
<1>3. ASSUME i <= Len(q), Behind(r, 0, method) PROVE Behind(q \o r, i, method)
  <2>1. PICK j \in 1 .. Len(r) : Is(r[j], method)
    BY <1>3 DEF Behind
  <2>2. Len(q) + j \in 1 .. Len(q) + Len(r) /\ i < Len(q) + j /\ Is((q \o r)[Len(q) + j], method)
    BY <1>1, <1>3, <2>1
  <2>3. QED
    BY <1>1, <2>2 DEF Behind
<1>4. QED
  BY <1>2, <1>3

-----------------------------------------------------------------------------
(* The handlers.                                                           *)
Sound(c) == c \in Checkers /\ Emitted(c)

LEMMA SetGrabbingModeIs ==
  ASSUME NEW c, Sound(c), NEW newMode \in Grabbings \ {"INVALID"}
  PROVE  /\ Kodi!SetGrabbingMode(c, newMode) =
                [c EXCEPT !.previousGrabbing = Kodi!Wanted(c, newMode),
                          !.grabbed = Kodi!Wanted(c, newMode)]
         /\ Sound(Kodi!SetGrabbingMode(c, newMode))
<1>1. Kodi!Wanted(c, newMode) \in Grabbings \ {"INVALID"}
  BY DEF Kodi!Wanted, Grabbings
<1>2. Kodi!SetGrabbingMode(c, newMode) =
          [c EXCEPT !.previousGrabbing = Kodi!Wanted(c, newMode),
                          !.grabbed = Kodi!Wanted(c, newMode)]
  <2>1. CASE Kodi!Wanted(c, newMode) = c.previousGrabbing
    <3>1. c.grabbed = Kodi!Wanted(c, newMode)
      BY <1>1, <2>1 DEF Sound, Emitted
    <3>2. QED
      BY <2>1, <3>1 DEF Kodi!SetGrabbingMode, Sound, Checkers
  <2>2. CASE Kodi!Wanted(c, newMode) # c.previousGrabbing
    BY <2>2 DEF Kodi!SetGrabbingMode
  <2>3. QED
    BY <2>1, <2>2
<1>3. QED
  BY <1>1, <1>2 DEF Sound, Emitted, Checkers

LEMMA SetVideoModeIs ==
  ASSUME NEW c, Sound(c), NEW newMode \in Stereos
  PROVE  /\ Kodi!SetVideoMode(c, newMode) =
                [c EXCEPT !.previousVideo = Kodi!SetVideoMode(c, newMode).previousVideo,
                          !.shown = Kodi!SetVideoMode(c, newMode).shown]
         /\ Sound(Kodi!SetVideoMode(c, newMode))
BY DEF Kodi!SetVideoMode, Sound, Emitted, Checkers

LEMMA WriteIs ==
  ASSUME NEW c, Sound(c), NEW request \in Requests
  PROVE  /\ Kodi!Write(c, request) = [c EXCEPT !.out = Append(c.out, request)]
         /\ Sound(Kodi!Write(c, request))
         /\ Kodi!Write(c, request).out = Append(c.out, request)
<1>1. Append(c.out, request) \in Seq(Requests)
  BY AppendIs DEF Sound, Checkers
<1>2. QED
  BY <1>1 DEF Kodi!Write, Sound, Emitted, Checkers

(* What a handler leaves alone, d being c afterwards.                      *)
SameLink(c, d) == d.socket = c.socket /\ d.grabs = c.grabs

SamePlayer(c, d) ==
    d.playing = c.playing /\ d.player = c.player /\ d.initialized = c.initialized

(* What each message does to the checker.                                  *)
Does(c, m, d) ==
    /\ m.id = "players" => d.playing = c.playing
    /\ m.id = "players" /\ m.media = "none" =>
           SamePlayer(c, d) /\ d.grabbed = Kodi!Wanted(c, "MENU") /\ d.out = <<>>
    /\ m.id = "players" /\ m.media # "none" =>
           /\ d.player = Kodi!PlayerOf(m.media)
           /\ \/ /\ ~c.initialized /\ c.player = 0 /\ m.media # "AUDIO"
                 /\ d.out = <<"speed">>
              \/ /\ c.initialized \/ c.player # 0 \/ m.media = "AUDIO"
                 /\ d.initialized = c.initialized
                 /\ d.grabbed = Kodi!Wanted(c, IF c.playing THEN m.media ELSE "PAUSE")
    /\ m.id = "item" =>
           SamePlayer(c, d) /\
             (\/ d.grabbed = c.grabbed
              \/ m.media = "none" /\ d.grabbed = Kodi!Wanted(c, "MENU"))
    /\ m.id = "screensaver" => SamePlayer(c, d) /\ (m.on \/ d.grabbed = c.grabbed)
    /\ m.id \in {"stereo", "version"} => SamePlayer(c, d) /\ d.grabbed = c.grabbed
    /\ m.id = "speed" /\ m.media = "none" => SamePlayer(c, d) /\ d.grabbed = Kodi!Wanted(c, "MENU")
    /\ m.id = "speed" /\ m.media # "none" =>
           /\ d.playing = m.playing /\ d.player = c.player /\ d.initialized = c.initialized
           /\ d.grabbed = c.grabbed
    /\ Is(m, "OnPlay") => d.initialized /\ d.playing /\ d.player = c.player
    /\ Is(m, "OnPause") => d.initialized /\ ~d.playing /\ d.grabbed = Kodi!Wanted(c, "PAUSE")
                                /\ d.player = c.player
    /\ Is(m, "OnStop") => SamePlayer(c, d) /\ d.grabbed = Kodi!Wanted(c, "MENU")
    /\ m.id = "notification" /\ ~Is(m, "OnPlay") /\ ~Is(m, "OnPause") => SamePlayer(c, d)

Handled(c, m, d) ==
    Sound(d) /\ SameLink(c, d) /\ Does(c, m, d) /\ (Asks(m) => Has(d.out, "players"))

LEMMA HasWritten ==
  ASSUME NEW request \in Requests, NEW other \in Requests, NEW third \in Requests
  PROVE  /\ Append(<<>>, request) = <<request>>
         /\ Has(<<request>>, request)
         /\ Has(Append(<<request>>, other), request)
         /\ Has(Append(Append(<<request>>, other), third), request)
<1>1. \A q \in Seq(Requests), x \in Requests : Has(q, request) => Has(Append(q, x), request)
  <2>1. SUFFICES ASSUME NEW q \in Seq(Requests), NEW x \in Requests, Has(q, request)
                 PROVE  Has(Append(q, x), request)
    OBVIOUS
  <2>2. QED
    BY <2>1, AppendIs DEF Has
<1>2. <<request>> \in Seq(Requests) /\ <<request>>[1] = request /\ Len(<<request>>) = 1
  OBVIOUS
<1>3. Has(<<request>>, request)
  BY <1>2 DEF Has
<1>4. Append(<<request>>, other) \in Seq(Requests) /\ Has(Append(<<request>>, other), request)
  BY <1>1, <1>2, <1>3, AppendIs
<1>5. Has(Append(Append(<<request>>, other), third), request)
  BY <1>1, <1>4
<1>6. Append(<<>>, request) = <<request>>
  OBVIOUS
<1>7. QED
  BY <1>3, <1>4, <1>5, <1>6

LEMMA HandlesPlayers ==
  ASSUME NEW c, Sound(c), c.out = <<>>, NEW m \in Messages, m.id = "players"
  PROVE  Handled(c, m, Kodi!Handle(c, m))
<1>1. Kodi!Handle(c, m) = Kodi!ReplyActivePlayers(c, m) /\ ~Asks(m) /\ m.media \in Shows
      /\ m.id \notin {"item", "screensaver", "stereo", "version", "speed", "notification"}
  BY DEF Kodi!Handle, Messages, Asks, Is
<1>2. CASE m.media = "none"
  <2>1. Kodi!Handle(c, m) = Kodi!SetGrabbingMode(c, "MENU")
    BY <1>1, <1>2 DEF Kodi!ReplyActivePlayers
  <2>2. Sound(Kodi!Handle(c, m))
         /\ Kodi!Handle(c, m) = [c EXCEPT !.previousGrabbing = Kodi!Wanted(c, "MENU"),
                                          !.grabbed = Kodi!Wanted(c, "MENU")]
    <3>1. "MENU" \in Grabbings \ {"INVALID"}
      BY DEF Grabbings
    <3>2. QED
      BY <2>1, <3>1, SetGrabbingModeIs
  <2>3. SameLink(c, Kodi!Handle(c, m)) /\ SamePlayer(c, Kodi!Handle(c, m))
         /\ Kodi!Handle(c, m).out = <<>>
        /\ Kodi!Handle(c, m).grabbed = Kodi!Wanted(c, "MENU")
    BY <2>2 DEF Sound, Checkers, SameLink, SamePlayer
  <2>4. QED
    BY <1>1, <1>2, <2>2, <2>3 DEF Handled, Does, Is, SamePlayer
<1>3. CASE m.media # "none"
  <2> DEFINE told == [c EXCEPT !.shown = "2D", !.player = Kodi!PlayerOf(m.media)]
             newMode == IF c.playing THEN m.media ELSE "PAUSE"
             set  == Kodi!SetGrabbingMode(told, newMode)
  <2>1. m.media \in Kodi!Media /\ Kodi!PlayerOf(m.media) \in 0 .. 2
        /\ (Kodi!PlayerOf(m.media) = 0 <=> m.media = "AUDIO")
    BY <1>1, <1>3 DEF Shows, Kodi!Media, Kodi!PlayerOf
  <2>2. Sound(told) /\ told.out = <<>> /\ told.player = Kodi!PlayerOf(m.media)
    BY <2>1 DEF Sound, Checkers, Emitted, Stereos
  <2>3. newMode \in Grabbings \ {"INVALID"}
    BY <2>1 DEF Grabbings, Kodi!Media
  <2>4. Sound(set) /\ set = [told EXCEPT !.previousGrabbing = Kodi!Wanted(told, newMode),
                                        !.grabbed = Kodi!Wanted(told, newMode)]
    <3> HIDE DEF told, newMode
    <3>1. QED
      BY <2>2, <2>3, SetGrabbingModeIs
  <2>5. Kodi!Wanted(told, newMode) = Kodi!Wanted(c, newMode)
    BY DEF Kodi!Wanted, Sound, Checkers
  <2>6. CASE ~c.initialized /\ c.player = 0 /\ m.media # "AUDIO"
    <3> DEFINE new == [told EXCEPT !.initialized = TRUE]
    <3>1. Kodi!Handle(c, m) = Kodi!Write(new, "speed")
      BY <1>1, <1>3, <2>1, <2>2, <2>6 DEF Kodi!ReplyActivePlayers, Kodi!ActivePlayer
    <3>2. Sound(new) /\ new.out = <<>>
      BY <2>2 DEF Sound, Checkers, Emitted
    <3>3. Sound(Kodi!Handle(c, m)) /\ Kodi!Handle(c, m) = [new EXCEPT !.out = <<"speed">>]
      <4>1. "speed" \in Requests
        BY DEF Requests
      <4> HIDE DEF new
      <4>2. Append(<<>>, "speed") = <<"speed">>
        BY <4>1, HasWritten
      <4>3. Sound(Kodi!Write(new, "speed"))
            /\ Kodi!Write(new, "speed") = [new EXCEPT !.out = Append(new.out, "speed")]
        BY <3>2, <4>1, WriteIs
      <4>4. QED
        BY <3>1, <3>2, <4>2, <4>3
    <3>4. /\ SameLink(c, Kodi!Handle(c, m)) /\ Kodi!Handle(c, m).out = <<"speed">>
          /\ Kodi!Handle(c, m).playing = c.playing
              /\ Kodi!Handle(c, m).player = Kodi!PlayerOf(m.media)
      BY <3>3 DEF Sound, Checkers, SameLink
    <3>5. QED
      BY <1>1, <1>3, <2>6, <3>3, <3>4 DEF Handled, Does, Is
  <2>7. CASE c.initialized \/ c.player # 0 \/ m.media = "AUDIO"
    <3>1. Kodi!Handle(c, m) \in {set, Kodi!Write(set, "item")}
      BY <1>1, <1>3, <2>1, <2>2, <2>7 DEF Kodi!ReplyActivePlayers, Kodi!ActivePlayer
    <3>2. Sound(Kodi!Handle(c, m)) 
          /\ Kodi!Handle(c, m) \in {set, [set EXCEPT !.out = Append(set.out, "item")]}
      <4>1. "item" \in Requests
        BY DEF Requests
      <4> HIDE DEF set, told, newMode
      <4>2. Kodi!Write(set, "item") = [set EXCEPT !.out = Append(set.out, "item")]
            /\ Sound(Kodi!Write(set, "item"))
        BY <2>4, <4>1, WriteIs
      <4>3. CASE Kodi!Handle(c, m) = set
        BY <2>4, <4>3
      <4>4. CASE Kodi!Handle(c, m) = Kodi!Write(set, "item")
        BY <4>2, <4>4
      <4>5. QED
        BY <3>1, <4>3, <4>4
    <3>3. /\ set \in Checkers /\ SameLink(c, set)
          /\ set.playing = c.playing /\ set.player = Kodi!PlayerOf(m.media)
          /\ set.initialized = c.initialized /\ set.grabbed = Kodi!Wanted(c, newMode)
      <4>1. set.grabbed = Kodi!Wanted(told, newMode)
        <5> HIDE DEF newMode
        <5>1. QED
          BY <2>4, <2>2 DEF Sound, Checkers
      <4> HIDE DEF newMode, set
      <4>2. QED
        BY <2>4, <2>5, <4>1 DEF Sound, Checkers, SameLink
    <3>4. /\ SameLink(c, Kodi!Handle(c, m))
          /\ Kodi!Handle(c, m).playing = c.playing
              /\ Kodi!Handle(c, m).player = Kodi!PlayerOf(m.media)
          /\ Kodi!Handle(c, m).initialized = c.initialized
              /\ Kodi!Handle(c, m).grabbed = Kodi!Wanted(c, newMode)
      <4> HIDE DEF newMode, set
      <4>1. QED
        BY <3>2, <3>3 DEF Checkers, SameLink
    <3>5. QED
      BY <1>1, <1>3, <2>7, <3>2, <3>4 DEF Handled, Does, Is
  <2>8. QED
    BY <2>1, <2>6, <2>7 DEF Sound, Checkers
<1>4. QED
  BY <1>2, <1>3

LEMMA HandlesReply ==
  ASSUME NEW c, Sound(c), c.out = <<>>, NEW m \in Messages,
         m.id \in {"item", "stereo", "version", "speed"}
  PROVE  Handled(c, m, Kodi!Handle(c, m))
<1> DEFINE d == Kodi!Handle(c, m)
<1>1. ~Asks(m) /\ m.id \notin {"players", "screensaver", "notification"}
  BY DEF Asks, Is
<1>2. /\ "MENU" \in Grabbings \ {"INVALID"} /\ "stereo" \in Requests
  BY DEF Grabbings, Requests
<1> DEFINE Menu == Kodi!SetGrabbingMode(c, "MENU")
<1>3. /\ Sound(Menu) /\ SameLink(c, Menu) /\ SamePlayer(c, Menu)
      /\ Menu.grabbed = Kodi!Wanted(c, "MENU")
  <2>1. Sound(Menu) /\ Menu = [c EXCEPT !.previousGrabbing = Kodi!Wanted(c, "MENU"),
                                       !.grabbed = Kodi!Wanted(c, "MENU")]
    BY <1>2, SetGrabbingModeIs
  <2>2. QED
    BY <2>1 DEF Sound, Checkers, SameLink, SamePlayer
<1> HIDE DEF Menu
<1>4. \A newMode \in Stereos :
          LET e == Kodi!SetVideoMode(c, newMode)
          IN Sound(e) /\ SameLink(c, e) /\ SamePlayer(c, e) /\ e.grabbed = c.grabbed
  <2>1. SUFFICES ASSUME NEW newMode \in Stereos
                 PROVE  LET e == Kodi!SetVideoMode(c, newMode)
                        IN Sound(e) /\ SameLink(c, e) /\ SamePlayer(c, e) /\ e.grabbed = c.grabbed
    OBVIOUS
  <2> DEFINE e == Kodi!SetVideoMode(c, newMode)
  <2>2. Sound(e) /\ e = [c EXCEPT !.previousVideo = e.previousVideo, !.shown = e.shown]
    BY <2>1, SetVideoModeIs
  <2> HIDE DEF e
  <2>3. Sound(e) /\ SameLink(c, e) /\ SamePlayer(c, e) /\ e.grabbed = c.grabbed
    BY <2>2 DEF Sound, Checkers, SameLink, SamePlayer
  <2>4. QED
    BY <2>3 DEF e
<1>5. CASE m.id = "item"
  <2>1. m.stereo \in Stereos
    BY <1>5 DEF Messages
  <2>2. d = Kodi!ReplyItem(c, m)
    BY <1>5 DEF Kodi!Handle
  <2>3. \/ d = Kodi!Write(c, "stereo")
        \/ m.media = "none" /\ d = Menu
        \/ d = Kodi!SetVideoMode(c, m.stereo)
    BY <2>2 DEF Kodi!ReplyItem, Menu
  <2>4. LET e == Kodi!Write(c, "stereo")
        IN Sound(e) /\ SameLink(c, e) /\ SamePlayer(c, e) /\ e.grabbed = c.grabbed
    <3> DEFINE e == Kodi!Write(c, "stereo")
    <3>1. Sound(e) /\ e = [c EXCEPT !.out = Append(c.out, "stereo")]
      BY <1>2, WriteIs
    <3> HIDE DEF e
    <3>2. Sound(e) /\ SameLink(c, e) /\ SamePlayer(c, e) /\ e.grabbed = c.grabbed
      BY <3>1 DEF Sound, Checkers, SameLink, SamePlayer
    <3>3. QED
      BY <3>2 DEF e
  <2> HIDE DEF d
  <2>5. /\ Sound(d) /\ SameLink(c, d) /\ SamePlayer(c, d)
        /\ d.grabbed = c.grabbed \/ (m.media = "none" /\ d.grabbed = Kodi!Wanted(c, "MENU"))
    BY <1>3, <1>4, <2>1, <2>3, <2>4
  <2>6. QED
    BY <1>1, <1>5, <2>5 DEF Handled, Does, Is, d
<1>6. CASE m.id = "stereo"
  <2>1. m.stereo \in Stereos /\ d = Kodi!ReplyStereo(c, m)
    BY <1>6 DEF Messages, Kodi!Handle
  <2>2. d = c \/ d = Kodi!SetVideoMode(c, m.stereo)
    BY <2>1 DEF Kodi!ReplyStereo
  <2> HIDE DEF d
  <2>3. Sound(d) /\ SameLink(c, d) /\ SamePlayer(c, d) /\ d.grabbed = c.grabbed
    BY <1>4, <2>1, <2>2 DEF SameLink, SamePlayer
  <2>4. QED
    BY <1>1, <1>6, <2>3 DEF Handled, Does, Is, d
<1>7. CASE m.id = "version"
  <2>1. m.version \in Versions /\ d = [c EXCEPT !.version = m.version]
    BY <1>7 DEF Messages, Kodi!Handle, Kodi!ReplyVersion
  <2> HIDE DEF d
  <2>2. Sound(d) /\ SameLink(c, d) /\ SamePlayer(c, d) /\ d.grabbed = c.grabbed
    BY <2>1 DEF Sound, Emitted, Checkers, SameLink, SamePlayer
  <2>3. QED
    BY <1>1, <1>7, <2>2 DEF Handled, Does, Is, d
<1>8. CASE m.id = "speed"
  <2>1. m.playing \in BOOLEAN /\ d = Kodi!ReplySpeed(c, m)
    BY <1>8 DEF Messages, Kodi!Handle
  <2>2. CASE m.media = "none"
    <3>1. d = Menu
      BY <2>1, <2>2 DEF Kodi!ReplySpeed, Menu
    <3> HIDE DEF d
    <3>2. QED
      BY <1>1, <1>3, <1>8, <2>2, <3>1 DEF Handled, Does, Is, d
  <2>3. CASE m.media # "none"
    <3>1. d = [c EXCEPT !.playing = m.playing]
      BY <2>1, <2>3 DEF Kodi!ReplySpeed
    <3> HIDE DEF d
    <3>2. /\ Sound(d) /\ SameLink(c, d) /\ d.playing = m.playing /\ d.player = c.player
          /\ d.initialized = c.initialized /\ d.grabbed = c.grabbed
      BY <2>1, <3>1 DEF Sound, Emitted, Checkers, SameLink
    <3>3. QED
      BY <1>1, <1>8, <2>3, <3>2 DEF Handled, Does, Is, d
  <2>4. QED
    BY <2>2, <2>3
<1>9. QED
  BY <1>5, <1>6, <1>7, <1>8

LEMMA HandlesScreensaver ==
  ASSUME NEW c, Sound(c), c.out = <<>>, NEW m \in Messages, m.id = "screensaver"
  PROVE  Handled(c, m, Kodi!Handle(c, m))
<1> DEFINE next == IF m.on THEN Kodi!SetGrabbingMode(c, "SCREENSAVER") ELSE Kodi!Write(c, "players")
           d    == Kodi!Handle(c, m)
<1>1. /\ m.on \in BOOLEAN
      /\ "SCREENSAVER" \in Grabbings \ {"INVALID"}
      /\ {"players", "version"} \subseteq Requests
  BY DEF Messages, Grabbings, Requests
<1>2. d = IF c.version = 0 THEN Kodi!Write(next, "version") ELSE next
  BY DEF Kodi!Handle, Kodi!ReplyScreensaver
<1>3. /\ Sound(next) /\ SameLink(c, next) /\ SamePlayer(c, next)
      /\ ~m.on => next.grabbed = c.grabbed /\ next.out = <<"players">>
  <2>1. CASE m.on
    <3>1. Sound(next) /\ next = [c EXCEPT !.previousGrabbing = Kodi!Wanted(c, "SCREENSAVER"),
                                         !.grabbed = Kodi!Wanted(c, "SCREENSAVER")]
      BY <1>1, <2>1, SetGrabbingModeIs
    <3> HIDE DEF next
    <3>2. QED
      BY <2>1, <3>1 DEF Sound, Checkers, SameLink, SamePlayer
  <2>2. CASE ~m.on
    <3>1. Append(<<>>, "players") = <<"players">>
      BY <1>1, HasWritten
    <3>2. Sound(next) /\ next = [c EXCEPT !.out = <<"players">>]
      <4>1. Sound(Kodi!Write(c, "players"))
            /\ Kodi!Write(c, "players") = [c EXCEPT !.out = Append(c.out, "players")]
        BY <1>1, WriteIs
      <4>2. QED
        BY <2>2, <3>1, <4>1
    <3> HIDE DEF next
    <3>3. QED
      BY <2>2, <3>2 DEF Sound, Checkers, SameLink, SamePlayer
  <2>3. QED
    BY <2>1, <2>2
<1> HIDE DEF next, d
<1>4. /\ Sound(d) /\ SameLink(c, d) /\ SamePlayer(c, d)
      /\ d.grabbed = next.grabbed
      /\ d.out \in {next.out, Append(next.out, "version")}
  <2>1. CASE c.version = 0
    <3>1. Sound(d) /\ d = [next EXCEPT !.out = Append(next.out, "version")]
      BY <1>1, <1>2, <1>3, <2>1, WriteIs
    <3>2. QED
      BY <1>3, <3>1 DEF Sound, Checkers, SameLink, SamePlayer
  <2>2. CASE c.version # 0
    BY <1>2, <1>3, <2>2
  <2>3. QED
    BY <2>1, <2>2
<1>5. ~m.on => Has(d.out, "players")
  BY <1>1, <1>3, <1>4, HasWritten
<1>6. QED
  BY <1>3, <1>4, <1>5 DEF Handled, Does, Asks, Is, d

LEMMA HandlesNotification ==
  ASSUME NEW c, Sound(c), c.out = <<>>, NEW m \in Messages, m.id = "notification"
  PROVE  Handled(c, m, Kodi!Handle(c, m))
<1> DEFINE d == Kodi!Handle(c, m)
<1>1. /\ d = Kodi!Notifies(c, m) /\ m.method \in Methods
      /\ m.id \notin {"players", "item", "screensaver", "stereo", "version", "speed"}
  BY DEF Kodi!Handle, Messages
<1>2. /\ "MENU" \in Grabbings \ {"INVALID"} /\ "PAUSE" \in Grabbings \ {"INVALID"}
      /\ "SCREENSAVER" \in Grabbings \ {"INVALID"} /\ "PHOTO" \in Grabbings \ {"INVALID"}
      /\ "players" \in Requests /\ "screensaver" \in Requests /\ "speed" \in Requests
      /\ "2D" \in Stereos
  BY DEF Grabbings, Kodi!Media, Requests, Stereos
<1>3. \A newMode \in Grabbings \ {"INVALID"} :
          LET e == Kodi!SetGrabbingMode(c, newMode)
          IN Sound(e) /\ SameLink(c, e) /\ SamePlayer(c, e) /\ e.grabbed = Kodi!Wanted(c, newMode)
  <2>1. SUFFICES ASSUME NEW newMode \in Grabbings \ {"INVALID"}
                 PROVE  LET e == Kodi!SetGrabbingMode(c, newMode)
                        IN Sound(e) /\ SameLink(c, e) /\ SamePlayer(c, e)
                               /\ e.grabbed = Kodi!Wanted(c, newMode)
    OBVIOUS
  <2> DEFINE e == Kodi!SetGrabbingMode(c, newMode)
  <2>2. Sound(e) /\ e = [c EXCEPT !.previousGrabbing = Kodi!Wanted(c, newMode),
                                 !.grabbed = Kodi!Wanted(c, newMode)]
    BY <2>1, SetGrabbingModeIs
  <2> HIDE DEF e
  <2>3. Sound(e) /\ SameLink(c, e) /\ SamePlayer(c, e) /\ e.grabbed = Kodi!Wanted(c, newMode)
    BY <2>2 DEF Sound, Checkers, SameLink, SamePlayer
  <2>4. QED
    BY <2>3 DEF e
<1>4. \A playing \in BOOLEAN :
          LET e == Kodi!Plays(c, playing)
          IN Sound(e) /\ SameLink(c, e) /\ e.playing = playing /\ e.player = c.player
                 /\ e.initialized /\ e.out = <<>> /\ e.grabs = c.grabs
  BY DEF Kodi!Plays, Sound, Emitted, Checkers, SameLink
<1>5. \A e : Sound(e) /\ e.out = <<>> =>
          LET f == Kodi!Write(e, "players")
          IN Sound(f) /\ SameLink(e, f) /\ SamePlayer(e, f) /\ Has(f.out, "players")
                 /\ f.out = <<"players">>
  <2>1. SUFFICES ASSUME NEW e, Sound(e), e.out = <<>>
                 PROVE  LET f == Kodi!Write(e, "players")
                        IN Sound(f) /\ SameLink(e, f) /\ SamePlayer(e, f) /\ Has(f.out, "players")
                               /\ f.out = <<"players">>
    OBVIOUS
  <2> DEFINE f == Kodi!Write(e, "players")
  <2>2. Append(<<>>, "players") = <<"players">> /\ Has(<<"players">>, "players")
    BY <1>2, HasWritten
  <2>3. Sound(f) /\ f = [e EXCEPT !.out = Append(e.out, "players")]
    BY <1>2, <2>1, WriteIs
  <2> HIDE DEF f
  <2>4. Sound(f) /\ SameLink(e, f) /\ SamePlayer(e, f) /\ Has(f.out, "players")
        /\ f.out = <<"players">>
    BY <2>1, <2>2, <2>3 DEF Sound, Checkers, SameLink, SamePlayer
  <2>5. QED
    BY <2>4 DEF f
<1>6. CASE m.method = "OnPlay"
  <2>1. d = Kodi!Write(Kodi!Plays(c, TRUE), "players")
    BY <1>1, <1>6 DEF Kodi!Notifies
  <2>2. /\ Sound(d) /\ SameLink(c, d) /\ d.playing /\ d.player = c.player /\ d.initialized
        /\ Has(d.out, "players")
    BY <1>4, <1>5, <2>1 DEF SameLink, SamePlayer
  <2> HIDE DEF d
  <2>3. QED
    BY <1>1, <1>6, <2>2 DEF Handled, Does, Is, d
<1>7. CASE m.method = "OnPause"
  <2> DEFINE plays == Kodi!Plays(c, FALSE)
  <2>1. d = Kodi!SetGrabbingMode(plays, "PAUSE")
    BY <1>1, <1>7 DEF Kodi!Notifies, Kodi!Pauses
  <2> HIDE DEF d
  <2>2. Sound(plays) /\ SameLink(c, plays) /\ ~plays.playing /\ plays.player = c.player
        /\ plays.initialized
    BY <1>4
  <2> HIDE DEF plays
  <2>3. Sound(d) /\ d = [plays EXCEPT !.previousGrabbing = Kodi!Wanted(plays, "PAUSE"),
                                     !.grabbed = Kodi!Wanted(plays, "PAUSE")]
    BY <1>2, <2>1, <2>2, SetGrabbingModeIs
  <2>4. Kodi!Wanted(plays, "PAUSE") = Kodi!Wanted(c, "PAUSE")
    BY <2>2 DEF SameLink, Kodi!Wanted
  <2>5. /\ SameLink(c, d) /\ ~d.playing /\ d.player = c.player /\ d.initialized
        /\ d.grabbed = Kodi!Wanted(c, "PAUSE")
    BY <2>2, <2>3, <2>4 DEF Sound, Checkers, SameLink
  <2>6. ~Asks(m)
    BY <1>1, <1>7 DEF Asks, Is
  <2>7. QED
    BY <1>1, <1>7, <2>3, <2>5, <2>6 DEF Handled, Does, Is, d
<1>8. CASE m.method = "OnStop"
  <2> DEFINE menu == Kodi!SetGrabbingMode(c, "MENU")
  <2>1. d = Kodi!SetVideoMode(menu, "2D")
    BY <1>1, <1>8 DEF Kodi!Notifies
  <2> HIDE DEF d
  <2>2. Sound(menu) /\ SameLink(c, menu) /\ SamePlayer(c, menu)
        /\ menu.grabbed = Kodi!Wanted(c, "MENU")
    BY <1>2, <1>3
  <2> HIDE DEF menu
  <2>3. Sound(d) /\ d = [menu EXCEPT !.previousVideo = d.previousVideo, !.shown = d.shown]
    BY <1>2, <2>1, <2>2, SetVideoModeIs
  <2>4. /\ SameLink(c, d) /\ SamePlayer(c, d) /\ d.grabbed = Kodi!Wanted(c, "MENU")
    BY <2>2, <2>3 DEF Sound, Checkers, SameLink, SamePlayer
  <2>5. ~Asks(m)
    BY <1>1, <1>8 DEF Asks, Is
  <2>6. QED
    BY <1>1, <1>8, <2>3, <2>4, <2>5 DEF Handled, Does, Is, d
<1>9. CASE m.method \in {"ScreensaverActivated", "OnAdd"}
  <2>1. Sound(d) /\ SameLink(c, d) /\ SamePlayer(c, d)
    BY <1>1, <1>2, <1>3, <1>9 DEF Kodi!Notifies
  <2>2. ~Asks(m)
    BY <1>1, <1>9 DEF Asks, Is
  <2> HIDE DEF d
  <2>3. QED
    BY <1>1, <1>9, <2>1, <2>2 DEF Handled, Does, Is, d
<1>10. CASE m.method = "ScreensaverDeactivated"
  <2>1. Sound(d) /\ SameLink(c, d) /\ SamePlayer(c, d) /\ Has(d.out, "players")
    BY <1>1, <1>5, <1>10 DEF Kodi!Notifies
  <2> HIDE DEF d
  <2>2. QED
    BY <1>1, <1>10, <2>1 DEF Handled, Does, Is, d
<1>11. CASE m.method = "OnInputFinished"
  <2> DEFINE once  == Kodi!Write(c, "players")
             asked == Kodi!Write(once, "screensaver")
  <2>1. d = IF c.player # 0 THEN Kodi!Write(asked, "speed") ELSE asked
    BY <1>1, <1>11 DEF Kodi!Notifies
  <2>2. Sound(once) /\ SameLink(c, once) /\ SamePlayer(c, once) /\ once.out = <<"players">>
    BY <1>5
  <2> HIDE DEF once
  <2>3. Sound(asked) /\ asked = [once EXCEPT !.out = Append(once.out, "screensaver")]
    BY <1>2, <2>2, WriteIs
  <2> HIDE DEF asked
  <2>4. /\ Sound(asked) /\ SameLink(c, asked) /\ SamePlayer(c, asked)
        /\ asked.out = Append(<<"players">>, "screensaver")
    BY <2>2, <2>3 DEF Sound, Checkers, SameLink, SamePlayer
  <2>5. Sound(Kodi!Write(asked, "speed"))
        /\ Kodi!Write(asked, "speed") = [asked EXCEPT !.out = Append(asked.out, "speed")]
    BY <1>2, <2>4, WriteIs
  <2> HIDE DEF d
  <2>6. /\ Sound(d) /\ SameLink(c, d) /\ SamePlayer(c, d)
        /\ d.out \in {asked.out, Append(asked.out, "speed")}
    BY <2>1, <2>4, <2>5 DEF Sound, Checkers, SameLink, SamePlayer
  <2>7. Has(d.out, "players")
    BY <1>2, <2>4, <2>6, HasWritten
  <2>8. QED
    BY <1>1, <1>11, <2>6, <2>7 DEF Handled, Does, Is, d
<1>12. QED
  BY <1>1, <1>6, <1>7, <1>8, <1>9, <1>10, <1>11 DEF Methods

LEMMA Handles ==
  ASSUME NEW c, Sound(c), c.out = <<>>, NEW m \in Messages
  PROVE  Handled(c, m, Kodi!Handle(c, m))
<1>1. m.id \in {"players", "item", "screensaver", "stereo", "version", "speed", "notification"}
  BY DEF Messages
<1>2. QED
  BY <1>1, HandlesPlayers, HandlesReply, HandlesScreensaver, HandlesNotification

-----------------------------------------------------------------------------
(* The checker handles the first message.                                  *)
LEMMA StillSoReceived ==
  ASSUME NEW k, NEW q \in Seq(Messages), q # <<>>, AllStillSo(k, q)
  PROVE  AllStillSo(k, Tail(q))
<1>1. /\ Len(q) \in Nat \ {0} /\ Len(Tail(q)) = Len(q) - 1
      /\ \A i \in 1 .. Len(q) - 1 : Tail(q)[i] = q[i + 1]
  BY TailIs
<1>2. SUFFICES ASSUME NEW i \in 1 .. Len(q) - 1 PROVE StillSo(k, Tail(q), i)
  BY <1>1 DEF AllStillSo
<1>3. i + 1 \in 1 .. Len(q) /\ Tail(q)[i] = q[i + 1] /\ StillSo(k, q, i + 1)
  BY <1>1 DEF AllStillSo
<1>4. \A method : Behind(Tail(q), i, method) <=> Behind(q, i + 1, method)
  BY BehindTail
<1>5. QED
  BY <1>3, <1>4 DEF StillSo, Changed

LEMMA WillAskReceived ==
  ASSUME NEW k, NEW p \in Seq(Requests), NEW q \in Seq(Messages), q # <<>>,
         NEW out \in Seq(Requests), Asks(q[1]) => Has(out, "players")
  PROVE  /\ WillAsk(k, p, q) => WillAsk(k, p \o out, Tail(q)) \/ Has(out, "players")
         /\ WillBeTold(k, p, q) => WillBeTold(k, p \o out, Tail(q))
<1>1. /\ Len(q) \in Nat \ {0} /\ Len(Tail(q)) = Len(q) - 1
      /\ \A i \in 1 .. Len(q) - 1 : Tail(q)[i] = q[i + 1]
  BY TailIs
<1>2. \A x : Has(p \o out, x) <=> Has(p, x) \/ Has(out, x)
  BY HasGrown
<1>3. ASSUME NEW i \in 1 .. Len(q), Asks(q[i])
      PROVE  Has(out, "players") \/ \E j \in 1 .. Len(Tail(q)) : Asks(Tail(q)[j])
  <2>1. CASE i = 1
    BY <1>3, <2>1
  <2>2. CASE i # 1
    <3>1. i - 1 \in 1 .. Len(q) - 1 /\ Tail(q)[i - 1] = q[i]
      BY <1>1, <2>2
    <3>2. QED
      BY <1>1, <1>3, <3>1
  <2>3. QED
    BY <2>1, <2>2
<1>4. WillAsk(k, p, q) => WillAsk(k, p \o out, Tail(q)) \/ Has(out, "players")
  BY <1>2, <1>3 DEF WillAsk
<1>5. QED
  BY <1>2, <1>4 DEF WillBeTold

LEMMA SpeedReceived ==
  ASSUME NEW k, NEW p \in Seq(Requests), NEW q \in Seq(Messages), q # <<>>,
         NEW out \in Seq(Requests), Asks(q[1]) => Has(out, "players")
  PROVE  /\ SpeedRequested(k, p, q) => SpeedRequested(k, p \o out, Tail(q))
         /\ SpeedReplied(k, p, q) => q[1].id = "speed" \/ SpeedReplied(k, p \o out, Tail(q))
<1>1. /\ Len(q) \in Nat \ {0} /\ Len(Tail(q)) = Len(q) - 1
      /\ \A i \in 1 .. Len(q) - 1 : Tail(q)[i] = q[i + 1]
  BY TailIs
<1>2. /\ Len(p) \in Nat /\ Len(out) \in Nat /\ Len(p \o out) = Len(p) + Len(out)
      /\ \A i \in 1 .. Len(p) : (p \o out)[i] = p[i]
      /\ \A i \in 1 .. Len(out) : (p \o out)[Len(p) + i] = out[i]
  BY ConcatIs
<1>3. /\ WillAsk(k, p, q) => WillAsk(k, p \o out, Tail(q)) \/ Has(out, "players")
      /\ WillBeTold(k, p, q) => WillBeTold(k, p \o out, Tail(q))
  BY WillAskReceived
<1>4. ASSUME SpeedRequested(k, p, q) PROVE SpeedRequested(k, p \o out, Tail(q))
  <2>1. PICK i \in 1 .. Len(p) :
            /\ p[i] = "speed"
            /\ k.saver \/ WillAsk(k, p, q) \/ \E j \in 1 .. Len(p) : i < j /\ p[j] = "players"
    BY <1>4 DEF SpeedRequested
  <2>2. i \in 1 .. Len(p \o out) /\ (p \o out)[i] = "speed"
    BY <1>2, <2>1
  <2>3. CASE k.saver \/ WillAsk(k, p \o out, Tail(q))
    BY <2>2, <2>3 DEF SpeedRequested
  <2>4. CASE Has(out, "players")
    <3>1. PICK j \in 1 .. Len(out) : out[j] = "players"
      BY <2>4 DEF Has
    <3>2. Len(p) + j \in 1 .. Len(p \o out) /\ i < Len(p) + j /\ (p \o out)[Len(p) + j] = "players"
      BY <1>2, <3>1
    <3>3. QED
      BY <2>2, <3>2 DEF SpeedRequested
  <2>5. CASE \E j \in 1 .. Len(p) : i < j /\ p[j] = "players"
    <3>1. PICK j \in 1 .. Len(p) : i < j /\ p[j] = "players"
      BY <2>5
    <3>2. j \in 1 .. Len(p \o out) /\ (p \o out)[j] = "players"
      BY <1>2, <3>1
    <3>3. QED
      BY <2>2, <3>1, <3>2 DEF SpeedRequested
  <2>6. QED
    BY <1>3, <2>1, <2>3, <2>4, <2>5
<1>5. ASSUME SpeedReplied(k, p, q), q[1].id # "speed" PROVE SpeedReplied(k, p \o out, Tail(q))
  <2>1. PICK i \in 1 .. Len(q) :
            /\ q[i].id = "speed"
            /\ k.saver \/ WillBeTold(k, p, q)
                  \/ \E j \in 1 .. Len(q) : i < j /\ q[j].id = "players"
    BY <1>5 DEF SpeedReplied
  <2>2. i - 1 \in 1 .. Len(Tail(q)) /\ Tail(q)[i - 1].id = "speed"
    BY <1>1, <1>5, <2>1
  <2>3. CASE k.saver \/ WillBeTold(k, p, q)
    BY <1>3, <2>2, <2>3 DEF SpeedReplied
  <2>4. CASE \E j \in 1 .. Len(q) : i < j /\ q[j].id = "players"
    <3>1. PICK j \in 1 .. Len(q) : i < j /\ q[j].id = "players"
      BY <2>4
    <3>2. j - 1 \in 1 .. Len(Tail(q)) /\ i - 1 < j - 1 /\ Tail(q)[j - 1].id = "players"
      BY <1>1, <3>1
    <3>3. QED
      BY <2>2, <3>2 DEF SpeedReplied
  <2>5. QED
    BY <2>1, <2>3, <2>4
<1>6. QED
  BY <1>4, <1>5

(* The first message is not decided by one behind it.                      *)
LEMMA BehindFirst ==
  ASSUME NEW q \in Seq(Messages), q # <<>>, NEW method
  PROVE  Behind(q, 0, method) <=> Is(q[1], method) \/ Behind(Tail(q), 0, method)
<1>1. /\ Len(q) \in Nat \ {0}
      /\ Behind(Tail(q), 0, method) <=> Behind(q, 1, method)
  BY TailIs, BehindTail
<1>2. ASSUME Behind(q, 0, method), ~Is(q[1], method) PROVE Behind(q, 1, method)
  <2>1. PICK j \in 1 .. Len(q) : Is(q[j], method)
    BY <1>2 DEF Behind
  <2>2. 1 < j
    BY <1>2, <2>1
  <2>3. QED
    BY <2>1, <2>2 DEF Behind
<1>3. Is(q[1], method) \/ Behind(q, 1, method) => Behind(q, 0, method)
  BY <1>1 DEF Behind
<1>4. QED
  BY <1>1, <1>2, <1>3

(* Whenever the saver is off, its reply is followed by a question.         *)
LEMMA SaverAsks ==
  ASSUME NEW k, NEW q \in Seq(Messages), AllStillSo(k, q), ~k.saver,
         NEW j \in 1 .. Len(q), q[j].id = "screensaver"
  PROVE  \E l \in 1 .. Len(q) : j <= l /\ Asks(q[l])
<1>1. CASE ~q[j].on
  BY <1>1 DEF Asks
<1>2. CASE q[j].on
  <2>1. Behind(q, j, "ScreensaverDeactivated")
    BY <1>2 DEF AllStillSo, StillSo
  <2>2. PICK l \in 1 .. Len(q) : j < l /\ Is(q[l], "ScreensaverDeactivated")
    BY <2>1 DEF Behind
  <2>3. QED
    BY <2>2 DEF Asks
<1>3. QED
  BY <1>1, <1>2

LEMMA ModeReceived ==
  ASSUME NEW c, Sound(c), NEW k \in Kodis, NEW p \in Seq(Requests),
         NEW q \in Seq(Messages), q # <<>>, Follows(c, k, p, q),
         NEW d, Handled(c, q[1], d)
  PROVE  ModeFollows(d, k, p \o d.out, Tail(q))
<1> DEFINE m == q[1]
           p2 == p \o d.out
           q2 == Tail(q)
<1>1. /\ Len(q) \in Nat \ {0} /\ Len(q2) = Len(q) - 1 /\ m \in Messages
      /\ \A i \in 1 .. Len(q) - 1 : q2[i] = q[i + 1]
  BY TailIs
<1>2. /\ d.out \in Seq(Requests) /\ (Asks(m) => Has(d.out, "players")) /\ Does(c, m, d)
      /\ \A newMode : Kodi!Wanted(d, newMode) = Kodi!Wanted(c, newMode)
  BY DEF Handled, Sound, Checkers, SameLink, Kodi!Wanted
<1>3. SUFFICES ASSUME ~k.saver, ~WillBeTold(k, p2, q2), d.initialized,
                      \A i \in 1 .. Len(q2) : ~Decides(q2[i])
               PROVE  d.grabbed = Kodi!Wanted(c, Right(k))
  BY <1>2 DEF ModeFollows
<1>4. ~WillBeTold(k, p, q)
  BY <1>2, <1>3, WillAskReceived
<1>5. \A i \in 1 .. Len(q) : ~Asks(q[i]) /\ (1 < i => ~Decides(q[i]))
  <2>1. \A i \in 1 .. Len(q) : ~Asks(q[i])
    BY <1>4 DEF WillBeTold, WillAsk
  <2>2. ASSUME NEW i \in 1 .. Len(q), 1 < i PROVE ~Decides(q[i])
    <3>1. i - 1 \in 1 .. Len(q2) /\ q2[i - 1] = q[i]
      BY <1>1, <2>2
    <3>2. QED
      BY <1>3, <3>1
  <2>3. QED
    BY <2>1, <2>2
<1>6. /\ \A i \in Nat : ~Behind(q, i, "OnPlay") /\ ~Behind(q, i, "ScreensaverDeactivated")
      /\ ~Behind(q, 1, "OnStop") /\ ~Behind(q, 1, "OnPause")
  BY <1>5 DEF Behind, Asks, Decides
<1>7. StillSo(k, q, 1) /\ ~Changed(k, q, 1)
  BY <1>1, <1>6 DEF Follows, AllStillSo, Changed
<1>8. ASSUME c.initialized, ~Decides(m) PROVE c.grabbed = Kodi!Wanted(c, Right(k))
  <2>1. \A i \in 1 .. Len(q) : ~Decides(q[i])
    BY <1>5, <1>8
  <2>2. QED
    BY <1>3, <1>4, <1>8, <2>1 DEF Follows, ModeFollows
<1>9. CASE m.id = "players" /\ k.media = "none"
  <2>1. m.media = "none"
    BY <1>7, <1>9 DEF StillSo
  <2>2. QED
    BY <1>2, <1>9, <2>1 DEF Does, Right
<1>10. CASE m.id = "players" /\ k.media # "none"
  <2>1. m.media = k.media
    BY <1>7, <1>10 DEF StillSo
  <2>2. CASE c.initialized
    <3>1. ~Behind(q, 0, "OnPause")
      BY <1>6, <1>10, BehindFirst, BehindTail DEF Is
    <3>2. ~SpeedRequested(k, p, q)
      BY <1>3, <1>4 DEF SpeedRequested, WillBeTold, Has
    <3>3. ~SpeedReplied(k, p, q)
      BY <1>3, <1>4, <1>5 DEF SpeedReplied, Decides
    <3>4. c.playing = k.playing
      BY <1>6, <1>10, <2>2, <3>1, <3>2, <3>3 DEF Follows, PlayingFollows
    <3>5. d.grabbed = Kodi!Wanted(c, IF c.playing THEN m.media ELSE "PAUSE")
      BY <1>2, <1>10, <2>1, <2>2 DEF Does
    <3>6. QED
      BY <1>10, <2>1, <3>4, <3>5 DEF Right
  <2>3. CASE ~c.initialized
    <3>1. c.player = 0 /\ m.media # "AUDIO"
      BY <1>2, <1>3, <1>10, <2>1, <2>3 DEF Does
    <3>2. k.media \in {"VIDEO", "PHOTO"}
      BY <1>10, <2>1, <3>1 DEF Kodis, Shows, Kodi!Media
    <3>3. FirstRequested(p) \/ FirstReplied(p, q)
      BY <1>6, <2>3, <3>1, <3>2 DEF Follows, PlayerNoticed
    <3>4. ~FirstRequested(p) /\ ~Has(p, "screensaver")
      BY <1>3, <1>4 DEF FirstRequested, WillBeTold, WillAsk, Has
    <3>5. PICK j \in 1 .. Len(q) : q[j].id = "screensaver"
      BY <3>3, <3>4 DEF FirstReplied
    <3>6. QED
      BY <1>3, <1>5, <3>5, SaverAsks DEF Follows
  <2>4. QED
    BY <2>2, <2>3
<1>11. CASE m.id = "item"
  <2>1. m.media = k.media /\ ~Decides(m)
    BY <1>7, <1>11 DEF StillSo, Decides, Is
  <2>2. QED
    BY <1>2, <1>3, <1>8, <1>11, <2>1 DEF Does, SamePlayer, Right
<1>12. CASE m.id = "screensaver"
  BY <1>1, <1>3, <1>5, <1>12, SaverAsks DEF Follows
<1>13. CASE m.id \in {"stereo", "version"}
  BY <1>2, <1>3, <1>8, <1>13 DEF Does, SamePlayer, Decides, Is
<1>14. CASE m.id = "speed"
  <2>1. m.media = k.media /\ ~Decides(m)
    BY <1>7, <1>14 DEF StillSo, Decides, Is
  <2>2. QED
    BY <1>2, <1>3, <1>8, <1>14, <2>1 DEF Does, Right
<1>15. CASE m.id = "notification"
  <2>1. m.method \in {"OnPause", "OnStop", "OnAdd", "ScreensaverActivated"}
    BY <1>1, <1>5, <1>15 DEF Messages, Methods, Asks, Is
  <2>2. ~(Is(m, "OnAdd") \/ Is(m, "ScreensaverActivated"))
    BY <1>3, <1>6, <1>7 DEF StillSo
  <2>3. CASE m.method = "OnPause"
    <3>1. k.media # "none" /\ ~k.playing
      BY <1>7, <1>15, <2>3 DEF StillSo, Is
    <3>2. QED
      BY <1>2, <1>15, <2>3, <3>1 DEF Does, Is, Right
  <2>4. CASE m.method = "OnStop"
    <3>1. k.media = "none"
      BY <1>6, <1>7, <1>15, <2>4 DEF StillSo, Is
    <3>2. QED
      BY <1>2, <1>15, <2>4, <3>1 DEF Does, Is, Right
  <2>5. QED
    BY <1>15, <2>1, <2>2, <2>3, <2>4 DEF Is
<1>16. QED
  BY <1>1, <1>9, <1>10, <1>11, <1>12, <1>13, <1>14, <1>15 DEF Messages

LEMMA PlayingReceived ==
  ASSUME NEW c, Sound(c), NEW k \in Kodis, NEW p \in Seq(Requests),
         NEW q \in Seq(Messages), q # <<>>, Follows(c, k, p, q),
         NEW d, Handled(c, q[1], d)
  PROVE  PlayingFollows(d, k, p \o d.out, Tail(q))
<1> DEFINE m == q[1]
           p2 == p \o d.out
           q2 == Tail(q)
<1>1. /\ Len(q) \in Nat \ {0} /\ Len(q2) = Len(q) - 1 /\ m \in Messages
      /\ \A i \in 1 .. Len(q) - 1 : q2[i] = q[i + 1]
  BY TailIs
<1>2. d.out \in Seq(Requests) /\ (Asks(m) => Has(d.out, "players")) /\ Does(c, m, d)
  BY DEF Handled, Sound, Checkers
<1>3. SUFFICES ASSUME d.initialized, k.media # "none",
                      ~Behind(q2, 0, "OnPlay"), ~Behind(q2, 0, "OnPause")
               PROVE  \/ d.playing = k.playing
                      \/ SpeedRequested(k, p2, q2) \/ SpeedReplied(k, p2, q2)
  BY DEF PlayingFollows
<1>4. ~Behind(q, 1, "OnPlay") /\ ~Behind(q, 1, "OnPause")
  BY <1>3, BehindTail
<1>5. StillSo(k, q, 1) /\ ~Changed(k, q, 1)
  BY <1>1, <1>3, <1>4 DEF Follows, AllStillSo, Changed
<1>6. d.playing \in BOOLEAN /\ c.playing \in BOOLEAN /\ k.playing \in BOOLEAN
  BY DEF Handled, Sound, Checkers, Kodis
<1>7. CASE Is(m, "OnPlay") \/ Is(m, "OnPause")
  <2>1. Is(m, "OnPlay") => k.playing
    BY <1>3, <1>4, <1>5 DEF StillSo
  <2>2. Is(m, "OnPause") => ~k.playing
    BY <1>5 DEF StillSo
  <2>3. QED
    BY <1>2, <1>6, <1>7, <2>1, <2>2 DEF Does
<1>8. CASE m.id = "speed"
  <2>1. m.media = k.media /\ m.playing = k.playing
    BY <1>3, <1>4, <1>5, <1>8 DEF StillSo
  <2>2. QED
    BY <1>2, <1>3, <1>8, <2>1 DEF Does
<1>9. CASE ~Is(m, "OnPlay") /\ ~Is(m, "OnPause") /\ m.id # "speed"
  <2>1. d.playing = c.playing
    BY <1>1, <1>2, <1>9 DEF Does, SamePlayer, Messages
  <2>2. ~Behind(q, 0, "OnPlay") /\ ~Behind(q, 0, "OnPause")
    BY <1>3, <1>9, BehindFirst
  <2>3. CASE c.initialized
    <3>1. c.playing = k.playing \/ SpeedRequested(k, p, q) \/ SpeedReplied(k, p, q)
      BY <1>3, <2>2, <2>3 DEF Follows, PlayingFollows
    <3>2. QED
      BY <1>2, <1>9, <2>1, <3>1, SpeedReceived
  <2>4. CASE ~c.initialized
    <3>1. m.id = "players" /\ m.media \notin {"none", "AUDIO"} /\ c.player = 0
          /\ d.out = <<"speed">>
      BY <1>1, <1>2, <1>3, <1>9, <2>4 DEF Does, SamePlayer, Messages
    <3>2. m.media = k.media
      BY <1>5, <3>1 DEF StillSo
    <3>3. k.media \in {"VIDEO", "PHOTO"}
      BY <3>1, <3>2 DEF Kodis, Shows, Kodi!Media
    <3>4. FirstRequested(p) \/ FirstReplied(p, q)
      BY <2>2, <2>4, <3>1, <3>3 DEF Follows, PlayerNoticed
    <3>5. k.saver \/ WillAsk(k, p2, q2)
      <4>1. CASE Has(p, "screensaver")
        BY <1>2, <4>1, HasGrown DEF WillAsk
      <4>2. CASE ~Has(p, "screensaver")
        <5>1. PICK i \in 1 .. Len(q), j \in 1 .. Len(q) : i < j /\ q[j].id = "screensaver"
          BY <3>4, <4>2 DEF FirstRequested, FirstReplied, Has
        <5>2. CASE k.saver
          BY <5>2
        <5>3. CASE ~k.saver
          <6>1. PICK l \in 1 .. Len(q) : j <= l /\ Asks(q[l])
            BY <5>1, <5>3, SaverAsks DEF Follows
          <6>2. l - 1 \in 1 .. Len(q2) /\ q2[l - 1] = q[l]
            BY <1>1, <5>1, <6>1
          <6>3. QED
            BY <6>1, <6>2 DEF WillAsk
        <5>4. QED
          BY <5>2, <5>3
      <4>3. QED
        BY <4>1, <4>2
    <3>6. Len(p) + 1 \in 1 .. Len(p2) /\ p2[Len(p) + 1] = "speed"
      <4>1. Len(d.out) = 1 /\ d.out[1] = "speed"
        BY <3>1
      <4>2. QED
        BY <1>2, <4>1, ConcatIs
    <3>7. QED
      BY <3>5, <3>6 DEF SpeedRequested
  <2>5. QED
    BY <2>3, <2>4
<1>10. QED
  BY <1>7, <1>8, <1>9

LEMMA PlayerReceived ==
  ASSUME NEW c, Sound(c), NEW k \in Kodis, NEW p \in Seq(Requests),
         NEW q \in Seq(Messages), q # <<>>, Follows(c, k, p, q),
         NEW d, Handled(c, q[1], d)
  PROVE  PlayerNoticed(d, k, p \o d.out, Tail(q))
<1> DEFINE m == q[1]
           p2 == p \o d.out
           q2 == Tail(q)
<1>1. /\ Len(q) \in Nat \ {0} /\ Len(q2) = Len(q) - 1 /\ m \in Messages
      /\ \A i \in 1 .. Len(q) - 1 : q2[i] = q[i + 1]
  BY TailIs
<1>2. d.out \in Seq(Requests) /\ Does(c, m, d)
  BY DEF Handled, Sound, Checkers
<1>3. SUFFICES ASSUME ~d.initialized, d.player = 0, k.media \in {"VIDEO", "PHOTO"},
                      ~Behind(q2, 0, "OnPlay")
               PROVE  FirstRequested(p2) \/ FirstReplied(p2, q2)
  BY DEF PlayerNoticed
<1>4. ~Behind(q, 1, "OnPlay") /\ StillSo(k, q, 1) /\ ~Changed(k, q, 1)
  BY <1>1, <1>3, BehindTail DEF Follows, AllStillSo, Changed
<1>5. m.id # "players"
  <2>1. SUFFICES ASSUME m.id = "players" PROVE FALSE
    OBVIOUS
  <2>2. m.media \in {"VIDEO", "PHOTO"}
    BY <1>3, <1>4, <2>1 DEF StillSo
  <2>3. d.player = Kodi!PlayerOf(m.media)
    BY <1>2, <2>1, <2>2 DEF Does
  <2>4. QED
    BY <1>3, <2>2, <2>3 DEF Kodi!PlayerOf
<1>6. ~Is(m, "OnPlay") /\ ~Is(m, "OnPause")
  BY <1>2, <1>3 DEF Does
<1>7. ~c.initialized /\ c.player = 0
  BY <1>1, <1>2, <1>3, <1>5, <1>6 DEF Does, SamePlayer, Messages
<1>8. FirstRequested(p) \/ FirstReplied(p, q)
  BY <1>3, <1>6, <1>7, BehindFirst DEF Follows, PlayerNoticed
<1>9. CASE FirstRequested(p)
  <2>1. Len(p) \in Nat /\ Len(d.out) \in Nat /\ Len(p2) = Len(p) + Len(d.out)
        /\ \A i \in 1 .. Len(p) : p2[i] = p[i]
    BY <1>2, ConcatIs
  <2>2. PICK i \in 1 .. Len(p), j \in 1 .. Len(p) :
            i < j /\ p[i] = "players" /\ p[j] = "screensaver"
    BY <1>9 DEF FirstRequested
  <2>3. i \in 1 .. Len(p2) /\ j \in 1 .. Len(p2) /\ p2[i] = "players" /\ p2[j] = "screensaver"
    BY <2>1, <2>2
  <2>4. QED
    BY <2>2, <2>3 DEF FirstRequested
<1>10. CASE FirstReplied(p, q)
  <2>1. PICK i \in 1 .. Len(q) :
            /\ q[i].id = "players"
            /\ Has(p, "screensaver")
                  \/ \E j \in 1 .. Len(q) : i < j /\ q[j].id = "screensaver"
    BY <1>10 DEF FirstReplied
  <2>2. i - 1 \in 1 .. Len(q2) /\ q2[i - 1].id = "players"
    BY <1>1, <1>5, <2>1
  <2>3. CASE Has(p, "screensaver")
    BY <1>2, <2>2, <2>3, HasGrown DEF FirstReplied
  <2>4. CASE \E j \in 1 .. Len(q) : i < j /\ q[j].id = "screensaver"
    <3>1. PICK j \in 1 .. Len(q) : i < j /\ q[j].id = "screensaver"
      BY <2>4
    <3>2. j - 1 \in 1 .. Len(q2) /\ i - 1 < j - 1 /\ q2[j - 1].id = "screensaver"
      BY <1>1, <3>1
    <3>3. QED
      BY <2>2, <3>2 DEF FirstReplied
  <2>5. QED
    BY <2>1, <2>3, <2>4
<1>11. QED
  BY <1>8, <1>9, <1>10

LEMMA FollowsReceived ==
  ASSUME NEW c, Sound(c), NEW k \in Kodis, NEW p \in Seq(Requests),
         NEW q \in Seq(Messages), q # <<>>, Follows(c, k, p, q),
         NEW d, Handled(c, q[1], d)
  PROVE  Follows(d, k, p \o d.out, Tail(q))
<1>1. AllStillSo(k, Tail(q))
  BY StillSoReceived DEF Follows
<1>2. QED
  BY <1>1, ModeReceived, PlayingReceived, PlayerReceived DEF Follows

-----------------------------------------------------------------------------
(* Messages r are sent, which tell what Kodi has become: k2, that was k.   *)
Announced(k, k2, r) ==
    /\ \/ k2.media = k.media /\ k2.playing = k.playing
       \/ Behind(r, 0, "OnPlay")
       \/ k2.media = "none" /\ Behind(r, 0, "OnStop")
       \/ k2.media = k.media /\ k.media # "none" /\ ~k2.playing /\ Behind(r, 0, "OnPause")
    /\ k2.saver = k.saver \/ k2.saver \/ Behind(r, 0, "ScreensaverDeactivated")

LEMMA StillSoGrown ==
  ASSUME NEW k \in Kodis, NEW k2 \in Kodis, NEW q \in Seq(Messages), NEW r \in Seq(Messages),
         AllStillSo(k, q), Announced(k, k2, r), AllStillSo(k2, r)
  PROVE  AllStillSo(k2, q \o r)
<1>1. /\ Len(q) \in Nat /\ Len(r) \in Nat /\ Len(q \o r) = Len(q) + Len(r)
      /\ \A i \in 1 .. Len(q) : (q \o r)[i] = q[i]
      /\ \A i \in 1 .. Len(r) : (q \o r)[Len(q) + i] = r[i]
  BY ConcatIs
<1>2. ASSUME NEW i \in 1 .. Len(q) PROVE StillSo(k2, q \o r, i)
  <2>1. (q \o r)[i] = q[i] /\ StillSo(k, q, i)
    BY <1>1 DEF AllStillSo
  <2>2. \A method : Behind(q, i, method) \/ Behind(r, 0, method) => Behind(q \o r, i, method)
    BY <1>1, BehindGrown
  <2>3. k.media \in Shows /\ k2.media \in Shows /\ k.playing \in BOOLEAN /\ k2.playing \in BOOLEAN
        /\ k.saver \in BOOLEAN /\ k2.saver \in BOOLEAN
    BY DEF Kodis
  <2>4. QED
    BY <2>1, <2>2, <2>3 DEF StillSo, Changed, Announced
<1>3. ASSUME NEW i \in 1 .. Len(r) PROVE StillSo(k2, q \o r, Len(q) + i)
  <2>1. (q \o r)[Len(q) + i] = r[i] /\ StillSo(k2, r, i)
    BY <1>1 DEF AllStillSo
  <2>2. ASSUME NEW method, Behind(r, i, method) PROVE Behind(q \o r, Len(q) + i, method)
    <3>1. PICK j \in 1 .. Len(r) : i < j /\ Is(r[j], method)
      BY <2>2 DEF Behind
    <3>2. Len(q) + j \in 1 .. Len(q) + Len(r) /\ Len(q) + i < Len(q) + j
          /\ Is((q \o r)[Len(q) + j], method)
      BY <1>1, <3>1
    <3>3. QED
      BY <1>1, <3>2 DEF Behind
  <2>3. QED
    BY <2>1, <2>2 DEF StillSo, Changed
<1>4. ASSUME NEW i \in 1 .. Len(q \o r) PROVE StillSo(k2, q \o r, i)
  <2>1. CASE i <= Len(q)
    BY <1>1, <1>2, <2>1
  <2>2. CASE i > Len(q)
    <3>1. i - Len(q) \in 1 .. Len(r) /\ i = Len(q) + (i - Len(q))
      BY <1>1, <2>2
    <3>2. StillSo(k2, q \o r, Len(q) + (i - Len(q)))
      BY <1>3, <3>1
    <3>3. QED
      BY <3>1, <3>2
  <2>3. QED
    BY <1>1, <2>1, <2>2
<1>5. QED
  BY <1>4 DEF AllStillSo

LEMMA FollowsAnnounced ==
  ASSUME NEW c, NEW k \in Kodis, NEW k2 \in Kodis, NEW p \in Seq(Requests),
         NEW q \in Seq(Messages), NEW r \in Seq(Messages), Follows(c, k, p, q),
         Announced(k, k2, r), AllStillSo(k2, r)
  PROVE  Follows(c, k2, p, q \o r)
<1> DEFINE q2 == q \o r
<1>1. /\ Len(q) \in Nat /\ Len(r) \in Nat /\ Len(q2) = Len(q) + Len(r)
      /\ \A i \in 1 .. Len(q) : q2[i] = q[i] /\ i \in 1 .. Len(q2)
      /\ \A i \in 1 .. Len(r) : q2[Len(q) + i] = r[i] /\ Len(q) + i \in 1 .. Len(q2)
  BY ConcatIs
<1>2. /\ k.media \in Shows /\ k2.media \in Shows /\ k.playing \in BOOLEAN
      /\ k2.playing \in BOOLEAN /\ k.saver \in BOOLEAN /\ k2.saver \in BOOLEAN
  BY DEF Kodis
<1>3. \A method : Behind(q, 0, method) \/ Behind(r, 0, method) => Behind(q2, 0, method)
  BY <1>1, BehindGrown
<1>4. /\ \/ k2.media = k.media /\ k2.playing = k.playing
         \/ \E i \in 1 .. Len(q2) : Asks(q2[i]) \/ Decides(q2[i])
      /\ k2.saver \/ ~k.saver \/ \E i \in 1 .. Len(q2) : Asks(q2[i])
  <2>1. \A method : Behind(r, 0, method) => \E i \in 1 .. Len(q2) : Is(q2[i], method)
    BY <1>3 DEF Behind
  <2>2. QED
    BY <1>2, <2>1 DEF Announced, Asks, Decides
<1>5. k.saver \/ WillAsk(k, p, q) => k2.saver \/ WillAsk(k2, p, q2)
  BY <1>1, <1>2, <1>4 DEF WillAsk
<1>6. k.saver \/ WillBeTold(k, p, q) => k2.saver \/ WillBeTold(k2, p, q2)
  BY <1>5 DEF WillBeTold
<1>7. AllStillSo(k2, q2)
  BY StillSoGrown DEF Follows
<1>8. ModeFollows(c, k2, p, q2)
  <2>1. SUFFICES ASSUME ~k2.saver, ~WillBeTold(k2, p, q2), c.initialized,
                        \A i \in 1 .. Len(q2) : ~Decides(q2[i])
                 PROVE  c.grabbed = Kodi!Wanted(c, Right(k2))
    BY DEF ModeFollows
  <2>2. k2.media = k.media /\ k2.playing = k.playing
    BY <1>4, <2>1 DEF WillBeTold, WillAsk
  <2>3. ~k.saver /\ ~WillBeTold(k, p, q) /\ \A i \in 1 .. Len(q) : ~Decides(q[i])
    BY <1>1, <1>6, <2>1
  <2>4. QED
    BY <2>1, <2>2, <2>3 DEF Follows, ModeFollows, Right
<1>9. PlayingFollows(c, k2, p, q2)
  <2>1. SUFFICES ASSUME c.initialized, k2.media # "none",
                        ~Behind(q2, 0, "OnPlay"), ~Behind(q2, 0, "OnPause")
                 PROVE  \/ c.playing = k2.playing
                        \/ SpeedRequested(k2, p, q2) \/ SpeedReplied(k2, p, q2)
    BY DEF PlayingFollows
  <2>2. k2.media = k.media /\ k2.playing = k.playing
    BY <1>3, <2>1 DEF Announced
  <2>3. c.playing = k.playing \/ SpeedRequested(k, p, q) \/ SpeedReplied(k, p, q)
    BY <1>3, <2>1, <2>2 DEF Follows, PlayingFollows
  <2>4. SpeedRequested(k, p, q) => SpeedRequested(k2, p, q2)
    BY <1>5 DEF SpeedRequested
  <2>5. SpeedReplied(k, p, q) => SpeedReplied(k2, p, q2)
    BY <1>1, <1>6 DEF SpeedReplied
  <2>6. QED
    BY <2>2, <2>3, <2>4, <2>5
<1>10. PlayerNoticed(c, k2, p, q2)
  <2>1. SUFFICES ASSUME ~c.initialized, c.player = 0, k2.media \in {"VIDEO", "PHOTO"},
                        ~Behind(q2, 0, "OnPlay")
                 PROVE  FirstRequested(p) \/ FirstReplied(p, q2)
    BY DEF PlayerNoticed
  <2>2. k2.media = k.media
    BY <1>3, <2>1 DEF Announced
  <2>3. FirstRequested(p) \/ FirstReplied(p, q)
    BY <1>3, <2>1, <2>2 DEF Follows, PlayerNoticed
  <2>4. FirstReplied(p, q) => FirstReplied(p, q2)
    BY <1>1 DEF FirstReplied
  <2>5. QED
    BY <2>3, <2>4
<1>11. QED
  BY <1>7, <1>8, <1>9, <1>10 DEF Follows

-----------------------------------------------------------------------------
(* Kodi answers the first request.                                         *)
LEMMA HasTail ==
  ASSUME NEW p \in Seq(Requests), p # <<>>, NEW request
  PROVE  Has(p, request) <=> p[1] = request \/ Has(Tail(p), request)
<1>1. /\ Len(p) \in Nat \ {0} /\ Len(Tail(p)) = Len(p) - 1
      /\ \A i \in 1 .. Len(p) - 1 : Tail(p)[i] = p[i + 1]
  BY TailIs
<1>2. ASSUME Has(p, request), p[1] # request PROVE Has(Tail(p), request)
  <2>1. PICK i \in 1 .. Len(p) : p[i] = request
    BY <1>2 DEF Has
  <2>2. i - 1 \in 1 .. Len(p) - 1 /\ Tail(p)[i - 1] = request
    BY <1>1, <1>2, <2>1
  <2>3. QED
    BY <1>1, <2>2 DEF Has
<1>3. ASSUME Has(Tail(p), request) PROVE Has(p, request)
  <2>1. PICK i \in 1 .. Len(p) - 1 : Tail(p)[i] = request
    BY <1>1, <1>3 DEF Has
  <2>2. i + 1 \in 1 .. Len(p) /\ p[i + 1] = request
    BY <1>1, <2>1
  <2>3. QED
    BY <2>2 DEF Has
<1>4. p[1] = request => Has(p, request)
  BY <1>1 DEF Has
<1>5. QED
  BY <1>2, <1>3, <1>4

(* What Kodi k answers to a request.                                       *)
Answers(k, request, m) ==
    /\ m \in Messages
    /\ m.id = request
    /\ request \in {"players", "item", "speed"} => m.media = k.media
    /\ request = "screensaver" => m.on = k.saver
    /\ request = "speed" => m.playing = k.playing

LEMMA FollowsAnswered ==
  ASSUME NEW c, NEW k \in Kodis, NEW p \in Seq(Requests), p # <<>>,
         NEW q \in Seq(Messages), Follows(c, k, p, q), NEW m, Answers(k, p[1], m)
  PROVE  Follows(c, k, Tail(p), Append(q, m))
<1> DEFINE q2 == Append(q, m)
           p2 == Tail(p)
<1>1. /\ Len(p) \in Nat \ {0} /\ Len(p2) = Len(p) - 1 /\ p2 \in Seq(Requests)
      /\ \A i \in 1 .. Len(p) - 1 : p2[i] = p[i + 1]
  BY TailIs
<1>2. /\ m \in Messages /\ Len(q) \in Nat /\ Len(q2) = Len(q) + 1
      /\ \A i \in 1 .. Len(q) : q2[i] = q[i] /\ i \in 1 .. Len(q2)
      /\ q2[Len(q) + 1] = m /\ Len(q) + 1 \in 1 .. Len(q2)
  BY AppendIs DEF Answers
<1>3. /\ m.id = p[1] /\ p[1] \in Requests /\ k.saver \in BOOLEAN
      /\ m.id = "screensaver" => m.on = k.saver
  BY <1>1, ElementOfSeq DEF Answers, Kodis
<1>4. \A x : Has(p, x) <=> p[1] = x \/ Has(p2, x)
  BY HasTail
<1>5. \A method : Behind(q, 0, method) => Behind(q2, 0, method)
  BY <1>2 DEF Behind
<1>6. k.saver \/ WillAsk(k, p, q) => k.saver \/ WillAsk(k, p2, q2)
  <2>1. SUFFICES ASSUME ~k.saver, WillAsk(k, p, q) PROVE WillAsk(k, p2, q2)
    OBVIOUS
  <2>2. CASE \E i \in 1 .. Len(q) : Asks(q[i])
    BY <1>2, <2>2 DEF WillAsk
  <2>3. CASE Has(p2, "screensaver")
    BY <2>1, <2>3 DEF WillAsk
  <2>4. CASE p[1] = "screensaver"
    <3>1. Asks(q2[Len(q) + 1])
      BY <1>2, <1>3, <2>1, <2>4 DEF Asks
    <3>2. QED
      BY <1>2, <3>1 DEF WillAsk
  <2>5. QED
    BY <1>4, <2>1, <2>2, <2>3, <2>4 DEF WillAsk
<1>7. k.saver \/ WillBeTold(k, p, q) => k.saver \/ WillBeTold(k, p2, q2) \/ m.id = "players"
  BY <1>3, <1>4, <1>6 DEF WillBeTold
<1>8. AllStillSo(k, q2)
  <2>1. /\ <<m>> \in Seq(Messages) /\ Len(<<m>>) = 1 /\ <<m>>[1] = m
    BY <1>2
  <2>2. StillSo(k, <<m>>, 1)
    BY <1>3, <2>1 DEF StillSo, Answers, Is, Requests
  <2>3. AllStillSo(k, <<m>>) /\ Announced(k, k, <<m>>)
    <3>1. \A i \in 1 .. 1 : i = 1
      OBVIOUS
    <3>2. AllStillSo(k, <<m>>)
      BY <2>1, <2>2, <3>1 DEF AllStillSo
    <3>3. Announced(k, k, <<m>>)
      BY DEF Announced
    <3>4. QED
      BY <3>2, <3>3
  <2>4. AllStillSo(k, q \o <<m>>)
    BY <2>1, <2>3, StillSoGrown DEF Follows
  <2>5. q2 = q \o <<m>>
    BY <1>2, AppendIsConcat
  <2>6. QED
    BY <2>4, <2>5
<1>9. ModeFollows(c, k, p2, q2)
  <2>1. SUFFICES ASSUME ~k.saver, ~WillBeTold(k, p2, q2), c.initialized,
                        \A i \in 1 .. Len(q2) : ~Decides(q2[i])
                 PROVE  c.grabbed = Kodi!Wanted(c, Right(k))
    BY DEF ModeFollows
  <2>2. ~WillBeTold(k, p, q) /\ \A i \in 1 .. Len(q) : ~Decides(q[i])
    BY <1>2, <1>7, <2>1 DEF Decides
  <2>3. QED
    BY <2>1, <2>2 DEF Follows, ModeFollows
<1>10. SpeedReplied(k, p, q) => SpeedReplied(k, p2, q2)
  <2>1. SUFFICES ASSUME SpeedReplied(k, p, q) PROVE SpeedReplied(k, p2, q2)
    OBVIOUS
  <2>2. PICK i \in 1 .. Len(q) :
            /\ q[i].id = "speed"
            /\ k.saver \/ WillBeTold(k, p, q)
                  \/ \E j \in 1 .. Len(q) : i < j /\ q[j].id = "players"
    BY <2>1 DEF SpeedReplied
  <2>3. i \in 1 .. Len(q2) /\ q2[i].id = "speed" /\ i < Len(q) + 1
    BY <1>2, <2>2
  <2>4. k.saver \/ WillBeTold(k, p2, q2) \/ \E j \in 1 .. Len(q2) : i < j /\ q2[j].id = "players"
    BY <1>2, <1>7, <2>2, <2>3
  <2>5. QED
    BY <2>3, <2>4 DEF SpeedReplied
<1>11. SpeedRequested(k, p, q) => SpeedRequested(k, p2, q2) \/ SpeedReplied(k, p2, q2)
  <2>1. SUFFICES ASSUME SpeedRequested(k, p, q)
                 PROVE  SpeedRequested(k, p2, q2) \/ SpeedReplied(k, p2, q2)
    OBVIOUS
  <2>2. PICK i \in 1 .. Len(p) :
            /\ p[i] = "speed"
            /\ k.saver \/ WillAsk(k, p, q) \/ \E j \in 1 .. Len(p) : i < j /\ p[j] = "players"
    BY <2>1 DEF SpeedRequested
  <2>3. k.saver \/ WillAsk(k, p2, q2) \/ \E j \in 1 .. Len(p2) : i - 1 < j /\ p2[j] = "players"
    <3>1. CASE k.saver \/ WillAsk(k, p, q)
      BY <1>6, <3>1
    <3>2. CASE \E j \in 1 .. Len(p) : i < j /\ p[j] = "players"
      <4>1. PICK j \in 1 .. Len(p) : i < j /\ p[j] = "players"
        BY <3>2
      <4>2. j - 1 \in 1 .. Len(p2) /\ i - 1 < j - 1 /\ p2[j - 1] = "players"
        BY <1>1, <4>1
      <4>3. QED
        BY <4>2
    <3>3. QED
      BY <2>2, <3>1, <3>2
  <2>4. CASE i = 1
    <3>1. q2[Len(q) + 1].id = "speed"
      BY <1>2, <1>3, <2>2, <2>4
    <3>2. k.saver \/ WillBeTold(k, p2, q2)
      BY <2>3 DEF WillBeTold, Has
    <3>3. QED
      BY <1>2, <3>1, <3>2 DEF SpeedReplied
  <2>5. CASE i # 1
    <3>1. i - 1 \in 1 .. Len(p2) /\ p2[i - 1] = "speed"
      BY <1>1, <2>2, <2>5
    <3>2. QED
      BY <2>3, <3>1 DEF SpeedRequested
  <2>6. QED
    BY <2>4, <2>5
<1>12. PlayingFollows(c, k, p2, q2)
  BY <1>5, <1>10, <1>11 DEF Follows, PlayingFollows
<1>13. FirstRequested(p) => FirstRequested(p2) \/ FirstReplied(p2, q2)
  <2>1. SUFFICES ASSUME FirstRequested(p) PROVE FirstRequested(p2) \/ FirstReplied(p2, q2)
    OBVIOUS
  <2>2. PICK i \in 1 .. Len(p), j \in 1 .. Len(p) :
            i < j /\ p[i] = "players" /\ p[j] = "screensaver"
    BY <2>1 DEF FirstRequested
  <2>3. j - 1 \in 1 .. Len(p2) /\ p2[j - 1] = "screensaver"
    BY <1>1, <2>2
  <2>4. CASE i = 1
    <3>1. q2[Len(q) + 1].id = "players"
      BY <1>2, <1>3, <2>2, <2>4
    <3>2. QED
      BY <1>2, <2>3, <3>1 DEF FirstReplied, Has
  <2>5. CASE i # 1
    <3>1. i - 1 \in 1 .. Len(p2) /\ i - 1 < j - 1 /\ p2[i - 1] = "players"
      BY <1>1, <2>2, <2>5
    <3>2. QED
      BY <2>3, <3>1 DEF FirstRequested
  <2>6. QED
    BY <2>4, <2>5
<1>14. FirstReplied(p, q) => FirstReplied(p2, q2)
  <2>1. SUFFICES ASSUME FirstReplied(p, q) PROVE FirstReplied(p2, q2)
    OBVIOUS
  <2>2. PICK i \in 1 .. Len(q) :
            /\ q[i].id = "players"
            /\ Has(p, "screensaver")
                  \/ \E j \in 1 .. Len(q) : i < j /\ q[j].id = "screensaver"
    BY <2>1 DEF FirstReplied
  <2>3. i \in 1 .. Len(q2) /\ q2[i].id = "players" /\ i < Len(q) + 1
    BY <1>2, <2>2
  <2>4. Has(p2, "screensaver") \/ \E j \in 1 .. Len(q2) : i < j /\ q2[j].id = "screensaver"
    BY <1>2, <1>3, <1>4, <2>2, <2>3
  <2>5. QED
    BY <2>3, <2>4 DEF FirstReplied
<1>15. PlayerNoticed(c, k, p2, q2)
  BY <1>5, <1>13, <1>14 DEF Follows, PlayerNoticed
<1>16. QED
  BY <1>8, <1>9, <1>12, <1>15 DEF Follows

-----------------------------------------------------------------------------
(* The connection.                                                         *)

(* d is c for all that follows Kodi.                                       *)
Alike(c, d) == SamePlayer(c, d) /\ d.grabs = c.grabs /\ d.grabbed = c.grabbed

LEMMA FollowsAlike ==
  ASSUME NEW c, NEW d, NEW k, NEW p, NEW q, Alike(c, d), Follows(c, k, p, q)
  PROVE  Follows(d, k, p, q)
<1>1. \A newMode : Kodi!Wanted(d, newMode) = Kodi!Wanted(c, newMode)
  BY DEF Kodi!Wanted, Alike
<1>2. QED
  BY <1>1 DEF Follows, ModeFollows, PlayingFollows, PlayerNoticed, Alike, SamePlayer

LEMMA ReconnectIs ==
  ASSUME NEW c, Sound(c)
  PROVE  /\ Sound(Kodi!Reconnect(c)) /\ Kodi!Reconnect(c).out = c.out
         /\ c.socket = "connected" => Kodi!Reconnect(c) = c
         /\ c.socket # "connected" => Kodi!Reconnect(c).socket # "connected"
<1>1. CASE c.socket = "connected" \/ ~c.active
  BY <1>1 DEF Kodi!Reconnect
<1>2. CASE c.socket # "connected" /\ c.active
  <2>1. \A x : Sound(x) /\ x.out = c.out /\ x.socket # "connected" =>
            Sound(Kodi!StartTimer(x)) /\ Kodi!StartTimer(x).out = c.out
             /\ Kodi!StartTimer(x).socket # "connected"
    BY DEF Kodi!StartTimer, Sound, Emitted, Checkers
  <2>2. \A socket \in {"unconnected", "connecting"} :
            LET x == [c EXCEPT !.socket = socket]
            IN Sound(x) /\ x.out = c.out /\ x.socket # "connected"
    BY DEF Sound, Emitted, Checkers
  <2>3. CASE c.socket = "connecting"
    <3>1. Kodi!Reconnect(c) = Kodi!StartTimer([c EXCEPT !.socket = "unconnected"])
      BY <1>2, <2>3 DEF Kodi!Reconnect
    <3>2. QED
      BY <1>2, <2>1, <2>2, <3>1
  <2>4. CASE c.socket = "unconnected"
    <3>1. Kodi!Reconnect(c) = Kodi!StartTimer([c EXCEPT !.socket = "connecting"])
      BY <1>2, <2>4 DEF Kodi!Reconnect
    <3>2. QED
      BY <1>2, <2>1, <2>2, <3>1
  <2>5. CASE c.socket = "closing"
    <3>1. Kodi!Reconnect(c) = Kodi!StartTimer(c)
      BY <1>2, <2>5 DEF Kodi!Reconnect
    <3>2. QED
      BY <1>2, <2>1, <3>1
  <2>6. QED
    BY <1>2, <2>3, <2>4, <2>5 DEF Sound, Checkers
<1>3. QED
  BY <1>1, <1>2

LEMMA OnDisconnectedIs ==
  ASSUME NEW c, Sound(c)
  PROVE  /\ Sound(Kodi!OnDisconnected(c)) /\ Kodi!OnDisconnected(c).out = c.out
         /\ Kodi!OnDisconnected(c).socket # "connected"
<1> DEFINE lost == [c EXCEPT !.socket = "unconnected", !.previousGrabbing = "INVALID",
                             !.previousVideo = "2D", !.version = 0]
<1>1. Sound(lost) /\ lost.socket = "unconnected" /\ lost.out = c.out
  BY DEF Sound, Emitted, Checkers, Grabbings, Stereos
<1> HIDE DEF lost
<1>2. /\ Sound(Kodi!Reconnect(lost)) /\ Kodi!Reconnect(lost).out = lost.out
      /\ Kodi!Reconnect(lost).socket # "connected"
  BY <1>1, ReconnectIs
<1>3. QED
  BY <1>1, <1>2 DEF Kodi!OnDisconnected, lost

LEMMA BecomesIs ==
  ASSUME toKodi \in Seq(Requests), NEW c, Sound(c), Kodi!Becomes(c)
  PROVE  /\ Sound(checker') /\ checker'.out = <<>> /\ toKodi' \in Seq(Requests)
         /\ Alike(c, checker') /\ checker'.socket = c.socket
         /\ c.socket = "connected" => toKodi' = toKodi \o c.out
         /\ c.socket # "connected" => toKodi' = <<>>
<1>1. checker' = [c EXCEPT !.out = <<>>] /\ c.out \in Seq(Requests)
  BY DEF Kodi!Becomes, Sound, Checkers
<1>2. Sound(checker') /\ checker'.out = <<>> /\ Alike(c, checker') /\ checker'.socket = c.socket
  <2>1. <<>> \in Seq(Requests)
    BY EmptySeq
  <2>2. QED
    BY <1>1, <2>1 DEF Sound, Emitted, Checkers, Alike, SamePlayer
<1>3. toKodi' = IF c.socket = "connected" THEN toKodi \o c.out ELSE <<>>
  BY DEF Kodi!Becomes
<1>4. toKodi \o c.out \in Seq(Requests)
  BY <1>1, ConcatIs
<1>5. QED
  BY <1>2, <1>3, <1>4

(* Becoming what is not connected, and nothing is on its way any more.     *)
LEMMA NotConnected ==
  ASSUME IInv, NEW c, Sound(c), c.socket # "connected", Kodi!Becomes(c),
         toChecker' = <<>>, kodi' \in Kodis, dropped' \in BOOLEAN, count' \in Nat
  PROVE  IInv'
<1>1. Sound(checker') /\ checker'.out = <<>> /\ toKodi' = <<>> /\ checker'.socket # "connected"
  BY BecomesIs DEF IInv, TypeOK
<1>2. TypeOK'
  BY <1>1 DEF TypeOK, Sound
<1>3. ~Kodi!Connected' /\ Connection'
  BY <1>1 DEF Kodi!Connected, Connection, Sound
<1>4. QED
  BY <1>2, <1>3 DEF IInv

(* Only what is alike changes.                                             *)
LEMMA StaysConnected ==
  ASSUME IInv, NEW c, Sound(c), c.out = <<>>, Alike(checker, c), c.socket = checker.socket,
         Kodi!Connected, Kodi!Becomes(c), UNCHANGED <<toChecker, kodi, dropped>>, count' \in Nat
  PROVE  IInv'
<1>1. /\ Sound(checker') /\ checker'.out = <<>> /\ toKodi' \in Seq(Requests)
      /\ Alike(c, checker') /\ checker'.socket = c.socket /\ toKodi' = toKodi \o <<>>
  BY BecomesIs DEF IInv, TypeOK, Kodi!Connected
<1>2. toKodi' = toKodi
  BY <1>1, ConcatEmptySeq DEF IInv, TypeOK
<1>3. TypeOK'
  BY <1>1 DEF TypeOK, IInv, Sound
<1>4. Kodi!Connected' /\ Connection'
  BY <1>1 DEF Kodi!Connected, Connection, Sound, IInv
<1>5. Alike(checker, checker')
  BY <1>1 DEF Alike, SamePlayer
<1>6. ~dropped' => Follows(checker', kodi, toKodi, toChecker)
  BY <1>5, FollowsAlike DEF IInv
<1>7. QED
  BY <1>2, <1>3, <1>4, <1>6 DEF IInv

-----------------------------------------------------------------------------
LEMMA KodiInitInv == Kodi!Init => IInv
<1> SUFFICES ASSUME Kodi!Init PROVE IInv
  OBVIOUS
<1> DEFINE Off(grabs) == [active |-> FALSE, socket |-> "unconnected", grabs |-> grabs,
                          previousGrabbing |-> "INVALID", previousVideo |-> "2D",
                          playing |-> FALSE, player |-> 0, version |-> 0,
                          initialized |-> FALSE, timers |-> 0, out |-> <<>>,
                          grabbed |-> "INVALID", shown |-> "2D"]
<1>1. PICK grabs \in GrabConfigurations : checker = Kodi!Start(Off(grabs))
  BY DEF Kodi!Init
<1> DEFINE new == [Off(grabs) EXCEPT !.active = TRUE]
<1>2. checker = Kodi!Reconnect(new)
  <2> HIDE DEF Off
  <2>1. QED
    BY <1>1 DEF Kodi!Start
<1>3. Sound(new) /\ new.out = <<>> /\ new.socket = "unconnected"
  <2> DEFINE off == Off(grabs)
  <2>1. <<>> \in Seq(Requests)
    BY EmptySeq
  <2>2. off \in Checkers /\ off.out = <<>> /\ off.socket = "unconnected"
        /\ off.previousGrabbing = "INVALID"
    BY <2>1 DEF Checkers, Grabbings, Stereos
  <2> HIDE DEF off
  <2>3. new = [off EXCEPT !.active = TRUE]
    BY DEF off
  <2> HIDE DEF new
  <2>4. QED
    BY <2>2, <2>3 DEF Sound, Emitted, Checkers
<1> HIDE DEF new
<1>4. Sound(checker) /\ checker.out = <<>> /\ checker.socket # "connected"
  BY <1>2, <1>3, ReconnectIs
<1>5. kodi \in Kodis
  BY DEF Kodi!Init, Kodi!NewKodi, Kodis, Shows, Stereos, Versions
<1>6. TypeOK
  <2>1. toKodi \in Seq(Requests) /\ toChecker \in Seq(Messages)
    BY EmptySeq DEF Kodi!Init
  <2>2. QED
    BY <1>4, <1>5, <2>1 DEF TypeOK, Kodi!Init, Sound
<1>7. Connection /\ ~Kodi!Connected
  BY <1>4 DEF Connection, Kodi!Connected, Sound, Kodi!Init
<1>8. QED
  BY <1>6, <1>7 DEF IInv

(* One lemma for the steps of the connection, one for each message that is *)
(* handled, answered or lost, and one for what Kodi does by itself.        *)
LEMMA ConnectionInv ==
  ASSUME IInv,
         \/ Kodi!ReconnectTimerFires \/ Kodi!KodiAccepts \/ Kodi!ConnectionError
          \/ Kodi!ConnectionLost
         \/ Kodi!SocketClosed \/ Kodi!KodiStarts \/ Kodi!ComponentStateChanged
  PROVE  IInv'
<1>1. /\ Sound(checker) /\ checker.out = <<>> /\ kodi \in Kodis /\ dropped \in BOOLEAN
      /\ count \in Nat /\ toKodi \in Seq(Requests)
      /\ checker.socket # "connected" => toKodi = <<>> /\ toChecker = <<>>
      /\ checker.socket = "connected" => kodi.up
  BY DEF IInv, TypeOK, Connection, Kodi!Connected, Sound
<1>2. ASSUME NEW c, Sound(c), c.out = <<>>, Alike(checker, c), c.socket = checker.socket,
             Kodi!Becomes(Kodi!Reconnect(c)), UNCHANGED <<toChecker, kodi, dropped>>, count' \in Nat
      PROVE  IInv'
  <2>1. Sound(Kodi!Reconnect(c)) /\ Kodi!Reconnect(c).out = <<>>
    BY <1>2, ReconnectIs
  <2>2. CASE c.socket = "connected"
    <3>1. Kodi!Reconnect(c) = c /\ Kodi!Connected
      BY <1>2, <2>2, ReconnectIs DEF Kodi!Connected
    <3>2. QED
      BY <1>2, <3>1, StaysConnected
  <2>3. CASE c.socket # "connected"
    <3>1. Kodi!Reconnect(c).socket # "connected"
      BY <1>2, <2>3, ReconnectIs
    <3>2. QED
      BY <1>1, <1>2, <2>1, <2>3, <3>1, NotConnected
  <2>4. QED
    BY <2>2, <2>3
<1>3. CASE Kodi!ReconnectTimerFires
  <2> DEFINE c == [checker EXCEPT !.timers = @ - 1]
  <2>1. Sound(c) /\ c.out = <<>> /\ Alike(checker, c) /\ c.socket = checker.socket
    BY <1>1, <1>3 DEF Kodi!ReconnectTimerFires, Sound, Emitted, Checkers, Alike, SamePlayer
  <2>2. Kodi!Becomes(Kodi!Reconnect(c)) /\ UNCHANGED <<toChecker, kodi, dropped, count>>
    BY <1>3 DEF Kodi!ReconnectTimerFires
  <2> HIDE DEF c
  <2>3. QED
    BY <1>1, <1>2, <2>1, <2>2
<1>4. CASE Kodi!KodiAccepts
  <2> DEFINE new  == [checker EXCEPT !.initialized = FALSE, !.socket = "connected"]
             once == Kodi!Write(new, "players")
             c    == Kodi!Write(once, "screensaver")
  <2>1. /\ kodi.up /\ Kodi!Becomes(c) /\ dropped' = FALSE /\ UNCHANGED <<toChecker, kodi, count>>
        /\ toKodi = <<>> /\ toChecker = <<>>
    BY <1>1, <1>4 DEF Kodi!KodiAccepts, Kodi!OnConnected
  <2>2. "players" \in Requests /\ "screensaver" \in Requests
    BY DEF Requests
  <2>3. Sound(new) /\ new.out = <<>> /\ new.socket = "connected" /\ ~new.initialized
    BY <1>1 DEF Sound, Emitted, Checkers
  <2> HIDE DEF new
  <2>4. Sound(once) /\ once = [new EXCEPT !.out = Append(new.out, "players")]
    BY <2>2, <2>3, WriteIs
  <2> HIDE DEF once
  <2>5. once.out = <<"players">> /\ once.socket = "connected" /\ ~once.initialized
    <3>1. Append(<<>>, "players") = <<"players">>
      BY <2>2, HasWritten
    <3>2. QED
      BY <2>3, <2>4, <3>1 DEF Sound, Checkers
  <2>6. Sound(c) /\ c = [once EXCEPT !.out = Append(once.out, "screensaver")]
    BY <2>2, <2>4, WriteIs
  <2> HIDE DEF c
  <2>7. /\ c.out = Append(<<"players">>, "screensaver") /\ c.socket = "connected"
        /\ ~c.initialized
    BY <2>4, <2>5, <2>6 DEF Sound, Checkers
  <2>8. /\ Sound(checker') /\ checker'.out = <<>> /\ toKodi' \in Seq(Requests)
        /\ Alike(c, checker') /\ checker'.socket = "connected" /\ toKodi' = <<>> \o c.out
    BY <1>1, <2>1, <2>6, <2>7, BecomesIs
  <2>9. toKodi' = Append(<<"players">>, "screensaver") /\ ~checker'.initialized
    <3>1. c.out \in Seq(Requests)
      BY <2>6, <2>7 DEF Sound, Checkers
    <3>2. <<>> \o c.out = c.out
      BY <3>1, ConcatEmptySeq
    <3>3. QED
      BY <2>7, <2>8, <3>2 DEF Alike, SamePlayer
  <2>10. TypeOK' /\ Kodi!Connected' /\ Connection'
    <3>1. toChecker' \in Seq(Messages)
      BY <2>1, EmptySeq
    <3>2. TypeOK'
      BY <1>1, <2>1, <2>8, <3>1 DEF TypeOK, Sound
    <3>3. Kodi!Connected' /\ Connection'
      BY <2>1, <2>8 DEF Kodi!Connected, Connection, Sound
    <3>4. QED
      BY <3>2, <3>3
  <2>11. Follows(checker', kodi', toKodi', toChecker')
    <3>1. Len(toKodi') = 2 /\ toKodi'[1] = "players" /\ toKodi'[2] = "screensaver"
      <4>1. <<"players">> \in Seq(Requests) /\ Len(<<"players">>) = 1
             /\ <<"players">>[1] = "players"
        BY <2>2
      <4>2. QED
        BY <2>2, <2>9, <4>1, AppendIs
    <3>2. Len(toChecker') = 0
      BY <2>1, EmptySeq
    <3>3. AllStillSo(kodi', toChecker')
      BY <3>2 DEF AllStillSo
    <3>4. WillBeTold(kodi', toKodi', toChecker') /\ FirstRequested(toKodi')
      BY <3>1 DEF WillBeTold, Has, FirstRequested
    <3>5. QED
      BY <2>9, <3>3, <3>4 DEF Follows, ModeFollows, PlayingFollows, PlayerNoticed
  <2>12. QED
    BY <2>10, <2>11 DEF IInv
<1>5. CASE Kodi!ConnectionError
  <2> DEFINE c == [checker EXCEPT !.socket = "unconnected"]
  <2>1. Sound(c) /\ c.socket = "unconnected"
    BY <1>1 DEF Sound, Emitted, Checkers
  <2>2. Kodi!Becomes(c) /\ toChecker' = <<>> /\ UNCHANGED <<kodi, dropped, count>>
    BY <1>1, <1>5 DEF Kodi!ConnectionError
  <2> HIDE DEF c
  <2>3. QED
    BY <1>1, <2>1, <2>2, NotConnected
<1>6. CASE Kodi!ConnectionLost
  <2>1. Kodi!Becomes(Kodi!OnDisconnected(checker)) /\ toChecker' = <<>> /\ dropped' = dropped
        /\ count' \in Nat
    BY <1>1, <1>6 DEF Kodi!ConnectionLost, Kodi!Drops, Kodi!Counts
  <2>2. kodi' \in Kodis
    BY <1>1, <1>6 DEF Kodi!ConnectionLost, Kodis
  <2>3. QED
    BY <1>1, <2>1, <2>2, OnDisconnectedIs, NotConnected
<1>7. CASE Kodi!SocketClosed
  <2>1. Kodi!Becomes(Kodi!OnDisconnected(checker)) /\ toChecker' = <<>>
         /\ UNCHANGED <<kodi, dropped, count>>
    BY <1>1, <1>7 DEF Kodi!SocketClosed
  <2>2. QED
    BY <1>1, <2>1, OnDisconnectedIs, NotConnected
<1>8. CASE Kodi!KodiStarts
  <2>1. /\ checker.socket # "connected" /\ kodi' = Kodi!NewKodi(kodi.version)
        /\ UNCHANGED <<checker, toKodi, toChecker, dropped, count>>
    BY <1>1, <1>8 DEF Kodi!KodiStarts
  <2>2. kodi' \in Kodis
    BY <1>1, <2>1 DEF Kodi!NewKodi, Kodis, Shows, Stereos
  <2>3. TypeOK'
    BY <2>1, <2>2 DEF TypeOK, IInv
  <2>4. Connection' /\ ~Kodi!Connected'
    BY <1>1, <2>1 DEF Connection, Kodi!Connected, Sound
  <2>5. QED
    BY <2>3, <2>4 DEF IInv
<1>9. CASE Kodi!ComponentStateChanged
  <2>1. count' \in Nat /\ UNCHANGED <<kodi, dropped>>
    BY <1>1, <1>9 DEF Kodi!ComponentStateChanged, Kodi!Counts
  <2>2. CASE ~checker.active /\ Kodi!Becomes(Kodi!Start(checker)) /\ UNCHANGED toChecker
    <3> DEFINE c == [checker EXCEPT !.active = TRUE]
    <3>1. Sound(c) /\ c.out = <<>> /\ Alike(checker, c) /\ c.socket = checker.socket
      BY <1>1 DEF Sound, Emitted, Checkers, Alike, SamePlayer
    <3>2. Kodi!Becomes(Kodi!Reconnect(c))
      BY <2>2 DEF Kodi!Start
    <3> HIDE DEF c
    <3>3. QED
      BY <1>2, <2>1, <2>2, <3>1, <3>2
  <2>3. ASSUME NEW c \in Kodi!Stops(checker), Kodi!Drops,
               Kodi!Becomes(IF Kodi!Connected /\ c.socket = "unconnected"
                             THEN Kodi!OnDisconnected(c) ELSE c)
        PROVE  IInv'
    <3>1. Sound(c) /\ c.socket # "connected"
      <4>1. PICK socket \in {"closing", "unconnected"} :
                c = [checker EXCEPT !.active = FALSE, !.socket = socket]
        BY <2>3 DEF Kodi!Stops
      <4>2. QED
        BY <1>1, <4>1 DEF Sound, Emitted, Checkers
    <3>2. toChecker' = <<>>
      BY <2>3 DEF Kodi!Drops
    <3>3. PICK d \in {c, Kodi!OnDisconnected(c)} : Kodi!Becomes(d)
      BY <2>3
    <3>4. Sound(d) /\ d.socket # "connected"
      BY <3>1, <3>3, OnDisconnectedIs
    <3>5. QED
      BY <1>1, <2>1, <3>2, <3>3, <3>4, NotConnected
  <2>4. QED
    BY <1>9, <2>2, <2>3 DEF Kodi!ComponentStateChanged
<1>10. QED
  BY <1>3, <1>4, <1>5, <1>6, <1>7, <1>8, <1>9

LEMMA ReceiveInv ==
  ASSUME IInv, Kodi!ReceiveReply
  PROVE  IInv'
<1> DEFINE m == toChecker[1]
           d == Kodi!Handle(checker, m)
<1>1. /\ Sound(checker) /\ checker.out = <<>> /\ kodi \in Kodis /\ dropped \in BOOLEAN
      /\ count \in Nat /\ toKodi \in Seq(Requests) /\ toChecker \in Seq(Messages)
      /\ Kodi!Connected /\ kodi.up /\ toChecker # <<>>
  BY DEF IInv, TypeOK, Connection, Sound, Kodi!ReceiveReply
<1>2. m \in Messages /\ Head(toChecker) = m /\ Tail(toChecker) \in Seq(Messages)
  BY <1>1, TailIs
<1>3. /\ Kodi!Becomes(d) /\ toChecker' = Tail(toChecker) /\ UNCHANGED <<kodi, dropped, count>>
  BY <1>2 DEF Kodi!ReceiveReply
<1>4. Handled(checker, m, d)
  BY <1>1, <1>2, Handles
<1> HIDE DEF m, d
<1>5. Sound(d) /\ d.socket = "connected" /\ d.grabs = checker.grabs
  BY <1>1, <1>4 DEF Handled, SameLink, Kodi!Connected
<1>6. /\ Sound(checker') /\ checker'.out = <<>> /\ toKodi' \in Seq(Requests)
      /\ Alike(d, checker') /\ checker'.socket = d.socket /\ toKodi' = toKodi \o d.out
  BY <1>1, <1>3, <1>5, BecomesIs
<1>7. TypeOK' /\ Kodi!Connected' /\ Connection'
  <2>1. TypeOK'
    BY <1>1, <1>2, <1>3, <1>6 DEF TypeOK, Sound
  <2>2. Kodi!Connected' /\ Connection'
    BY <1>1, <1>3, <1>5, <1>6 DEF Kodi!Connected, Connection, Sound
  <2>3. QED
    BY <2>1, <2>2
<1>8. ASSUME ~dropped' PROVE Follows(checker', kodi', toKodi', toChecker')
  <2>1. Follows(checker, kodi, toKodi, toChecker)
    BY <1>1, <1>3, <1>8 DEF IInv
  <2>2. Follows(d, kodi, toKodi \o d.out, Tail(toChecker))
    BY <1>1, <1>4, <2>1, FollowsReceived DEF m
  <2>3. QED
    BY <1>3, <1>6, <2>2, FollowsAlike
<1>9. QED
  BY <1>7, <1>8 DEF IInv

LEMMA UnparsableInv ==
  ASSUME IInv, NEW n \in 1 .. Len(toChecker), Kodi!ReceiveUnparsable(n)
  PROVE  IInv'
<1>1. /\ toChecker' = SubSeq(toChecker, n + 1, Len(toChecker)) /\ dropped' = TRUE
      /\ UNCHANGED <<checker, toKodi, kodi>> /\ count' \in Nat /\ Kodi!Connected
  BY DEF Kodi!ReceiveUnparsable, Kodi!Counts, IInv, TypeOK
<1>2. toChecker \in Seq(Messages) /\ Len(toChecker) \in Nat
  BY LenProperties DEF IInv, TypeOK
<1>3. toChecker' \in Seq(Messages)
  BY <1>1, <1>2, SubSeqProperties, EmptySeq
<1>4. TypeOK'
  BY <1>1, <1>3 DEF TypeOK, IInv
<1>5. Kodi!Connected' /\ Connection'
  BY <1>1 DEF Kodi!Connected, Connection, IInv
<1>6. QED
  BY <1>1, <1>4, <1>5 DEF IInv

LEMMA AnswerInv ==
  ASSUME IInv, Kodi!KodiAnswers
  PROVE  IInv'
<1> DEFINE m == Kodi!Answer(toKodi[1])
<1>1. /\ kodi \in Kodis /\ toKodi \in Seq(Requests) /\ toChecker \in Seq(Messages)
      /\ Kodi!Connected /\ toKodi # <<>> /\ UNCHANGED <<checker, kodi, dropped, count>>
  BY DEF IInv, TypeOK, Kodi!KodiAnswers
<1>2. Head(toKodi) = toKodi[1] /\ toKodi[1] \in Requests /\ Tail(toKodi) \in Seq(Requests)
  BY <1>1, TailIs
<1>3. toKodi' = Tail(toKodi) /\ toChecker' = Append(toChecker, m)
  BY <1>2 DEF Kodi!KodiAnswers
<1>4. Answers(kodi, toKodi[1], m)
  <2>1. CASE toKodi[1] \in {"players", "item"}
    BY <1>1, <2>1 DEF Answers, Kodi!Answer, Messages, Kodis
  <2>2. CASE toKodi[1] = "screensaver"
    BY <1>1, <2>2 DEF Answers, Kodi!Answer, Messages, Kodis
  <2>3. CASE toKodi[1] = "stereo"
    BY <1>1, <2>3 DEF Answers, Kodi!Answer, Messages, Kodis
  <2>4. CASE toKodi[1] = "version"
    BY <1>1, <2>4 DEF Answers, Kodi!Answer, Messages, Kodis
  <2>5. CASE toKodi[1] = "speed"
    BY <1>1, <2>5 DEF Answers, Kodi!Answer, Messages, Kodis
  <2>6. QED
    BY <1>2, <2>1, <2>2, <2>3, <2>4, <2>5 DEF Requests
<1> HIDE DEF m
<1>5. TypeOK'
  <2>1. Append(toChecker, m) \in Seq(Messages)
    BY <1>1, <1>4, AppendIs DEF Answers
  <2>2. QED
    BY <1>1, <1>2, <1>3, <2>1 DEF TypeOK, IInv
<1>6. Kodi!Connected' /\ Connection'
  BY <1>1 DEF Kodi!Connected, Connection, IInv
<1>7. ASSUME ~dropped' PROVE Follows(checker', kodi', toKodi', toChecker')
  BY <1>1, <1>3, <1>4, <1>7, FollowsAnswered DEF IInv
<1>8. QED
  BY <1>5, <1>6, <1>7 DEF IInv

(* What Kodi's player k became, it notifies with r.                        *)
LEMMA NotifiedInv ==
  ASSUME IInv, NEW r \in Seq(Messages), Kodi!Tells(r), kodi' \in Kodis, kodi'.up = kodi.up,
         Announced(kodi, kodi', r), AllStillSo(kodi', r),
         UNCHANGED <<checker, toKodi, dropped>>, count' \in Nat
  PROVE  IInv'
<1>1. toChecker' = IF Kodi!Connected THEN toChecker \o r ELSE toChecker
  BY DEF Kodi!Tells
<1>2. toChecker' \in Seq(Messages)
  BY <1>1, ConcatIs DEF IInv, TypeOK
<1>3. TypeOK'
  BY <1>2 DEF IInv, TypeOK
<1>4. Connection' /\ (Kodi!Connected' <=> Kodi!Connected)
  BY <1>1 DEF IInv, Connection, Kodi!Connected
<1>5. ASSUME Kodi!Connected, ~dropped PROVE Follows(checker, kodi', toKodi, toChecker \o r)
  BY <1>5, FollowsAnnounced DEF IInv, TypeOK
<1>6. QED
  BY <1>1, <1>3, <1>4, <1>5 DEF IInv

LEMMA OneNote ==
  ASSUME NEW method \in Methods
  PROVE  /\ <<Kodi!Note(method)>> \in Seq(Messages) /\ Len(<<Kodi!Note(method)>>) = 1
         /\ <<Kodi!Note(method)>>[1] = Kodi!Note(method)
         /\ Is(Kodi!Note(method), method)
         /\ \A other : Is(Kodi!Note(method), other) => other = method
         /\ Behind(<<Kodi!Note(method)>>, 0, method)
<1>1. Kodi!Note(method) \in Messages /\ Is(Kodi!Note(method), method)
      /\ \A other : Is(Kodi!Note(method), other) => other = method
  BY DEF Kodi!Note, Messages, Is
<1> DEFINE note == Kodi!Note(method)
<1> HIDE DEF note
<1>2. note \in Messages => /\ <<note>> \in Seq(Messages) /\ Len(<<note>>) = 1
                           /\ <<note>>[1] = note
  OBVIOUS
<1>3. note \in Messages /\ Is(note, method) => Behind(<<note>>, 0, method)
  BY <1>2 DEF Behind
<1>4. QED
  BY <1>1, <1>2, <1>3 DEF note

(* A single notification is true as long as nothing else has changed.      *)
LEMMA NoteStillSo ==
  ASSUME NEW k \in Kodis, NEW method \in Methods \ {"OnAdd"},
         method = "OnPlay" => k.playing,
         method = "OnPause" => k.media # "none" /\ ~k.playing,
         method = "OnStop" => k.media = "none",
         method = "ScreensaverActivated" => k.saver
  PROVE  AllStillSo(k, <<Kodi!Note(method)>>)
<1> DEFINE r == <<Kodi!Note(method)>>
<1>1. Len(r) = 1 /\ r[1].id = "notification" /\ \A other : Is(r[1], other) => other = method
  BY OneNote DEF Is
<1> HIDE DEF r
<1>2. StillSo(k, r, 1)
  BY <1>1 DEF StillSo
<1>3. \A i \in 1 .. 1 : i = 1
  OBVIOUS
<1>4. QED
  BY <1>1, <1>2, <1>3 DEF AllStillSo, r

LEMMA PlayerInv ==
  ASSUME IInv,
         \/ \E media \in Kodi!Media, stereo \in StereoModes : Kodi!KodiPlays(media, stereo)
         \/ Kodi!KodiPauses \/ Kodi!KodiStops \/ Kodi!KodiSaver \/ Kodi!KodiInput
  PROVE  IInv'
<1>1. kodi \in Kodis /\ count \in Nat
  BY DEF IInv, TypeOK
<1>2. /\ "OnPlay" \in Methods /\ "OnPause" \in Methods /\ "OnStop" \in Methods
      /\ "OnAdd" \in Methods /\ "OnInputFinished" \in Methods
      /\ "ScreensaverActivated" \in Methods /\ "ScreensaverDeactivated" \in Methods
  BY DEF Methods
<1>3. ASSUME NEW method \in Methods \ {"OnAdd"}, Kodi!Tells(<<Kodi!Note(method)>>), kodi' \in Kodis,
             kodi'.up = kodi.up, Announced(kodi, kodi', <<Kodi!Note(method)>>),
             AllStillSo(kodi', <<Kodi!Note(method)>>),
             UNCHANGED <<checker, toKodi, dropped>>, count' \in Nat
      PROVE  IInv'
  BY <1>3, OneNote, NotifiedInv
<1>4. CASE \E media \in Kodi!Media, stereo \in StereoModes : Kodi!KodiPlays(media, stereo)
  <2>1. PICK media \in Kodi!Media, stereo \in StereoModes : Kodi!KodiPlays(media, stereo)
    BY <1>4
  <2> DEFINE added == IF media = "PHOTO" THEN <<Kodi!Note("OnAdd")>> ELSE <<>>
  <2>2. /\ kodi' = [kodi EXCEPT !.media = media, !.playing = TRUE, !.stereo = stereo]
        /\ Kodi!Tells(added \o <<Kodi!Note("OnPlay")>>)
        /\ UNCHANGED <<checker, toKodi, dropped>> /\ count' \in Nat
    <3>1. /\ Kodi!Tells(added \o <<Kodi!Note("OnPlay")>>) /\ Kodi!PlayerChanges
          /\ kodi' = [kodi EXCEPT !.media = media, !.playing = TRUE, !.stereo = stereo]
          /\ UNCHANGED <<checker, toKodi, dropped>>
      BY <2>1, Zenon DEF Kodi!KodiPlays
    <3> HIDE DEF added
    <3>2. QED
      BY <1>1, <3>1 DEF Kodi!PlayerChanges, Kodi!Counts
  <2>3. kodi' \in Kodis /\ kodi'.up = kodi.up /\ kodi'.playing /\ kodi'.saver = kodi.saver
    BY <1>1, <2>2 DEF Kodis, Shows, Stereos, Kodi!Media
  <2>4. AllStillSo(kodi', <<Kodi!Note("OnPlay")>>)
    BY <1>2, <2>3, NoteStillSo
  <2>5. <<Kodi!Note("OnPlay")>> \in Seq(Messages) /\ Behind(<<Kodi!Note("OnPlay")>>, 0, "OnPlay")
        /\ <<Kodi!Note("OnAdd")>> \in Seq(Messages)
    BY <1>2, OneNote
  <2>6. CASE media # "PHOTO"
    <3>1. <<>> \o <<Kodi!Note("OnPlay")>> = <<Kodi!Note("OnPlay")>>
      BY <2>5, ConcatEmptySeq
    <3>2. Announced(kodi, kodi', <<Kodi!Note("OnPlay")>>)
      BY <2>3, <2>5 DEF Announced
    <3>3. Kodi!Tells(<<Kodi!Note("OnPlay")>>)
      BY <2>2, <2>6, <3>1
    <3>4. QED
      BY <2>2, <2>3, <2>4, <2>5, <3>2, <3>3, NotifiedInv
  <2>7. CASE media = "PHOTO"
    <3> DEFINE add  == <<Kodi!Note("OnAdd")>>
               play == <<Kodi!Note("OnPlay")>>
               r    == add \o play
    <3>1. Kodi!Tells(r)
      BY <2>2, <2>7
    <3>2. /\ Len(add) = 1 /\ Len(play) = 1 /\ add[1] = Kodi!Note("OnAdd")
              /\ play[1] = Kodi!Note("OnPlay")
          /\ \A other : Is(add[1], other) => other = "OnAdd"
          /\ \A other : Is(play[1], other) => other = "OnPlay"
          /\ Is(play[1], "OnPlay")
          /\ add[1].id = "notification" /\ play[1].id = "notification"
      BY <1>2, OneNote DEF Kodi!Note
    <3>3. add \in Seq(Messages) /\ play \in Seq(Messages)
      BY <2>5
    <3> HIDE DEF add, play
    <3>4. r \in Seq(Messages) /\ Len(r) = 2 /\ r[1] = add[1] /\ r[2] = play[1]
      <4>1. /\ r \in Seq(Messages) /\ Len(r) = Len(add) + Len(play)
            /\ \A i \in 1 .. Len(add) : r[i] = add[i]
            /\ \A i \in 1 .. Len(play) : r[Len(add) + i] = play[i]
        BY <3>3, ConcatIs
      <4>2. QED
        BY <3>2, <4>1
    <3> HIDE DEF r
    <3>5. Behind(r, 0, "OnPlay") /\ Behind(r, 1, "OnPlay")
      BY <3>2, <3>4 DEF Behind
    <3>6. AllStillSo(kodi', r)
      <4>1. StillSo(kodi', r, 1)
        BY <3>2, <3>4, <3>5 DEF StillSo
      <4>2. StillSo(kodi', r, 2)
        BY <2>3, <3>2, <3>4 DEF StillSo
      <4>3. QED
        BY <3>4, <4>1, <4>2 DEF AllStillSo
    <3>7. Announced(kodi, kodi', r)
      BY <2>3, <3>5 DEF Announced
    <3>8. QED
      BY <2>2, <2>3, <3>1, <3>4, <3>6, <3>7, NotifiedInv
  <2>8. QED
    BY <2>6, <2>7
<1>5. CASE Kodi!KodiPauses
  <2>1. /\ kodi' = [kodi EXCEPT !.playing = FALSE] /\ Kodi!Tells(<<Kodi!Note("OnPause")>>)
        /\ UNCHANGED <<checker, toKodi, dropped>> /\ count' \in Nat /\ kodi.playing
    BY <1>1, <1>5 DEF Kodi!KodiPauses, Kodi!PlayerChanges, Kodi!Counts
  <2>2. /\ kodi' \in Kodis /\ kodi'.up = kodi.up /\ kodi'.media = kodi.media
        /\ kodi.media # "none" /\ ~kodi'.playing /\ kodi'.saver = kodi.saver
    BY <1>1, <2>1 DEF Kodis
  <2>3. Announced(kodi, kodi', <<Kodi!Note("OnPause")>>)
    BY <1>2, <2>2, OneNote DEF Announced
  <2>4. AllStillSo(kodi', <<Kodi!Note("OnPause")>>)
    BY <1>2, <2>2, NoteStillSo
  <2>5. QED
    BY <1>2, <1>3, <2>1, <2>2, <2>3, <2>4
<1>6. CASE Kodi!KodiStops
  <2>1. /\ kodi' = [kodi EXCEPT !.media = "none", !.playing = FALSE, !.stereo = "2D"]
        /\ Kodi!Tells(<<Kodi!Note("OnStop")>>)
        /\ UNCHANGED <<checker, toKodi, dropped>> /\ count' \in Nat
    BY <1>1, <1>6 DEF Kodi!KodiStops, Kodi!PlayerChanges, Kodi!Counts
  <2>2. /\ kodi' \in Kodis /\ kodi'.up = kodi.up /\ kodi'.media = "none"
        /\ kodi'.saver = kodi.saver
    BY <1>1, <2>1 DEF Kodis, Shows, Stereos
  <2>3. Announced(kodi, kodi', <<Kodi!Note("OnStop")>>)
    BY <1>2, <2>2, OneNote DEF Announced
  <2>4. AllStillSo(kodi', <<Kodi!Note("OnStop")>>)
    BY <1>2, <2>2, NoteStillSo
  <2>5. QED
    BY <1>2, <1>3, <2>1, <2>2, <2>3, <2>4
<1>7. CASE Kodi!KodiSaver
  <2> DEFINE method == IF kodi.saver THEN "ScreensaverDeactivated" ELSE "ScreensaverActivated"
  <2>1. /\ kodi' = [kodi EXCEPT !.saver = ~@] /\ Kodi!Tells(<<Kodi!Note(method)>>)
        /\ UNCHANGED <<checker, toKodi, dropped>> /\ count' \in Nat
    BY <1>1, <1>7 DEF Kodi!KodiSaver, Kodi!Counts
  <2>2. /\ kodi' \in Kodis /\ kodi'.up = kodi.up /\ kodi'.media = kodi.media
        /\ kodi'.playing = kodi.playing /\ kodi'.saver = ~kodi.saver
    BY <1>1, <2>1 DEF Kodis
  <2>3. /\ method \in Methods \ {"OnAdd", "OnPlay", "OnPause", "OnStop"}
        /\ kodi.saver => method = "ScreensaverDeactivated"
        /\ method = "ScreensaverActivated" => ~kodi.saver
    BY <1>2
  <2> HIDE DEF method
  <2>4. Announced(kodi, kodi', <<Kodi!Note(method)>>)
    BY <2>2, <2>3, OneNote DEF Announced
  <2>5. AllStillSo(kodi', <<Kodi!Note(method)>>)
    BY <2>2, <2>3, NoteStillSo
  <2>6. QED
    BY <1>3, <2>1, <2>2, <2>3, <2>4, <2>5
<1>8. CASE Kodi!KodiInput
  <2>1. /\ kodi' = kodi /\ Kodi!Tells(<<Kodi!Note("OnInputFinished")>>)
        /\ UNCHANGED <<checker, toKodi, dropped>> /\ count' \in Nat
    BY <1>1, <1>8 DEF Kodi!KodiInput, Kodi!PlayerChanges, Kodi!Counts
  <2>2. Announced(kodi, kodi', <<Kodi!Note("OnInputFinished")>>)
    BY <2>1 DEF Announced
  <2>3. AllStillSo(kodi', <<Kodi!Note("OnInputFinished")>>)
    BY <1>1, <1>2, <2>1, NoteStillSo
  <2>4. QED
    BY <1>1, <1>2, <1>3, <2>1, <2>2, <2>3
<1>9. QED
  BY <1>4, <1>5, <1>6, <1>7, <1>8

LEMMA StepInv == IInv /\ [Kodi!Next]_(Kodi!vars) => IInv'
<1> SUFFICES ASSUME IInv, [Kodi!Next]_(Kodi!vars) PROVE IInv'
  OBVIOUS
<1>1. CASE UNCHANGED Kodi!vars
  BY <1>1 DEF Kodi!vars, IInv, TypeOK, Connection, Kodi!Connected
<1>2. CASE Kodi!Next
  BY <1>2, ConnectionInv, ReceiveInv, UnparsableInv, AnswerInv, PlayerInv DEF Kodi!Next
<1>3. QED
  BY <1>1, <1>2

(* The inductive invariant holds in every behaviour.                       *)
THEOREM CheckerInv == Kodi!Spec => []IInv
BY KodiInitInv, StepInv, PTL DEF Kodi!Spec

(* However the messages of several seconds have crossed on their way, the  *)
(* checker ends with the grabbing mode for what Kodi does: Quiet with a    *)
(* checker that has learnt whether Kodi plays implies it, since nothing is *)
(* left that will ask, tell or decide.                                     *)
THEOREM CheckerFollowsKodi == Kodi!Spec => []Kodi!GrabbingModeFollowsKodi
<1>1. IInv => Kodi!GrabbingModeFollowsKodi
  <2>1. SUFFICES ASSUME IInv, Kodi!Quiet, checker.initialized, ~kodi.saver
                 PROVE  checker.grabbed = Kodi!Wanted(checker,
                            CASE kodi.media = "none" -> "MENU"
                              [] kodi.media # "none" /\ kodi.playing  -> kodi.media
                              [] kodi.media # "none" /\ ~kodi.playing -> "PAUSE")
    BY DEF Kodi!GrabbingModeFollowsKodi
  <2>2. Len(toKodi) = 0 /\ Len(toChecker) = 0 /\ Kodi!Connected /\ ~dropped
    BY <2>1, EmptySeq DEF Kodi!Quiet
  <2>3. ~WillBeTold(kodi, toKodi, toChecker)
    BY <2>2 DEF WillBeTold, WillAsk, Has
  <2>4. checker.grabbed = Kodi!Wanted(checker, Right(kodi))
    BY <2>1, <2>2, <2>3 DEF IInv, Follows, ModeFollows
  <2>5. QED
    BY <2>4 DEF Right
<1>2. QED
  BY <1>1, CheckerInv, PTL
===============================================================================
