------------------------------ MODULE ImageScale ------------------------------
(***************************************************************************)
(* Image: the size that the pages print for a product's picture.  The      *)
(* constructor looks the file up, and the two methods scale what           *)
(* getimagesize() said to a maximum.                                       *)
(*                                                                         *)
(* file_exists() also holds for a file that is no picture, and for the     *)
(* directory that the path of a product without an image ends in: then     *)
(* getimagesize() is false, while $path is set and the methods divide.     *)
(*                                                                         *)
(* A quotient is compared by cross multiplication.  The code computes it   *)
(* in floating point, and PHP's round() takes a value next to a half for   *)
(* that half, so the rounding is that of the exact quotient.               *)
(***************************************************************************)
EXTENDS Integers

CONSTANTS
    MaxSide,    \* bound: pixels of a picture's side
    MaxDim      \* the maximum the pages ask for, 150 in the code

ASSUME ImageScaleAssumption == MaxSide \in Nat /\ MaxDim \in Nat

Pictures == (0 .. MaxSide) \X (0 .. MaxSide)
Calls    == {"scaleDimensions", "scaleWidth"}

\* A path where nothing is, and one where something is that is no picture.
Missing    == <<>>
NotPicture == <<"not a picture">>

Null   == <<>>
Thrown == <<"DivisionByZeroError">>

VARIABLES
    file,       \* what is at the path on the disk: the sides of a picture, or none
    path,       \* is $path still set?
    imageInfo,  \* the sides in the field of that name, Null for null and false
    call,       \* the method called, "new" before, "none" between
    outputDim   \* what it returned, or that it ended the script

imageVars == <<file, path, imageInfo, call, outputDim>>

ImageInit ==
    /\ file \in Pictures \cup {Missing, NotPicture}
    /\ path = TRUE
    /\ imageInfo = Null
    /\ call = "new"
    /\ outputDim = Null

\* The constructor.
ConstructImage ==
    /\ call = "new"
    /\ path' = (file # Missing)
    /\ imageInfo' = IF file \in Pictures THEN file ELSE Null
    /\ call' = "none"
    /\ UNCHANGED <<file, outputDim>>

\* Mutant of Round: the fraction is cut off.
RoundDown(a, b) == a \div b

\* round($a / $b, 0, PHP_ROUND_HALF_UP)
Round(a, b) == (2 * a + b) \div (2 * b)

\* An offset of null or false is null, which compares and divides as 0.
Width  == IF imageInfo = Null THEN 0 ELSE imageInfo[1]
Height == IF imageInfo = Null THEN 0 ELSE imageInfo[2]
Longer == IF Width >= Height THEN Width ELSE Height

Called(method, dim) ==
    /\ call = "none" /\ call' = method
    /\ outputDim' = dim
    /\ UNCHANGED <<file, path, imageInfo>>

\* Without a file the last statement compares with null where it means to
\* assign it.
ScaleDimensions ==
    \/ ~ path /\ Called("scaleDimensions", <<MaxDim, MaxDim>>)
    \/ /\ path /\ Longer # 0
       /\ Called("scaleDimensions",
                 IF Width >= Height THEN <<MaxDim, Round(Height * MaxDim, Width)>>
                                    ELSE <<Round(Width * MaxDim, Height), MaxDim>>)

ScaleWidth ==
    \/ ~ path /\ Called("scaleWidth", Null)
    \/ /\ path /\ Width # 0
       /\ Called("scaleWidth", <<MaxDim, Round(Height * MaxDim, Width)>>)

\* $maxDim / 0: the error ends the script.
DivideByZero ==
    /\ path
    /\ \/ Longer = 0 /\ Called("scaleDimensions", Thrown)
       \/ Width = 0 /\ Called("scaleWidth", Thrown)

\* The page shows the size, or ends; no page asks for another.
Shown == call \in Calls /\ UNCHANGED imageVars

ImageNext == \/ ConstructImage
             \/ ScaleDimensions
             \/ ScaleWidth
             \/ DivideByZero
             \/ Shown

ImageSpec == ImageInit /\ [][ImageNext]_imageVars
-----------------------------------------------------------------------------
(* Correctness.                                                            *)

\* How far a size is from the proportions of the picture.
Skew(d) == LET x == d[1] * file[2] - d[2] * file[1] IN IF x < 0 THEN -x ELSE x

\* The side that a method computes; the other is at the maximum.
Computed == IF call = "scaleWidth" \/ file[1] >= file[2] THEN 2 ELSE 1

\* A file that the method has a size for: a picture that is not empty, and for
\* scaleWidth() one with a width.
Scalable ==
    /\ file \in Pictures
    /\ file[1] > 0 \/ (call = "scaleDimensions" /\ file[2] > 0)

\* Of the sizes with the same side at the maximum, the one returned for a picture
\* is closest to its proportions; whatever else is found at the path ends the
\* page, and a path with nothing ends none.
ClosestProportions ==
    call \in Calls =>
        /\ outputDim = Thrown <=> file # Missing /\ ~ Scalable
        /\ Scalable =>
              \A e \in {-1, 1} :
                 Skew(outputDim) <= Skew([outputDim EXCEPT ![Computed] = @ + e])
-----------------------------------------------------------------------------
(* The inductive invariant.                                                *)

\* The side next to the one at the maximum is the quotient, rounded.
SizeIsRounded ==
    LET w == file[1]  h == file[2] IN
    outputDim = IF Computed = 2 THEN <<MaxDim, Round(h * MaxDim, w)>>
                                ELSE <<Round(w * MaxDim, h), MaxDim>>

\* An object that has been made has the sides of the picture on the disk, and
\* what it returns is made of them.
ImageInv ==
    /\ file \in Pictures \cup {Missing, NotPicture}
    /\ call \in Calls \cup {"new", "none"}
    /\ call # "new" =>
          /\ path <=> file # Missing
          /\ imageInfo = IF file \in Pictures THEN file ELSE Null
    /\ call \in Calls =>
          /\ file = Missing => outputDim \in {Null, <<MaxDim, MaxDim>>}
          /\ file # Missing /\ ~ Scalable => outputDim = Thrown
          /\ Scalable => SizeIsRounded
=============================================================================
