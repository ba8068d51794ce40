-------------------------- MODULE VideoResolutions --------------------------
(***************************************************************************)
(* The video configurations the head unit offers to the phone, computed    *)
(* once from the size and density of the display and from the list of the  *)
(* resolutions, codecs and frame rates that are configured.  The phone     *)
(* picks one by its index.                                                 *)
(*                                                                         *)
(* Each configuration draws the display into a corner of the video: the    *)
(* margins to the right and at the bottom are not shown.  The floating     *)
(* point ratio of the code is a pair of integers here; what it is used for *)
(* is rounded to an integer in the end.                                    *)
(***************************************************************************)
EXTENDS Integers, Sequences, SequencesExt

\* Sizes, of a display or of a resolution, are pairs <<width, height>>.
Landscape == {<<800, 480>>, <<1280, 720>>, <<1920, 1080>>, <<2560, 1440>>,
              <<3840, 2160>>}
Portrait == {<<720, 1280>>, <<1080, 1920>>, <<1440, 2560>>, <<2160, 3840>>}
Resolutions == Landscape \cup Portrait

NoResolution == <<0, 0>>

\* The elements of s that are in S.
Kept(s, S) ==
    FoldLeft(LAMBDA kept, x : IF x \in S THEN Append(kept, x) ELSE kept, <<>>, s)

\* A resolution config is [resolution, format]; format stands for the codec
\* and the frame rate.  Each resolution is tried once.
SupportedResolutions(configs) ==
    FoldLeft(LAMBDA rs, c : IF Contains(rs, c.resolution) THEN rs
                            ELSE Append(rs, c.resolution),
             <<>>, configs)

CanFit(display, r) == r[1] >= display[1] /\ r[2] >= display[2]

\* Mutant: one that is smaller in one dimension is taken for smaller.
IsSmaller_Either(r, than) == r[1] < than[1] \/ r[2] < than[2]

IsSmaller(r, than) == r[1] <= than[1] /\ r[2] <= than[2] /\ r # than

BestResolution(display, rs) ==
    FoldLeft(LAMBDA best, r :
                 IF /\ CanFit(display, r)
                    /\ best = NoResolution \/ IsSmaller(r, best)
                 THEN r ELSE best,
             NoResolution, rs)

SmallerResolutions(best, rs) ==
    Kept(rs, {r \in ToSet(rs) : best = NoResolution \/ IsSmaller(r, best)})

\* The ratio of the display to the video, <<numerator, denominator>>: the
\* larger one of the two sides', so that the video covers the display.
Ratio(r, display, cover) ==
    IF cover THEN <<1, 1>>
    ELSE IF display[1] * r[2] >= display[2] * r[1] THEN <<display[1], r[1]>>
                                                  ELSE <<display[2], r[2]>>

Round(n, d) == (2 * n + d) \div (2 * d)
Margin(side, shown, ratio) ==
    Round(side * ratio[1] - shown * ratio[2], ratio[1])

Offered(r, display, density, configs, cover) ==
    LET ratio == Ratio(r, display, cover)
        Config(c) == [resolution |-> r, format |-> c.format,
                      density |-> Round(density * ratio[2], ratio[1]),
                      right |-> Margin(r[1], display[1], ratio),
                      bottom |-> Margin(r[2], display[2], ratio)]
        own == Kept(configs, {c \in ToSet(configs) : c.resolution = r})
    IN  [i \in DOMAIN own |-> Config(own[i])]

\* The best resolution, of which the display covers a part as it is, comes
\* first; those that are smaller are scaled.
VideoConfigs(display, density, configs) ==
    LET rs == SupportedResolutions(configs)
        best == BestResolution(display, rs)
        smaller == SmallerResolutions(best, rs)
    IN  (IF best = NoResolution THEN <<>>
         ELSE Offered(best, display, density, configs, TRUE))
        \o FlattenSeq([i \in DOMAIN smaller |->
               Offered(smaller[i], display, density, configs, FALSE)])

-----------------------------------------------------------------------------
(* Correctness *)

Abs(n) == IF n >= 0 THEN n ELSE -n

\* What a configuration shows lies within the video and has the shape of the
\* display to the pixel, of the one that is not scaled its very size; and its
\* density keeps sizes what they are.
Shows(c, display, density, cover) ==
    LET width == c.resolution[1] - c.right
        height == c.resolution[2] - c.bottom
    IN  /\ c.right >= 0 /\ c.bottom >= 0
        /\ width > 0 /\ height > 0
        /\ 2 * Abs(width * density - display[1] * c.density) <= density + display[1]
        /\ IF cover THEN <<width, height>> = display
           ELSE 2 * Abs(width * display[2] - height * display[1])
                    <= display[1] + display[2]

\* The configured resolutions that hold the display.
Fitting(display, configs) ==
    {c.resolution : c \in {c \in ToSet(configs) : CanFit(display, c.resolution)}}

\* One resolution is within the other.
Within(r, s) == r[1] <= s[1] /\ r[2] <= s[2] /\ r # s

\* The resolution best holds the display, if any does, and no other that does
\* is within it.  Of two such that are not within each other the code takes the
\* one that is configured first; either will do.
LeastFit(best, fits) == fits # {} => best \in fits /\ ~\E r \in fits : Within(r, best)

\* Offered are best and those within it, in every format they are configured
\* with; all of them if none holds the display.
OffersUpTo(best, fits, configs, offered) ==
    {[resolution |-> c.resolution, format |-> c.format] : c \in ToSet(offered)}
      = {c \in ToSet(configs) :
            fits = {} \/ c.resolution = best \/ Within(c.resolution, best)}

\* Each of them shows what it should, which of best is the display's very size.
AllShow(best, fits, display, density, offered) ==
    \A c \in ToSet(offered) :
        Shows(c, display, density, fits # {} /\ c.resolution = best)

\* The phone is offered first a configured resolution that is at least as large
\* as the display and has no other such within it, in every format it is configured with,
\* then those that are smaller, never nothing and none twice that is not
\* configured twice; and each of them shows what it should.
ConfigsFit(display, density, configs, offered) ==
    LET fits == Fitting(display, configs)
        best == offered[1].resolution
    IN  /\ offered # <<>>
        /\ IsInjective(configs) => IsInjective(offered)
        /\ LeastFit(best, fits)
        /\ OffersUpTo(best, fits, configs, offered)
        /\ AllShow(best, fits, display, density, offered)

=============================================================================
