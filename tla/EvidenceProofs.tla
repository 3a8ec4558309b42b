--------------------------- MODULE EvidenceProofs ---------------------------
(***************************************************************************)
(* Proofs about Sdp and Fingerprints: what the parser of descriptions      *)
(* finds in any description, and on what the vendor of any evidence rests. *)
(***************************************************************************)
EXTENDS Sdp, Fingerprints, WellFoundedInduction, TLAPS

-----------------------------------------------------------------------------
(* Induction                                                               *)

Before == {p \in Nat \X Nat : p[1] < p[2]}

LEMMA BeforeIsWellFounded == IsWellFoundedOn(Before, Nat)
  BY NatLessThanWellFounded, Zenon DEF OpToRel, Before

LEMMA Least ==
    ASSUME NEW S, S \subseteq Nat, S # {}
    PROVE  \E n \in S : \A m \in S : n <= m
  <1>1. PICK n \in S : \A m \in S : ~(<<m, n>> \in Before)
    BY BeforeIsWellFounded, WFMin, Zenon
  <1>2. \A m \in S : ~(m < n)
    BY <1>1 DEF Before
  <1> QED
    BY <1>2

LEMMA Induction ==
    ASSUME NEW S, 0 \in S, \A n \in Nat : n \in S => n + 1 \in S
    PROVE  Nat \subseteq S
  <1> SUFFICES ASSUME Nat \ S # {} PROVE FALSE
    OBVIOUS
  <1>1. PICK n \in Nat \ S : \A m \in Nat \ S : n <= m
    <2>1. Nat \ S \subseteq Nat
      OBVIOUS
    <2> QED
      BY <2>1, Least
  <1>2. n # 0 /\ n - 1 \in Nat /\ n - 1 \notin Nat \ S
    BY <1>1
  <1> QED
    BY <1>2

-----------------------------------------------------------------------------
(* Descriptions                                                            *)

\* A line of a description or of the headers around it.
HeadWord == {"application/sdp", "401", "digest", "basic", "blank", "body", "none"}
About == AboutA \cup AboutM \cup {"any"} \cup HeadWord
Text == [key : {"a", "m", "s", "o", "other", "head"}, about : About]

Hint == {"dahua", "hikvision"}
Media == [type : About, control : BOOLEAN, codec : BOOLEAN, resolution : BOOLEAN,
          hints : SUBSET Hint]
Parsed == [session : [s : BOOLEAN, o : BOOLEAN, tool : BOOLEAN, hints : SUBSET Hint],
           media : Seq(Media)]

\* What a line adds to the markers.
Adds(inSection, line) ==
    IF line.key # "a" THEN {}
    ELSE IF inSection THEN MediaHints(line) ELSE SessionHints(line)

LEMMA HintsAreHints ==
    ASSUME NEW line
    PROVE  MediaHints(line) \subseteq Hint /\ SessionHints(line) \subseteq Hint
  BY DEF MediaHints, SessionHints, Hint

LEMMA ParseLineStep ==
    ASSUME NEW p \in Parsed, NEW line \in Text
    PROVE  /\ ParseLine(p, line) \in Parsed
           /\ ParseLine(p, line).media = <<>> <=> p.media = <<>> /\ ~GoodM(line)
           /\ Markers(ParseLine(p, line)) = Markers(p) \cup Adds(p.media # <<>>, line)
  <1> DEFINE q == ParseLine(p, line)
  <1>0. p.media \in Seq(Media)
    BY DEF Parsed
  <1>1. CASE GoodM(line)
    <2>1. q = [p EXCEPT !.media = Append(@, NewMedia(line.about))]
      BY <1>1 DEF ParseLine, GoodM
    <2>2. NewMedia(line.about) \in Media /\ NewMedia(line.about).hints = {}
      BY DEF NewMedia, Media, Text
    <2>3. /\ q \in Parsed /\ q.session = p.session
          /\ q.media = Append(p.media, NewMedia(line.about))
      <3>1. Append(p.media, NewMedia(line.about)) \in Seq(Media)
        BY <1>0, <2>2
      <3>2. q = [session |-> p.session, media |-> Append(p.media, NewMedia(line.about))]
        BY <2>1 DEF Parsed
      <3> QED
        BY <3>1, <3>2 DEF Parsed
    <2>4. DOMAIN q.media = DOMAIN p.media \cup {Len(p.media) + 1}
      BY <1>0, <2>3
    <2>5. /\ \A i \in DOMAIN p.media : q.media[i] = p.media[i]
          /\ q.media[Len(p.media) + 1].hints = {}
      BY <1>0, <2>2, <2>3
    <2>6. Markers(q) = Markers(p)
      BY <2>3, <2>4, <2>5 DEF Markers
    <2>7. q.media # <<>>
      BY <1>0, <2>3
    <2> QED
      BY <1>1, <2>3, <2>6, <2>7 DEF Adds, GoodM
  <1>2. CASE ~GoodM(line) /\ p.media = <<>> /\ line.key # "m"
    <2>1. q = InSession(p, line)
      BY <1>2 DEF ParseLine
    <2>2. /\ q \in Parsed /\ q.media = p.media
          /\ q.session.hints = p.session.hints \cup Adds(FALSE, line)
      <3>1. CASE line.key = "a"
        <4> DEFINE x == [p.session EXCEPT !.tool = @ \/ line.about = "tool",
                                         !.hints = @ \cup SessionHints(line)]
        <4>1. q = [session |-> x, media |-> p.media]
          BY <2>1, <3>1 DEF InSession, Parsed
        <4>2. /\ x \in [s : BOOLEAN, o : BOOLEAN, tool : BOOLEAN, hints : SUBSET Hint]
              /\ x.hints = p.session.hints \cup SessionHints(line)
          BY HintsAreHints DEF Parsed
        <4> HIDE DEF x
        <4>3. q \in Parsed /\ q.media = p.media /\ q.session = x
          BY <1>0, <4>1, <4>2 DEF Parsed
        <4> QED
          BY <3>1, <4>2, <4>3 DEF Adds
      <3>2. CASE line.key \in {"s", "o"}
        <4> DEFINE x == IF line.key = "s" THEN [p.session EXCEPT !.s = TRUE]
                        ELSE [p.session EXCEPT !.o = TRUE]
        <4>1. q = [session |-> x, media |-> p.media]
          BY <2>1, <3>2 DEF InSession, Parsed
        <4>2. /\ x \in [s : BOOLEAN, o : BOOLEAN, tool : BOOLEAN, hints : SUBSET Hint]
              /\ x.hints = p.session.hints
          BY DEF Parsed
        <4> HIDE DEF x
        <4>3. q \in Parsed /\ q.media = p.media /\ q.session = x
          BY <1>0, <4>1, <4>2 DEF Parsed
        <4> QED
          BY <3>2, <4>2, <4>3 DEF Adds
      <3>3. CASE line.key \notin {"a", "s", "o"}
        <4>1. q = p
          BY <2>1, <3>3 DEF InSession
        <4> QED
          BY <3>3, <4>1 DEF Adds
      <3> QED
        BY <3>1, <3>2, <3>3
    <2>3. Markers(q) = Markers(p) \cup Adds(FALSE, line)
      BY <2>2 DEF Markers
    <2> QED
      BY <1>2, <2>2, <2>3
  <1>3. CASE ~GoodM(line) /\ p.media # <<>> /\ line.key = "a"
    <2> DEFINE n == Len(p.media)
               last == [p.media[n] EXCEPT
                          !.control = @ \/ line.about = "control",
                          !.codec = @ \/ line.about = "rtpmap",
                          !.resolution = @ \/ line.about = "dimensions",
                          !.hints = @ \cup MediaHints(line)]
    <2>1. q = [p EXCEPT !.media[n] = last]
      BY <1>3 DEF ParseLine, InMedia
    <2>2. n \in DOMAIN p.media /\ p.media[n] \in Media
      BY <1>0, <1>3
    <2>3. last \in Media /\ last.hints = p.media[n].hints \cup MediaHints(line)
      BY <2>2, HintsAreHints DEF Media
    <2> HIDE DEF last
    <2>4. /\ q.session = p.session /\ q.media = [p.media EXCEPT ![n] = last]
          /\ DOMAIN q = DOMAIN p /\ q = [session |-> q.session, media |-> q.media]
      BY <2>1 DEF Parsed
    <2>5. q.media \in Seq(Media) /\ DOMAIN q.media = DOMAIN p.media
      BY <1>0, <2>2, <2>3, <2>4
    <2>6. q \in Parsed
      BY <2>4, <2>5 DEF Parsed
    <2>7. /\ q.media[n].hints = p.media[n].hints \cup MediaHints(line)
          /\ \A i \in DOMAIN p.media \ {n} : q.media[i] = p.media[i]
      BY <1>0, <2>2, <2>3, <2>4
    <2>8. Markers(q) = Markers(p) \cup MediaHints(line)
      BY <2>2, <2>4, <2>5, <2>7 DEF Markers
    <2>9. q.media # <<>>
      BY <2>2, <2>5
    <2> QED
      BY <1>3, <2>6, <2>8, <2>9 DEF Adds
  <1>4. CASE ~GoodM(line) /\ (line.key = "m" \/ (p.media # <<>> /\ line.key # "a"))
    <2>1. q = p
      BY <1>4 DEF ParseLine, GoodM
    <2> QED
      BY <1>4, <2>1 DEF Adds
  <1> QED
    BY <1>1, <1>2, <1>3, <1>4

\* The function that ParseSdp defines by recursion is there.
LEMMA ParsingExists ==
    ASSUME NEW lines, NEW len \in Nat
    PROVE  \E f : f = [i \in 0 .. len |->
                          IF i = 0 THEN Nothing ELSE ParseLine(f[i-1], lines[i])]
  <1> DEFINE Parses(f, n) ==
                f = [i \in 0 .. n |-> IF i = 0 THEN Nothing ELSE ParseLine(f[i-1], lines[i])]
             S == {n \in Nat : \E f : Parses(f, n)}
  <1>1. 0 \in S
    <2>1. Parses([i \in 0 .. 0 |-> Nothing], 0)
      OBVIOUS
    <2> QED
      BY <2>1
  <1>2. ASSUME NEW n \in Nat, n \in S PROVE n + 1 \in S
    <2>1. PICK f : Parses(f, n)
      BY <1>2
    <2> DEFINE g == [i \in 0 .. n + 1 |-> IF i = n + 1 THEN ParseLine(f[n], lines[n + 1]) ELSE f[i]]
    <2>2. ASSUME NEW i \in 0 .. n + 1
          PROVE  g[i] = IF i = 0 THEN Nothing ELSE ParseLine(g[i-1], lines[i])
      <3>1. CASE i = n + 1
        <4>1. g[i] = ParseLine(f[n], lines[n + 1]) /\ i # 0
          BY <3>1
        <4>2. i - 1 = n /\ n \in 0 .. n + 1 /\ n # n + 1
          BY <3>1
        <4>3. g[i - 1] = f[n]
          BY <4>2
        <4> HIDE DEF g
        <4> QED
          BY <3>1, <4>1, <4>3
      <3>2. CASE i # n + 1
        <4>1. i \in 0 .. n /\ g[i] = f[i]
          BY <3>2
        <4>2. f[i] = IF i = 0 THEN Nothing ELSE ParseLine(f[i-1], lines[i])
          BY <2>1, <4>1
        <4>3. i # 0 => g[i - 1] = f[i - 1]
          BY <4>1
        <4> HIDE DEF g, Parses
        <4> QED
          BY <4>1, <4>2, <4>3
      <3> QED
        BY <3>1, <3>2
    <2>3. Parses(g, n + 1)
      BY <2>2
    <2> HIDE DEF g, Parses
    <2> QED
      BY <2>3
  <1> HIDE DEF S
  <1>3. len \in S
    BY <1>1, <1>2, Induction
  <1> QED
    BY <1>3 DEF S

\* What the parser has found after the first n lines.
SaysBefore(lines, n) ==
    UNION {Adds(InSection(lines, i), lines[i]) : i \in 1 .. n}

LEMMA Parsing ==
    ASSUME NEW lines \in Seq(Text),
           NEW f, f = [i \in 0 .. Len(lines) |->
                          IF i = 0 THEN Nothing ELSE ParseLine(f[i-1], lines[i])],
           NEW n \in 0 .. Len(lines)
    PROVE  /\ f[n] \in Parsed
           /\ f[n].media # <<>> <=> InSection(lines, n + 1)
           /\ Markers(f[n]) = SaysBefore(lines, n)
  <1> DEFINE Right(k) == /\ f[k] \in Parsed
                         /\ f[k].media # <<>> <=> InSection(lines, k + 1)
                         /\ Markers(f[k]) = SaysBefore(lines, k)
             S == {k \in Nat : k <= Len(lines) => Right(k)}
  <1>1. 0 \in S
    <2>1. f[0] = Nothing
      OBVIOUS
    <2>2. Nothing \in Parsed /\ Nothing.media = <<>> /\ Markers(Nothing) = {}
      BY DEF Nothing, Outside, Parsed, Markers
    <2>3. ~InSection(lines, 0 + 1) /\ SaysBefore(lines, 0) = {}
      BY DEF InSection, SaysBefore
    <2> QED
      BY <2>1, <2>2, <2>3
  <1>2. ASSUME NEW k \in Nat, k \in S PROVE k + 1 \in S
    <2> SUFFICES ASSUME k + 1 <= Len(lines) PROVE Right(k + 1)
      OBVIOUS
    <2>1. Right(k) /\ k + 1 \in 0 .. Len(lines) /\ lines[k + 1] \in Text
      BY <1>2
    <2>2. f[k + 1] = ParseLine(f[k], lines[k + 1])
      BY <2>1
    <2>3. InSection(lines, k + 1 + 1) <=> InSection(lines, k + 1) \/ GoodM(lines[k + 1])
      BY DEF InSection
    <2>4. SaysBefore(lines, k + 1) =
             SaysBefore(lines, k) \cup Adds(InSection(lines, k + 1), lines[k + 1])
      <3>1. 1 .. (k + 1) = (1 .. k) \cup {k + 1}
        OBVIOUS
      <3> QED
        BY <3>1 DEF SaysBefore
    <2>5. Adds(f[k].media # <<>>, lines[k + 1]) = Adds(InSection(lines, k + 1), lines[k + 1])
      BY <2>1 DEF Adds
    <2>6. /\ f[k + 1] \in Parsed
          /\ f[k + 1].media = <<>> <=> f[k].media = <<>> /\ ~GoodM(lines[k + 1])
          /\ Markers(f[k + 1]) = Markers(f[k]) \cup Adds(f[k].media # <<>>, lines[k + 1])
      BY <2>1, <2>2, ParseLineStep
    <2>7. Markers(f[k + 1]) = SaysBefore(lines, k + 1)
      BY <2>1, <2>4, <2>5, <2>6
    <2> QED
      BY <2>1, <2>3, <2>6, <2>7
  <1> HIDE DEF S
  <1>3. n \in S
    BY <1>1, <1>2, Induction
  <1> QED
    BY <1>3 DEF S

\* The loop over the lines, its state and its order find in any description just
\* what one who sees all of it reads there (parse_sdp.py:4-130).
THEOREM ParserFindsWhatItSays ==
    ASSUME NEW lines \in Seq(Text)
    PROVE  Markers(ParseSdp(lines)) = SdpSays(lines)
  <1> DEFINE Parses(f) == f = [i \in 0 .. Len(lines) |->
                          IF i = 0 THEN Nothing ELSE ParseLine(f[i-1], lines[i])]
             after == CHOOSE f : Parses(f)
  <1>1. ParseSdp(lines) = after[Len(lines)]
    BY Zenon DEF ParseSdp
  <1>2. Parses(after)
    <2>1. \E f : Parses(f)
      <3>1. Len(lines) \in Nat
        OBVIOUS
      <3> QED
        BY <3>1, ParsingExists, Zenon
    <2> HIDE DEF Parses
    <2> QED
      BY <2>1
  <1> HIDE DEF after
  <1>3. Len(lines) \in 0 .. Len(lines)
    OBVIOUS
  <1>4. Markers(after[Len(lines)]) = SaysBefore(lines, Len(lines))
    BY <1>2, <1>3, Parsing
  <1>5. SaysBefore(lines, Len(lines)) = SdpSays(lines)
    <2>1. DOMAIN lines = 1 .. Len(lines)
      OBVIOUS
    <2>2. ASSUME NEW i \in DOMAIN lines, NEW b
          PROVE  b \in Adds(InSection(lines, i), lines[i]) <=>
                    /\ lines[i].key = "a" /\ b \in Hint
                    /\ \/ b = "hikvision" /\ lines[i].about = "mediainfo"
                       \/ b = "dahua" /\ InSection(lines, i) /\ lines[i].about = "dimensions"
                       \/ b = "dahua" /\ ~InSection(lines, i)
                           /\ lines[i].about \in {"packetization:dh", "rtppayload:dh"}
      BY DEF Adds, MediaHints, SessionHints, Hint
    <2> QED
      BY <2>1, <2>2 DEF SaysBefore, SdpSays, Hint
  <1> QED
    BY <1>1, <1>4, <1>5

\* A part of a description, behind lines that are none of it, says no more than
\* the whole.
LEMMA PartSaysNoMore ==
    ASSUME NEW whole \in Seq(Text), NEW part \in Seq(Text), NEW off \in Nat,
           \A i \in DOMAIN part :
              IF i <= off THEN part[i].key \notin {"a", "m"}
              ELSE i - off \in DOMAIN whole /\ part[i] = whole[i - off]
    PROVE  SdpSays(part) \subseteq SdpSays(whole)
  <1> SUFFICES ASSUME NEW b \in Hint, NEW i \in DOMAIN part, part[i].key = "a",
                      \/ b = "hikvision" /\ part[i].about = "mediainfo"
                      \/ b = "dahua" /\ InSection(part, i) /\ part[i].about = "dimensions"
                      \/ b = "dahua" /\ ~InSection(part, i)
                          /\ part[i].about \in {"packetization:dh", "rtppayload:dh"}
               PROVE  b \in SdpSays(whole)
    BY DEF SdpSays, Hint
  <1> DEFINE j == i - off
  <1>1. i > off /\ j \in DOMAIN whole /\ part[i] = whole[j]
    OBVIOUS
  <1>2. InSection(part, i) <=> InSection(whole, j)
    <2>1. ASSUME NEW k \in 1 .. (i - 1), GoodM(part[k]) PROVE InSection(whole, j)
      <3>1. k \in DOMAIN part
        OBVIOUS
      <3>2. k > off /\ part[k] = whole[k - off] /\ k - off \in 1 .. (j - 1)
        BY <2>1, <3>1 DEF GoodM
      <3> QED
        BY <2>1, <3>2 DEF InSection
    <2>2. ASSUME NEW k \in 1 .. (j - 1), GoodM(whole[k]) PROVE InSection(part, i)
      <3>1. k + off \in DOMAIN part /\ k + off > off /\ k + off \in 1 .. (i - 1)
        OBVIOUS
      <3>2. part[k + off] = whole[k]
        BY <3>1
      <3> QED
        BY <2>2, <3>1, <3>2 DEF InSection
    <2> QED
      BY <2>1, <2>2 DEF InSection
  <1> QED
    BY <1>1, <1>2 DEF SdpSays, Hint

-----------------------------------------------------------------------------
(* The fingerprints                                                        *)

LEMMA Listed ==
    /\ DOMAIN Registry = {1, 2, 3, 4, 5, 6}
    /\ Registry[1] = "dahua" /\ Registry[2] = "hikvision" /\ Registry[3] = "axis"
    /\ Registry[4] = "uniview" /\ Registry[5] = "xiongmai" /\ Registry[6] = "generic"
    /\ Vendor = {Registry[i] : i \in {1, 2, 3, 4, 5, 6}}
  <1>1. DOMAIN Registry = {1, 2, 3, 4, 5, 6}
    BY DEF Registry
  <1>2. /\ Registry[1] = "dahua" /\ Registry[2] = "hikvision" /\ Registry[3] = "axis"
        /\ Registry[4] = "uniview" /\ Registry[5] = "xiongmai" /\ Registry[6] = "generic"
    BY DEF Registry
  <1>3. Brand = {"dahua", "hikvision", "axis", "xiongmai", "uniview"}
    <2>1. DOMAIN Brands = {1, 2, 3, 4, 5}
      BY DEF Brands
    <2>2. /\ Brands[1] = "dahua" /\ Brands[2] = "hikvision" /\ Brands[3] = "axis"
          /\ Brands[4] = "xiongmai" /\ Brands[5] = "uniview"
      BY DEF Brands
    <2> QED
      BY <2>1, <2>2 DEF Brand
  <1>4. Vendor = {Registry[i] : i \in {1, 2, 3, 4, 5, 6}}
    BY <1>2, <1>3 DEF Vendor
  <1> QED
    BY <1>1, <1>2, <1>4

LEMMA HowSure ==
    /\ Sureness["dahua"] = 97 /\ Sureness["hikvision"] = 97 /\ Sureness["axis"] = 96
    /\ Sureness["uniview"] = 95 /\ Sureness["xiongmai"] = 96 /\ Sureness["generic"] = 60
  BY DEF Sureness

LEMMA ByFingerprint ==
    ASSUME NEW e, ResultFrom(e).method = "fingerprint"
    PROVE  ResultFrom(e) = Fingerprint(e) /\ Fingerprint(e) # Unknown
  <1>1. Heuristic(e).method \in {"none", "heuristic"}
    BY DEF Heuristic, Unknown, By
  <1> QED
    BY <1>1 DEF ResultFrom, Unknown

-----------------------------------------------------------------------------
(* The heuristic                                                           *)

Score == {95, 90, 70, 45, 85}

\* A call of add() that the code makes.
Added(a) == a \in Brand \X Score /\ (a[2] = 90 => a[1] # "axis")

\* The place of a call among all the calls.
Rank(a) == 10 * SourceRank(a[2]) + BrandRank(a)

LEMMA BrandsAre == Brand = {"dahua", "hikvision", "axis", "xiongmai", "uniview"}
  <1>1. DOMAIN Brands = {1, 2, 3, 4, 5}
    BY DEF Brands
  <1>2. /\ Brands[1] = "dahua" /\ Brands[2] = "hikvision" /\ Brands[3] = "axis"
        /\ Brands[4] = "xiongmai" /\ Brands[5] = "uniview"
    BY DEF Brands
  <1> QED
    BY <1>1, <1>2 DEF Brand

LEMMA VendorFromOnvifIsABrand ==
    ASSUME NEW e
    PROVE  VendorFromOnvif(e) \subseteq Brand
  BY BrandsAre DEF VendorFromOnvif

LEMMA ScoresAreAdded ==
    ASSUME NEW e \in Evidence, NEW a \in Scores(e)
    PROVE  Added(a)
  <1>1. /\ e.markers \subseteq Brand /\ e.httpMarkers \subseteq Brand \ {"axis"}
        /\ VendorFromOnvif(e) \subseteq Brand
        /\ {"dahua", "hikvision", "axis"} \subseteq Brand
    BY VendorFromOnvifIsABrand, BrandsAre DEF Evidence
  <1>2. \/ a \in e.markers \X {95} \/ a \in e.httpMarkers \X {90}
        \/ a \in (e.rtspServer \cap {"dahua", "hikvision", "axis"}) \X {70}
        \/ a \in (e.httpServer \cap {"dahua", "hikvision", "axis"}) \X {45}
        \/ a \in VendorFromOnvif(e) \X {85}
    BY DEF Scores
  <1> HIDE DEF Evidence
  <1> QED
    BY <1>1, <1>2 DEF Added, Score

LEMMA RanksOfSources ==
    /\ SourceRank(95) = 1 /\ SourceRank(90) = 2 /\ SourceRank(70) = 3
    /\ SourceRank(45) = 4 /\ SourceRank(85) = 5
  <1>1. DOMAIN Sources = {1, 2, 3, 4, 5}
    BY DEF Sources
  <1>2. /\ Sources[1] = 95 /\ Sources[2] = 90 /\ Sources[3] = 70 /\ Sources[4] = 45
        /\ Sources[5] = 85
    BY DEF Sources
  <1> QED
    BY <1>1, <1>2 DEF SourceRank

LEMMA RanksOfBrands ==
    ASSUME NEW a, Added(a)
    PROVE  BrandRank(a) \in 1 .. 5
  <1>1. /\ DOMAIN HttpBrands = {1, 2, 3, 4} /\ HttpBrands[1] = "dahua"
        /\ HttpBrands[2] = "hikvision" /\ HttpBrands[3] = "uniview" /\ HttpBrands[4] = "xiongmai"
    BY DEF HttpBrands
  <1>2. DOMAIN Brands = {1, 2, 3, 4, 5}
    BY DEF Brands
  <1>3. CASE a[2] = 90
    <2>1. \E i \in DOMAIN HttpBrands : HttpBrands[i] = a[1]
      BY <1>1, <1>3, BrandsAre DEF Added
    <2>2. BrandRank(a) \in DOMAIN HttpBrands
      BY <1>3, <2>1 DEF BrandRank
    <2> QED
      BY <1>1, <2>2
  <1>4. CASE a[2] # 90
    <2>1. \E i \in DOMAIN Brands : Brands[i] = a[1]
      BY DEF Added, Brand
    <2>2. BrandRank(a) \in DOMAIN Brands
      BY <1>4, <2>1 DEF BrandRank
    <2> QED
      BY <1>2, <2>2
  <1> QED
    BY <1>3, <1>4

LEMMA RanksAreNumbers ==
    ASSUME NEW a, Added(a)
    PROVE  Rank(a) \in Nat
  <1>1. BrandRank(a) \in 1 .. 5 /\ a[2] \in Score
    BY RanksOfBrands DEF Added
  <1>2. SourceRank(a[2]) \in 1 .. 5
    BY <1>1, RanksOfSources DEF Score
  <1> QED
    BY <1>1, <1>2 DEF Rank

\* The order of the calls is that of their ranks.
LEMMA AddedInOrder ==
    ASSUME NEW a, NEW b, Added(a), Added(b), Rank(a) <= Rank(b)
    PROVE  AddedBefore(a, b)
  <1>1. /\ BrandRank(a) \in 1 .. 5 /\ BrandRank(b) \in 1 .. 5
        /\ a[2] \in Score /\ b[2] \in Score
    BY RanksOfBrands DEF Added
  <1>2. SourceRank(a[2]) \in 1 .. 5 /\ SourceRank(b[2]) \in 1 .. 5
    BY <1>1, RanksOfSources DEF Score
  <1>3. SourceRank(a[2]) = SourceRank(b[2]) => a[2] = b[2]
    BY <1>1, RanksOfSources DEF Score
  <1> QED
    BY <1>1, <1>2, <1>3 DEF Rank, AddedBefore

LEMMA FirstOfSome ==
    ASSUME NEW S, S # {}, \A a \in S : Added(a)
    PROVE  \E a \in S : \A b \in S : AddedBefore(a, b)
  <1> DEFINE R == {Rank(a) : a \in S}
  <1>1. R \subseteq Nat /\ R # {}
    BY RanksAreNumbers
  <1>2. PICK n \in R : \A m \in R : n <= m
    <2> HIDE DEF R
    <2> QED
      BY <1>1, Least
  <1>3. PICK a \in S : Rank(a) = n
    BY <1>2
  <1> QED
    BY <1>2, <1>3, AddedInOrder

LEMMA FirstAddedIsThere ==
    ASSUME NEW e \in Evidence, NEW v, \E a \in Scores(e) : a[1] = v
    PROVE  FirstAdded(e, v) \in Scores(e) /\ FirstAdded(e, v)[1] = v
  <1> DEFINE S == {a \in Scores(e) : a[1] = v}
  <1>1. \E a \in S : \A b \in S : AddedBefore(a, b)
    <2>1. S # {} /\ \A a \in S : Added(a)
      BY ScoresAreAdded
    <2> HIDE DEF S
    <2> QED
      BY <2>1, FirstOfSome
  <1>2. \E a \in Scores(e) : a[1] = v /\ \A b \in Scores(e) : b[1] = v => AddedBefore(a, b)
    BY <1>1
  <1> QED
    BY <1>2, Zenon DEF FirstAdded

\* Whatever is scored, the heuristic names one of the vendors that have the best
\* score, with that score.
LEMMA HeuristicNamesABest ==
    ASSUME NEW e \in Evidence, Scores(e) # {}
    PROVE  \E a \in Scores(e) : /\ Heuristic(e) = By("heuristic", a[1], a[2])
                                /\ \A b \in Scores(e) : b[2] <= a[2]
  <1> DEFINE Top(n) == \A b \in Scores(e) : b[2] <= n
             top == CHOOSE n \in {a[2] : a \in Scores(e)} : Top(n)
             best == {a[1] : a \in {b \in Scores(e) : b[2] = top}}
             Wins(v) == \A u \in best : AddedBefore(FirstAdded(e, v), FirstAdded(e, u))
             v == CHOOSE w \in best : Wins(w)
  <1>1. top \in {a[2] : a \in Scores(e)} /\ Top(top)
    <2>1. \A a \in Scores(e) : a[2] \in Score
      BY ScoresAreAdded DEF Added
    <2>2. \E n \in {a[2] : a \in Scores(e)} : Top(n)
      <3> DEFINE N == {a[2] : a \in Scores(e)}
      <3>1. N \subseteq Score /\ N # {}
        BY <2>1
      <3>2. \E n \in N : \A m \in N : m <= n
        <4> HIDE DEF N
        <4>1. CASE 95 \in N
          BY <3>1, <4>1 DEF Score
        <4>2. CASE 95 \notin N /\ 90 \in N
          BY <3>1, <4>2 DEF Score
        <4>3. CASE N \subseteq {85, 70, 45} /\ 85 \in N
          BY <4>3
        <4>4. CASE N \subseteq {70, 45} /\ 70 \in N
          BY <4>4
        <4>5. CASE N \subseteq {45}
          <5>1. 45 \in N
            BY <3>1, <4>5
          <5> QED
            BY <4>5, <5>1
        <4> QED
          BY <3>1, <4>1, <4>2, <4>3, <4>4, <4>5 DEF Score
      <3> QED
        BY <3>2
    <2> HIDE DEF Top
    <2> QED
      BY <2>2
  <1> HIDE DEF top
  <1>2. best # {} /\ \A w \in best : \E a \in Scores(e) : a[1] = w /\ a[2] = top
    BY <1>1
  <1> HIDE DEF best
  <1>3. \E w \in best : Wins(w)
    <2> DEFINE S == {FirstAdded(e, u) : u \in best}
    <2>1. \A u \in best : FirstAdded(e, u) \in Scores(e) /\ FirstAdded(e, u)[1] = u
      BY <1>2, FirstAddedIsThere
    <2>2. S # {} /\ \A a \in S : Added(a)
      BY <1>2, <2>1, ScoresAreAdded
    <2>3. \E a \in S : \A b \in S : AddedBefore(a, b)
      <3> HIDE DEF S
      <3> QED
        BY <2>2, FirstOfSome
    <2> QED
      BY <2>3
  <1> HIDE DEF Wins
  <1>4. v \in best
    BY <1>3
  <1>5. Heuristic(e) = By("heuristic", v, top)
    BY Zenon DEF Heuristic, Wins, best, top
  <1> HIDE DEF v
  <1>6. PICK a \in Scores(e) : a[1] = v /\ a[2] = top
    BY <1>2, <1>4
  <1> QED
    BY <1>1, <1>5, <1>6

-----------------------------------------------------------------------------
(* The result                                                              *)

LEMMA FingerprintNamesAMatch ==
    ASSUME NEW e, Fingerprint(e) # Unknown
    PROVE  \E v \in Vendor : Matches(v, e) /\ Fingerprint(e) = By("fingerprint", v, Sureness[v])
  <1> DEFINE hits == {i \in DOMAIN Registry : Matches(Registry[i], e)}
             IsLeast(i) == \A k \in hits : i <= k
             i == CHOOSE h \in hits : IsLeast(h)
  <1>1. hits # {} /\ hits \subseteq Nat
    BY Listed DEF Fingerprint
  <1>2. i \in hits
    <2> HIDE DEF hits
    <2>1. \E h \in hits : IsLeast(h)
      BY <1>1, Least
    <2> HIDE DEF IsLeast
    <2> QED
      BY <2>1
  <1>3. Fingerprint(e) = By("fingerprint", Registry[i], Sureness[Registry[i]])
    BY <1>1, Zenon DEF Fingerprint
  <1> HIDE DEF i
  <1>4. Registry[i] \in Vendor /\ Matches(Registry[i], e)
    BY <1>2, Listed
  <1> QED
    BY <1>3, <1>4

\* A vendor is named by a fingerprint that matches or by a score that was added,
\* and by a score under 0.85 only beside a description (engine.py:88-97).
THEOREM ResultRestsOnEvidence ==
    ASSUME NEW e \in Evidence, ResultFrom(e) # Unknown
    PROVE  \/ \E v \in Vendor : /\ Matches(v, e)
                                 /\ ResultFrom(e) = By("fingerprint", v, Sureness[v])
           \/ \E a \in Scores(e) : /\ ResultFrom(e) = By("heuristic", a[1], a[2])
                                    /\ (a[2] >= 85 \/ e.parsed)
                                    /\ \A v \in Vendor : ~Matches(v, e)
  <1>1. CASE Fingerprint(e) # Unknown
    BY <1>1, FingerprintNamesAMatch DEF ResultFrom
  <1>2. CASE Fingerprint(e) = Unknown
    <2>1. /\ ResultFrom(e) = Heuristic(e) /\ Heuristic(e) # Unknown
          /\ Heuristic(e).confidence >= 85 \/ e.parsed
      BY <1>2 DEF ResultFrom
    <2>2. Scores(e) # {}
      BY <2>1 DEF Heuristic
    <2>3. PICK a \in Scores(e) : Heuristic(e) = By("heuristic", a[1], a[2])
      BY <2>2, HeuristicNamesABest
    <2>4. \A v \in Vendor : ~Matches(v, e)
      <3> SUFFICES ASSUME NEW i \in DOMAIN Registry, Matches(Registry[i], e) PROVE FALSE
        BY Listed
      <3> DEFINE hits == {k \in DOMAIN Registry : Matches(Registry[k], e)}
      <3>1. hits # {}
        OBVIOUS
      <3>2. Fingerprint(e).method = "fingerprint"
        BY <3>1 DEF Fingerprint, By
      <3> QED
        BY <1>2, <3>2 DEF Unknown
    <2> QED
      BY <2>1, <2>3, <2>4 DEF By
  <1> QED
    BY <1>1, <1>2

\* The first says nothing that the second does not; what ONVIF tells it has in
\* full or not at all, for the tests of a model are tried in order.
Within(e, f) ==
    /\ e.markers \subseteq f.markers /\ e.raw \subseteq f.raw
    /\ e.rtspServer \subseteq f.rtspServer /\ e.httpServer \subseteq f.httpServer
    /\ e.httpMarkers \subseteq f.httpMarkers /\ e.url \subseteq f.url
    /\ e.realm \subseteq f.realm
    /\ \/ e.maker = f.maker /\ e.model = f.model
       \/ e.maker = {} /\ e.model = {}

LEMMA MoreMatches ==
    ASSUME NEW e, NEW f, Within(e, f), NEW v, Matches(v, e)
    PROVE  Matches(v, f)
  <1>1. e.maker \subseteq f.maker /\ e.model \subseteq f.model
    BY DEF Within
  <1>2. CASE v = "dahua"
    BY <1>1, <1>2 DEF Matches, IsDahua, Within
  <1>3. CASE v = "hikvision"
    BY <1>1, <1>3 DEF Matches, IsHikvision, Within
  <1>4. CASE v = "axis"
    BY <1>1, <1>4 DEF Matches, IsAxis, Within, Meets
  <1>5. CASE v = "uniview"
    BY <1>1, <1>5 DEF Matches, IsUniview, Within, Meets
  <1>6. CASE v = "xiongmai"
    BY <1>1, <1>6 DEF Matches, IsXiongmai, Within, Meets
  <1>7. CASE v = "generic"
    BY <1>1, <1>7 DEF Matches, IsGeneric, Within, Meets
  <1> QED
    BY <1>2, <1>3, <1>4, <1>5, <1>6, <1>7 DEF Matches

LEMMA MoreScores ==
    ASSUME NEW e, NEW f, Within(e, f)
    PROVE  Scores(e) \subseteq Scores(f)
  <1>1. VendorFromOnvif(e) \subseteq VendorFromOnvif(f)
    <2>1. CASE e.maker = f.maker /\ e.model = f.model
      BY <2>1 DEF VendorFromOnvif
    <2>2. CASE e.maker = {} /\ e.model = {}
      BY <2>2 DEF VendorFromOnvif, Meets
    <2> QED
      BY <2>1, <2>2 DEF Within
  <1> QED
    BY <1>1 DEF Scores, Within

\* Evidence that is taken away, in any part, never makes a vendor up.
THEOREM LessEvidenceInventsNothing ==
    ASSUME NEW e \in Evidence, NEW f, Within(e, f), ResultFrom(e) # Unknown
    PROVE  \/ Matches(ResultFrom(e).vendor, f)
           \/ \E a \in Scores(f) : a[1] = ResultFrom(e).vendor
  <1>1. CASE \E v \in Vendor : /\ Matches(v, e)
                              /\ ResultFrom(e) = By("fingerprint", v, Sureness[v])
    <2>1. PICK v \in Vendor : Matches(v, e) /\ ResultFrom(e).vendor = v
      BY <1>1 DEF By
    <2> QED
      BY <2>1, MoreMatches
  <1>2. CASE \E a \in Scores(e) : ResultFrom(e) = By("heuristic", a[1], a[2])
    BY <1>2, MoreScores DEF By
  <1> QED
    BY <1>1, <1>2, ResultRestsOnEvidence

=============================================================================
