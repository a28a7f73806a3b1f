------------------------------ MODULE Packages ------------------------------
(***************************************************************************)
(* Lists of packages and the versions in them: upstream_version and        *)
(* package_database of crates/identify/src/lib.rs, and the manifest parser *)
(* of crates/identify/src/manifest.rs. All are functions of a text.        *)
(*                                                                         *)
(* A version is the sequence of its parts: separators, "r", runs of digits *)
(* and whatever else there is. No part is the beginning of another one, so *)
(* that string prefixes are prefixes of the sequence. A text is a sequence *)
(* of stanzas (what a blank line separates), a stanza one of lines.        *)
(***************************************************************************)
EXTENDS Naturals, Sequences, SequencesExt

CONSTANTS
  Digits,       \* the parts that are runs of ASCII digits
  Markers,      \* .dfsg, +dfsg, ~dfsg, .orig: in the order they are tried
  Lower,        \* str::to_lowercase of a package name
  NotGiven      \* a field or a version that is missing

\* The third word of a dpkg or opkg status.
State == {"installed", "not-installed", "half-installed", "config-files", "unpacked"}

Style == {"Control", "Revision", "Verbatim"}

Format == {"Control", "OpenWrt", "Generic"}

(***************************************************************************)
(* A line is "key: value", "name - version", "name version" or a comment,  *)
(* one with " - " in it ("#-") or not ("#"). An indented line continues    *)
(* the field above it. Only the fields its sort has are ever read.         *)
(***************************************************************************)
Line(sep, key, indented, word, version) ==
  [sep |-> sep, key |-> key, indented |-> indented, word |-> word, version |-> version]

-----------------------------------------------------------------------------
Before(v, i) == SubSeq(v, 1, i - 1)
After(v, i) == SubSeq(v, i + 1, Len(v))

AllDigits(v) == v # <<>> /\ \A i \in DOMAIN v : v[i] \in Digits

\* [epoch:]upstream; a first field that is no number is no epoch.
WithoutEpoch(v) ==
  LET colon == SelectInSeq(v, LAMBDA part : part = ":")
  IN  IF colon # 0 /\ AllDigits(Before(v, colon)) THEN After(v, colon) ELSE v

\* Whether what follows the last dash is packaging: anything to Debian, an
\* explicit rN to OpenWrt.
IsRevision(rev, style) ==
  \/ style = "Control" /\ rev # <<>>
  \/ style = "Revision" /\ rev # <<>> /\ Head(rev) = "r" /\ AllDigits(Tail(rev))

\* Mutant: the first dash ends the upstream part, not the last one.
Bug_WithoutRevision(v, style) ==
  LET dash == SelectInSeq(v, LAMBDA part : part = "-")
  IN  IF dash > 1 /\ IsRevision(After(v, dash), style) THEN Before(v, dash) ELSE v

WithoutRevision(v, style) ==
  LET dash == SelectLastInSeq(v, LAMBDA part : part = "-")
  IN  IF dash > 1 /\ IsRevision(After(v, dash), style) THEN Before(v, dash) ELSE v

\* The markers are tried in order; the first one that occurs cuts.
WithoutRepack(v) ==
  LET At(m) == SelectInSeq(v, LAMBDA part : part = m)
      hit == SelectInSeq(Markers, LAMBDA m : At(m) # 0)
  IN  IF hit = 0 THEN v ELSE Before(v, At(Markers[hit]))

UpstreamVersion(raw, style) ==
  IF style = "Verbatim" THEN raw
  ELSE WithoutRepack(WithoutRevision(WithoutEpoch(raw), style))

-----------------------------------------------------------------------------
\* Of two lines with the same key the last one counts; key.trim() does not
\* see whether the line is indented.
Field(stanza, key) ==
  LET i == SelectLastInSeq(stanza, LAMBDA l : l.sep = ":" /\ l.key = key)
  IN  IF i = 0 THEN NotGiven
      ELSE IF key = "Version" THEN stanza[i].version ELSE stanza[i].word

\* value.contains("installed")
SaysInstalled(s) == s \in {"installed", "not-installed", "half-installed"}

\* Mutant: the status is not looked at.
Bug_Counts(stanza) == TRUE

\* A stanza without a status counts.
Counts(stanza) ==
  LET status == Field(stanza, "Status") IN status = NotGiven \/ SaysInstalled(status)

\* The name is the upstream project of Source when there is one, in lower case.
StanzaName(stanza) ==
  LET source == Field(stanza, "Source")
      name == IF source # NotGiven THEN source ELSE Field(stanza, "Package")
  IN  IF name = NotGiven THEN NotGiven ELSE Lower[name]

StanzaClaims(stanza) ==
  LET name == StanzaName(stanza)
      version == Field(stanza, "Version")
  IN  IF name # NotGiven /\ version # NotGiven /\ Counts(stanza)
      THEN <<<<name, UpstreamVersion(version, "Control")>>>>
      ELSE <<>>

PackageDatabase(text) == FlattenSeq([i \in DOMAIN text |-> StanzaClaims(text[i])])

-----------------------------------------------------------------------------
Lines(text) == FlattenSeq(text)

\* One line decides, be it a comment.
Detect(text) ==
  LET Has(Test(_)) == \E i \in DOMAIN Lines(text) : Test(Lines(text)[i])
  IN  IF Has(LAMBDA l : l.sep = ":" /\ l.key = "Package" /\ ~l.indented) THEN "Control"
      ELSE IF Has(LAMBDA l : l.sep \in {"-", "#-"} /\ ~l.indented) THEN "OpenWrt"
      ELSE "Generic"

VersionStyle(format) ==
  CASE format = "Control" -> "Control"
    [] format = "OpenWrt" -> "Revision"
    [] format = "Generic" -> "Verbatim"

\* split_columns yields a name: an OpenWrt line needs " - ", in the generic
\* format any word is one. Comments are dropped.
HasColumns(line, format) ==
  IF format = "OpenWrt" THEN line.sep = "-" ELSE line.sep = " "

ColumnClaims(line, format) ==
  IF HasColumns(line, format)
  THEN <<<<line.word,
           IF line.version = NotGiven THEN NotGiven
           ELSE UpstreamVersion(line.version, VersionStyle(format))>>>>
  ELSE <<>>

\* Package name and version of every entry, in order.
ManifestClaims(text) ==
  LET format == Detect(text)
      lines == Lines(text)
  IN  IF format = "Control" THEN PackageDatabase(text)
      ELSE FlattenSeq([i \in DOMAIN lines |-> ColumnClaims(lines[i], format)])
=============================================================================
