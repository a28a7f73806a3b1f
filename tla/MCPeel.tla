------------------------------- MODULE MCPeel -------------------------------
(***************************************************************************)
(* Four layers. Three of them are nested in every way without a uImage, of *)
(* falling sizes, so that the stack of two calls is too small for some; a  *)
(* chain of headers goes through all four; the search has an image of 240  *)
(* bytes to itself, room for three headers of 64 bytes with short payloads *)
(* (66 is off the words of the image, 68 may lie in the payload of a       *)
(* header at 0, 176 is the last offset a header fits at); and small nests  *)
(* hold one uImage each.                                                   *)
(***************************************************************************)
EXTENDS Peel

MCBlob == 1 .. 4
MCOffsets == {0, 66, 68, 176}

NoHeader == [p \in MCOffsets |-> None]
HeaderAtZero(h) == [NoHeader EXCEPT ![0] = h]

Layer(kind, inner) == [kind |-> kind, inner |-> inner]

Members(S) == {<<a>> : a \in S} \cup {s \in S \X S : s[1] # s[2]}

\* What layer b may be, when the layers of S are smaller and it may hold any of T.
LayersOf(b, S, T) ==
  {Layer("none", <<>>)}
  \cup {Layer("gzip", <<a>>) : a \in T}
  \cup {Layer("chk", <<a>>) : a \in S \cup {b}}
  \cup {Layer(k, s) : k \in {"trx", "tar"}, s \in Members(S)}
  \cup {Layer("zip", s) : s \in Members(T)}

\* A nest with its sizes, signatures and headers; the uncompressed wrappers show
\* the signatures of what is inside.
Nest(layers, sizes, signatures, headers) ==
  LET shows[b \in MCBlob] ==
        IF layers[b].kind \in {"chk", "trx", "tar"} /\ layers[b].inner # <<b>>
        THEN \E i \in DOMAIN layers[b].inner : shows[layers[b].inner[i]]
        ELSE b \in signatures
  IN  [b \in MCBlob |->
         [kind |-> layers[b].kind, inner |-> layers[b].inner, size |-> sizes[b],
          signature |-> shows[b], header |-> headers[b]]]

Plain == [b \in MCBlob |-> NoHeader]
None4 == Layer("none", <<>>)

\* Every nest of three layers; the third shows a signature or none does.
Nests ==
  {Nest(<<a, b, c, None4>>, <<3, 2, 1, 1>>, signatures, Plain) :
     a \in LayersOf(1, {2, 3}, {1, 2, 3}), b \in LayersOf(2, {3}, {2, 3}),
     c \in LayersOf(3, {}, {3}), signatures \in {{}, {3}}}

\* Two layers of as few bytes as the stack has calls.
SmallNests ==
  {Nest(<<a, b, None4, None4>>, <<2, 1, 1, 1>>, {2}, Plain) :
     a \in LayersOf(1, {2}, {1, 2}), b \in LayersOf(2, {}, {2})}

\* Headers in front of headers.
Chains ==
  {Nest(<<Layer("chk", <<2>>), Layer("chk", <<3>>), c, None4>>, <<4, 3, 2, 1>>, {4}, Plain) :
     c \in LayersOf(3, {4}, {4})}

MCHeaders ==
  {[size |-> 0, payload |-> 3], [size |-> 4, payload |-> 3], [size |-> 4, payload |-> 2],
   [size |-> 8, payload |-> None], [size |-> 2, payload |-> 4], [size |-> 500, payload |-> 2]}

\* Every image of headers.
Searches ==
  {Nest([b \in MCBlob |-> None4], <<240, 9, 3, 5>>, {1}, [Plain EXCEPT ![1] = h]) :
     h \in [MCOffsets -> MCHeaders \cup {None}]}

\* A payload that is wrapped itself, of an image that is wrapped itself.
Payloads ==
  {Nest(<<a, b, c, None4>>, <<80, 70, 2, 1>>, {2},
        [Plain EXCEPT ![2] = HeaderAtZero([size |-> 4, payload |-> 3])]) :
     a \in {Layer("gzip", <<2>>), Layer("tar", <<3, 2>>), Layer("chk", <<2>>)},
     b \in {None4, Layer("trx", <<4, 3>>), Layer("chk", <<4>>)},
     c \in LayersOf(3, {4}, {3, 4})}

MCImages == Nests \cup SmallNests \cup Chains \cup Searches \cup Payloads

\* The nests of uncompressed wrappers.
Uncompressed ==
  {m \in SmallNests : \A b \in MCBlob : m[b].kind \notin {"gzip", "zip"}}
=============================================================================
