-------------------------- MODULE MCParameterSets --------------------------
(***************************************************************************)
(* An instance of ParameterSets for TLC: SEI messages whose types and      *)
(* sizes need no, one or two full bytes, and parameter sets that differ    *)
(* from a usual one in one respect, so that every optional part is there   *)
(* and not there.                                                          *)
(***************************************************************************)
EXTENDS ParameterSets

MCSeiMessages ==
    [type : {0, 3, 6}, payload : {<<>>, <<0, 0>>, <<2>>, <<3, 0, 2, 2>>}]

-----------------------------------------------------------------------------
\* A Vui with every part, and a parameter set that conforms.
FullVui ==
    [aspect |-> {255}, overscan |-> {TRUE},
     signal |-> {[full_range |-> FALSE, colour |-> {<<1, 1, 1>>}]},
     location |-> {1}, timing |-> {[tick |-> 1001, scale |-> 120000]},
     nal_hrd |-> {<<FALSE>>}, vcl_hrd |-> {<<TRUE, FALSE>>}, restriction |-> {0}]

Usual ==
    [profile |-> 100, level |-> 32, id |-> 0, chroma |-> 1, depths |-> <<0, 0>>, scaling |-> {},
     order |-> [type |-> 0, cycle |-> <<>>], width_mbs |-> 80, height_units |-> 45,
     progressive |-> TRUE, crop |-> {}, vui |-> {FullVui}]

With(vui) == [Usual EXCEPT !.vui = {vui}]

Vuis ==
    {[FullVui EXCEPT !.aspect = a, !.overscan = o] : a \in {{}, {1}}, o \in {{}, {FALSE}}}
    \cup {[FullVui EXCEPT !.signal = s] :
             s \in {{}, {[full_range |-> FALSE, colour |-> {}]},
                    {[full_range |-> TRUE, colour |-> {<<1, 1, 1>>}]}}
                   \cup {{[full_range |-> FALSE, colour |-> {c}]} :
                            c \in {<<9, 1, 1>>, <<1, 6, 1>>, <<1, 1, 5>>}}}
    \cup {[FullVui EXCEPT !.location = {}], [FullVui EXCEPT !.timing = {}]}
    \cup {[FullVui EXCEPT !.nal_hrd = n, !.vcl_hrd = v] :
             n \in {{}, {<<TRUE>>}, {<<FALSE, TRUE>>}}, v \in {{}, {<<FALSE>>}}}
    \cup {[FullVui EXCEPT !.nal_hrd = {[i \in 1 .. 33 |-> FALSE]}]}
    \cup {[FullVui EXCEPT !.restriction = r] : r \in {{}, {2}}}

\* Lists that end with all their values and lists that end early.
Flat(n)  == [i \in 1 .. n |-> 0]
Scaling(n) ==
    [i \in 1 .. n |-> CASE i = 1 -> Flat(16) [] i = 2 -> <<-8>> [] i = 3 -> <<127, 121>>
                        [] i = 7 -> <<127, 127, -6>>
                        [] i = 8 -> <<-128, 1, 120, -121, 3, -4>> \o Flat(58)
                        [] OTHER -> <<>>]

MCHeaders ==
    {With(vui) : vui \in Vuis}
    \cup {Usual, [Usual EXCEPT !.vui = {}], [Usual EXCEPT !.id = 31],
          [Usual EXCEPT !.profile = 77], [Usual EXCEPT !.profile = 66],
          [Usual EXCEPT !.profile = 77, !.chroma = 3],
          [Usual EXCEPT !.scaling = {Scaling(8)}],
          [Usual EXCEPT !.chroma = 3, !.scaling = {Scaling(12)}, !.crop = {<<1, 2, 3, 4>>}],
          [Usual EXCEPT !.depths = <<2, 0>>], [Usual EXCEPT !.depths = <<0, 7>>],
          [Usual EXCEPT !.chroma = 4]}
    \cup {[Usual EXCEPT !.chroma = c, !.progressive = p, !.crop = {<<1, 2, 3, 4>>}] :
             c \in 0 .. 2, p \in BOOLEAN}
    \cup {[Usual EXCEPT !.order = [type |-> t, cycle |-> c]] : t \in 1 .. 3, c \in {<<>>, <<2, -3>>}}
    \cup {[Usual EXCEPT !.width_mbs = 1, !.height_units = 1, !.crop = {c}] :
             c \in {<<4, 4, 0, 0>>, <<0, 9, 0, 0>>, <<0, 0, 8, 0>>, <<0, 0, 0, 9>>}}
=============================================================================
