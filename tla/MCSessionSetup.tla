--------------------------- MODULE MCSessionSetup ---------------------------
(***************************************************************************)
(* An instance of SessionSetup for TLC: senders of two sessions, and for   *)
(* each check one that violates it; documents with or without every line   *)
(* and parameter of which another one can take the place, in every order.  *)
(***************************************************************************)
EXTENDS SessionSetup, TLC

Rate(n, d) == [num |-> n, den |-> d]

Good ==
    [group |-> "A", port |-> 5004, width |-> 16, height |-> 8, rate |-> Rate(60, 1),
     bitrate |-> 4000, ip_bitrate |-> 0, max_udp |-> 1200,
     ts_refclk |-> 0, encoder_delay |-> {}, sender_reports_delay |-> {}, access_unit_offset |-> {},
     late_packet_threshold |-> 10, dscp |-> 36]

Other ==
    [Good EXCEPT !.group = "B", !.port = 5006, !.height = 10, !.rate = Rate(60000, 1001),
                 !.ip_bitrate = 4400, !.ts_refclk = 64, !.encoder_delay = {50},
                 !.sender_reports_delay = {50}, !.access_unit_offset = {0}]

\* With those that only the transmitter or the report refuses.
Late ==
    {[Good EXCEPT !.ts_refclk = 65], [Good EXCEPT !.rate = Rate(20001, 1024)],
     [Good EXCEPT !.rate = Rate(4194304, 1023)], [Good EXCEPT !.width = 65536],
     [Good EXCEPT !.sender_reports_delay = {502}], [Good EXCEPT !.encoder_delay = {MaxTime}],
     [Good EXCEPT !.access_unit_offset = {MaxTime - 501}]}

MCOptions ==
    Late \cup {Good, Other,
     [Good EXCEPT !.rate = Rate(120, 2)], [Good EXCEPT !.rate = Rate(0, 1)],
     [Good EXCEPT !.port = 5005], [Good EXCEPT !.height = 9], [Good EXCEPT !.max_udp = 63],
     [Good EXCEPT !.ip_bitrate = 4399], [Good EXCEPT !.bitrate = 0],
     [Good EXCEPT !.late_packet_threshold = 0], [Good EXCEPT !.dscp = 64]}

-----------------------------------------------------------------------------
NtscRate == Rate(60000, 1001)

Optional(S) == {{}} \cup {{x} : x \in S}

Sps ==
    [id |-> 0, level |-> "640020", conforming |-> TRUE, width |-> 16, height |-> 8,
     num_units_in_tick |-> 1001, time_scale |-> 120000]

\* Documents that declare a size and a rate, on one line or another or both,
\* and those that declare neither.
AllDocuments ==
    UNION {[width : Optional({16}), height : Optional({8}), rate : Optional({NtscRate}),
            framerate : Optional({Thousandths(NtscRate)}), framesize : Optional({8, 10}),
            sps : {Sps}, order : {order}] : order \in Permutations(1 .. 3)}

DeclaresSize(d) == d.framesize # {} \/ (d.width # {} /\ d.height # {})
DeclaresRate(d) == d.framerate # {} \/ d.rate # {}
Silent(d) == d.width \cup d.height \cup d.framesize = {} /\ d.framerate = {} /\ d.rate = {}

MCDocuments ==
    {d \in AllDocuments : (DeclaresSize(d) /\ DeclaresRate(d)) \/ Silent(d)}
=============================================================================
