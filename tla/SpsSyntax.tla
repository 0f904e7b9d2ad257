------------------------------ MODULE SpsSyntax ------------------------------
(***************************************************************************)
(* The sequence parameter set: how the code reads it, and what the H.264   *)
(* standard has a writer put in it.                                        *)
(*                                                                         *)
(* A parameter set is the sequence of its syntax elements, each with its   *)
(* descriptor (<<"u", 8>>, <<"ue", 0>>, ...) and its value; how elements   *)
(* are made of bits is in ParameterSets.  The reader knows which elements  *)
(* come next; an element may bring others, which come right after it.      *)
(* Flags are 0 or 1.  Values are far below 2^32.                           *)
(***************************************************************************)
EXTENDS Integers, SequencesExt

\* The names of the elements that are read and not looked at again.
Ignored == "ignored"

Element(name, code, bits) == [name |-> name, code |-> <<code, bits>>, left |-> 0, scale |-> 0]

U(name, bits) == Element(name, "u", bits)
Ue(name)      == Element(name, "ue", 0)
Se(name)      == Element(name, "se", 0)

\* One of `left` deltas of a scaling list, after the value `scale`.
Delta(left, scale) == [Se("delta_scale") EXCEPT !.left = left, !.scale = scale]

HighProfiles == {100, 110, 122, 244, 44, 83, 86, 118, 128, 138, 139, 134, 135}

-----------------------------------------------------------------------------
(* The reader *)

SpsElements ==
    << U("profile_idc", 8), U(Ignored, 8), U("level_idc", 8), Ue("sps_id"),
       Ue(Ignored), Ue("pic_order_cnt_type"),
       Ue(Ignored), U(Ignored, 1), Ue("width_mbs_minus1"), Ue("height_map_units_minus1"),
       U("frame_mbs_only_flag", 1), U(Ignored, 1), U("crop", 1),
       U("vui_parameters_present_flag", 1) >>

HighProfileElements ==
    << Ue("chroma_format_idc"), Ue("depth_luma"), Ue("depth_chroma"), U(Ignored, 1),
       U("scaling_matrix", 1) >>

VuiElements ==
    << U("aspect_present", 1), U("overscan_present", 1),
       U("video_signal_type_present_flag", 1), U("chroma_location_present", 1),
       U("timing_info_present_flag", 1),
       U("nal_hrd_parameters_present_flag", 1), U("vcl_hrd_present", 1),
       U(Ignored, 1), U("bitstream_restriction_flag", 1) >>

\* Faulty: the flag of the last coded picture buffer is not read.
HrdElements_OneFlag(cpbs, first_flag) ==
    << U(Ignored, 4), U(Ignored, 4) >>
    \o FlattenSeq([i \in 1 .. cpbs |->
                      << Ue(Ignored), Ue(Ignored) >>
                      \o (IF i = 1 THEN << U(first_flag, 1) >> ELSE <<>>)])
    \o [i \in 1 .. 4 |-> U(Ignored, 5)]

\* The code keeps the flag of the first of the coded picture buffers.
HrdElements(cpbs, first_flag) ==
    << U(Ignored, 4), U(Ignored, 4) >>
    \o FlattenSeq([i \in 1 .. cpbs |->
                      << Ue(Ignored), Ue(Ignored), U(IF i = 1 THEN first_flag ELSE Ignored, 1) >>])
    \o [i \in 1 .. 4 |-> U(Ignored, 5)]

\* The elements that an element brings, given its value and what was read.
Follow(element, value, sps) ==
    LET if(condition, elements) == IF condition THEN elements ELSE <<>>
        present == value = 1
        NextScale == (element.scale + value + 256) % 256
    IN CASE element.name = "sps_id" -> if(sps.profile_idc \in HighProfiles, HighProfileElements)
         [] element.name = "chroma_format_idc" -> if(value = 3, << U(Ignored, 1) >>)
         [] element.name = "scaling_matrix" ->
                if(present, [i \in 1 .. (IF sps.chroma_format_idc = 3 THEN 12 ELSE 8) |->
                                U(IF i <= 6 THEN "list_of_16" ELSE "list_of_64", 1)])
         [] element.name = "list_of_16" -> if(present, << Delta(16, 8) >>)
         [] element.name = "list_of_64" -> if(present, << Delta(64, 8) >>)
         [] element.name = "delta_scale" ->
                if(NextScale # 0 /\ element.left > 1, << Delta(element.left - 1, NextScale) >>)
         [] element.name = "pic_order_cnt_type" ->
                CASE value = 0 -> << Ue(Ignored) >>
                  [] value = 1 -> << U(Ignored, 1), Se(Ignored), Se(Ignored), Ue("cycle") >>
                  [] OTHER     -> <<>>
         [] element.name = "cycle" -> [i \in 1 .. value |-> Se(Ignored)]
         [] element.name = "frame_mbs_only_flag" -> if(~present, << U(Ignored, 1) >>)
         [] element.name = "crop" ->
                if(present, << Ue("crop_left"), Ue("crop_right"), Ue("crop_top"), Ue("crop_bottom") >>)
         [] element.name = "vui_parameters_present_flag" -> if(present, VuiElements)
         [] element.name = "aspect_present" -> if(present, << U("aspect", 8) >>)
         [] element.name = "aspect" -> if(value = 255, << U(Ignored, 16), U(Ignored, 16) >>)
         [] element.name = "overscan_present" -> if(present, << U(Ignored, 1) >>)
         [] element.name = "video_signal_type_present_flag" ->
                if(present, << U(Ignored, 3), U("video_full_range_flag", 1),
                               U("colour_description_present_flag", 1) >>)
         [] element.name = "colour_description_present_flag" ->
                if(present, << U("colour_primaries", 8), U("transfer_characteristics", 8),
                               U("matrix_coefficients", 8) >>)
         [] element.name = "chroma_location_present" -> if(present, << Ue(Ignored), Ue(Ignored) >>)
         [] element.name = "timing_info_present_flag" ->
                if(present, << U("num_units_in_tick", 32), U("time_scale", 32), U(Ignored, 1) >>)
         [] element.name = "nal_hrd_parameters_present_flag" ->
                if(present, << Ue("cpb_cnt_minus1") >>)
         [] element.name = "cpb_cnt_minus1" -> HrdElements(value + 1, "cbr_flag")
         [] element.name = "vcl_hrd_present" ->
                if(present, << Ue("vcl_cpb_cnt_minus1") >>)
                \o if(present \/ sps.nal_hrd_parameters_present_flag = 1, << U(Ignored, 1) >>)
         [] element.name = "vcl_cpb_cnt_minus1" -> HrdElements(value + 1, Ignored)
         [] element.name = "bitstream_restriction_flag" ->
                if(present, << U(Ignored, 1), Ue(Ignored), Ue(Ignored), Ue(Ignored), Ue(Ignored),
                               Ue("max_num_reorder_frames"), Ue(Ignored) >>)
         [] OTHER -> <<>>

\* The values that are refused at once.
Allowed(name, value) ==
    CASE name = "chroma_format_idc"                        -> value <= 3
      [] name \in {"depth_luma", "depth_chroma"}           -> value <= 6
      [] name = "pic_order_cnt_type"                       -> value <= 2
      [] name = "cycle"                                    -> value <= 255
      [] name \in {"cpb_cnt_minus1", "vcl_cpb_cnt_minus1"} -> value <= 31
      [] name = "delta_scale"                              -> value \in -128 .. 127
      [] OTHER                                             -> TRUE

\* What H264SpsInfo has before anything is read; depths are offsets to 8.
EmptySps ==
    [profile_idc |-> 0, level_idc |-> 0, sps_id |-> 0, chroma_format_idc |-> 1,
     depth_luma |-> 0, depth_chroma |-> 0, width_mbs_minus1 |-> 0, height_map_units_minus1 |-> 0,
     frame_mbs_only_flag |-> 0, crop_left |-> 0, crop_right |-> 0, crop_top |-> 0,
     crop_bottom |-> 0, vui_parameters_present_flag |-> 0, video_signal_type_present_flag |-> 0,
     video_full_range_flag |-> 0, colour_description_present_flag |-> 0, colour_primaries |-> 2,
     transfer_characteristics |-> 2, matrix_coefficients |-> 2, timing_info_present_flag |-> 0,
     num_units_in_tick |-> 0, time_scale |-> 0, nal_hrd_parameters_present_flag |-> 0,
     cpb_cnt_minus1 |-> 0, cbr_flag |-> 0, max_num_reorder_frames |-> 0]

\* One element is read.  A descriptor that is not the writer's is a misreading.
ReadElement(reader, token) ==
    IF reader.todo = <<>> \/ reader.refused THEN reader
    ELSE LET element == Head(reader.todo)
         IN IF element.code # token.code \/ ~Allowed(element.name, token.value)
            THEN [reader EXCEPT !.refused = TRUE]
            ELSE [reader EXCEPT
                     !.todo = Follow(element, token.value, reader.sps) \o Tail(@),
                     !.sps  = IF element.name \in DOMAIN @
                              THEN [@ EXCEPT ![element.name] = token.value] ELSE @]

CropUnitX(sps) == IF sps.chroma_format_idc \in {0, 3} THEN 1 ELSE 2

CropUnitY(sps) ==
    (IF sps.chroma_format_idc = 1 THEN 2 ELSE 1) * (IF sps.frame_mbs_only_flag = 1 THEN 1 ELSE 2)

Width(sps) == (sps.width_mbs_minus1 + 1) * 16 - (sps.crop_left + sps.crop_right) * CropUnitX(sps)

Height(sps) ==
    (sps.height_map_units_minus1 + 1) * 16 * (IF sps.frame_mbs_only_flag = 1 THEN 1 ELSE 2)
    - (sps.crop_top + sps.crop_bottom) * CropUnitY(sps)

\* parse_h264_sps: what was read, if all of it was there.
ParseSps(tokens) ==
    LET reader == FoldLeft(ReadElement, [todo |-> SpsElements, sps |-> EmptySps, refused |-> FALSE],
                           tokens)
    IN [ok  |-> /\ ~reader.refused /\ reader.todo = <<>>
                /\ Width(reader.sps) >= 0 /\ Height(reader.sps) >= 0,
        sps |-> reader.sps]

\* What validate_ipmx_sps asks of the profile, the samples and the VUI.
ConformingVideo(sps) ==
    /\ sps.profile_idc \in {77, 100}
    /\ sps.chroma_format_idc = 1 /\ sps.depth_luma = 0 /\ sps.depth_chroma = 0
    /\ sps.frame_mbs_only_flag = 1
    /\ sps.vui_parameters_present_flag = 1
    /\ sps.video_signal_type_present_flag = 1 /\ sps.video_full_range_flag = 0
    /\ sps.colour_description_present_flag = 1
    /\ sps.colour_primaries = 1 /\ sps.transfer_characteristics = 1 /\ sps.matrix_coefficients = 1
    /\ sps.timing_info_present_flag = 1
    /\ sps.nal_hrd_parameters_present_flag = 1 /\ sps.cpb_cnt_minus1 = 0
    /\ sps.max_num_reorder_frames = 0

-----------------------------------------------------------------------------
(* The writer: clauses 7.3.2.1.1, E.1.1 and E.1.2 of the H.264 standard.  An *)
(* optional part is a set of at most one element.                            *)

Put(code, bits, value) == [code |-> <<code, bits>>, value |-> value]

Flag(condition) == Put("u", 1, IF condition THEN 1 ELSE 0)

\* The flag that announces an optional part, and the part.
Optionally(part, Syntax(_)) ==
    IF part = {} THEN << Flag(FALSE) >> ELSE << Flag(TRUE) >> \o Syntax(CHOOSE p \in part : TRUE)

Several(code, bits, values) == [i \in DOMAIN values |-> Put(code, bits, values[i])]

ScalingList(deltas) == << Flag(deltas # <<>>) >> \o Several("se", 0, deltas)

HrdSyntax(cbr_flags) ==
    << Put("ue", 0, Len(cbr_flags) - 1), Put("u", 4, 1), Put("u", 4, 2) >>
    \o FlattenSeq([i \in DOMAIN cbr_flags |->
                      << Put("ue", 0, 7), Put("ue", 0, 8), Flag(cbr_flags[i]) >>])
    \o Several("u", 5, <<23, 15, 5, 24>>)

VuiSyntax(vui) ==
    Optionally(vui.aspect, LAMBDA idc : << Put("u", 8, idc) >>
                   \o (IF idc = 255 THEN Several("u", 16, <<4, 3>>) ELSE <<>>))
    \o Optionally(vui.overscan, LAMBDA appropriate : << Flag(appropriate) >>)
    \o Optionally(vui.signal, LAMBDA signal : << Put("u", 3, 5), Flag(signal.full_range) >>
                      \o Optionally(signal.colour, LAMBDA colour : Several("u", 8, colour)))
    \o Optionally(vui.location, LAMBDA location : Several("ue", 0, <<location, location>>))
    \o Optionally(vui.timing, LAMBDA timing :
                      << Put("u", 32, timing.tick), Put("u", 32, timing.scale), Flag(TRUE) >>)
    \o Optionally(vui.nal_hrd, HrdSyntax) \o Optionally(vui.vcl_hrd, HrdSyntax)
    \o (IF vui.nal_hrd \cup vui.vcl_hrd # {} THEN << Flag(FALSE) >> ELSE <<>>)
    \o << Flag(TRUE) >>
    \o Optionally(vui.restriction, LAMBDA reordered :
                      << Flag(TRUE) >> \o Several("ue", 0, <<0, 0, 11, 11, reordered, 4>>))

PictureOrderSyntax(order) ==
    << Put("ue", 0, order.type) >> \o
    CASE order.type = 0 -> << Put("ue", 0, 2) >>
      [] order.type = 1 -> << Flag(FALSE), Put("se", 0, -1), Put("se", 0, 1),
                              Put("ue", 0, Len(order.cycle)) >> \o Several("se", 0, order.cycle)
      [] OTHER          -> <<>>

SpsSyntaxOf(header) ==
    << Put("u", 8, header.profile), Put("u", 8, 0), Put("u", 8, header.level),
       Put("ue", 0, header.id) >>
    \o (IF header.profile \notin HighProfiles THEN <<>>
        ELSE << Put("ue", 0, header.chroma) >>
             \o (IF header.chroma = 3 THEN << Flag(FALSE) >> ELSE <<>>)
             \o Several("ue", 0, header.depths) \o << Flag(FALSE) >>
             \o Optionally(header.scaling, LAMBDA lists :
                               FlattenSeq([i \in DOMAIN lists |-> ScalingList(lists[i])])))
    \o << Put("ue", 0, 0) >> \o PictureOrderSyntax(header.order)
    \o << Put("ue", 0, 1), Flag(FALSE), Put("ue", 0, header.width_mbs - 1),
          Put("ue", 0, header.height_units - 1), Flag(header.progressive) >>
    \o (IF header.progressive THEN <<>> ELSE << Flag(FALSE) >>) \o << Flag(TRUE) >>
    \o Optionally(header.crop, LAMBDA crop : Several("ue", 0, crop))
    \o Optionally(header.vui, VuiSyntax)

-----------------------------------------------------------------------------
(* What a parameter set says: as it was written, and as it was read *)

Given(optional, default) == IF optional = {} THEN default ELSE CHOOSE v \in optional : TRUE

\* The VUI that one without it stands for.
NoVui ==
    [aspect |-> {}, overscan |-> {}, signal |-> {}, location |-> {}, timing |-> {},
     nal_hrd |-> {}, vcl_hrd |-> {}, restriction |-> {}]

Chroma(header) == IF header.profile \in HighProfiles THEN header.chroma ELSE 1

\* The size of a chroma sample and of a map unit; crops are counted in both.
SampleWidth(header)  == IF Chroma(header) \in {1, 2} THEN 2 ELSE 1
SampleHeight(header) == IF Chroma(header) = 1 THEN 2 ELSE 1
UnitHeight(header)   == IF header.progressive THEN 1 ELSE 2

WrittenWidth(header) ==
    LET crop == Given(header.crop, <<0, 0, 0, 0>>)
    IN 16 * header.width_mbs - (crop[1] + crop[2]) * SampleWidth(header)

WrittenHeight(header) ==
    LET crop == Given(header.crop, <<0, 0, 0, 0>>)
    IN UnitHeight(header) * (16 * header.height_units - (crop[3] + crop[4]) * SampleHeight(header))

Written(header) ==
    LET vui    == Given(header.vui, NoVui)
        signal == Given(vui.signal, [full_range |-> FALSE, colour |-> {}])
        timing == Given(vui.timing, [tick |-> 0, scale |-> 0])
    IN [profile |-> header.profile, level |-> header.level, id |-> header.id,
        width |-> WrittenWidth(header), height |-> WrittenHeight(header),
        full_range |-> signal.full_range, colour |-> Given(signal.colour, <<2, 2, 2>>),
        tick |-> timing.tick, scale |-> timing.scale,
        cpbs |-> Len(Given(vui.nal_hrd, <<FALSE>>)), cbr |-> Given(vui.nal_hrd, <<FALSE>>)[1],
        reordered |-> Given(vui.restriction, 0)]

Summary(sps) ==
    [profile |-> sps.profile_idc, level |-> sps.level_idc, id |-> sps.sps_id,
     width |-> Width(sps), height |-> Height(sps),
     full_range |-> sps.video_full_range_flag = 1,
     colour |-> <<sps.colour_primaries, sps.transfer_characteristics, sps.matrix_coefficients>>,
     tick |-> sps.num_units_in_tick, scale |-> sps.time_scale,
     cpbs |-> sps.cpb_cnt_minus1 + 1, cbr |-> sps.cbr_flag = 1,
     reordered |-> sps.max_num_reorder_frames]

\* 8-bit 4:2:0 frames of the Main or High profile in the colours of BT.709 and
\* their narrow range, with a frame rate, one coded picture buffer and, if
\* anything is said about it, pictures in their order.
Conforms(header) ==
    /\ header.profile \in {77, 100} /\ header.progressive
    /\ header.profile = 100 => header.chroma = 1 /\ header.depths = <<0, 0>>
    /\ \E vui \in header.vui :
          /\ vui.signal = {[full_range |-> FALSE, colour |-> {<<1, 1, 1>>}]}
          /\ vui.timing # {}
          /\ \E flags \in vui.nal_hrd : Len(flags) = 1
          /\ vui.restriction \subseteq {0}

\* The values are those a reader may allow, and the picture is not cropped away.
Legal(header) ==
    /\ header.profile \in HighProfiles => header.chroma <= 3 /\ \A i \in 1 .. 2 : header.depths[i] <= 6
    /\ header.order.type \in 0 .. 2
    /\ \A vui \in header.vui : \A flags \in vui.nal_hrd \cup vui.vcl_hrd : Len(flags) <= 32
    /\ \A size \in {WrittenWidth(header), WrittenHeight(header)} : size >= 0
=============================================================================
