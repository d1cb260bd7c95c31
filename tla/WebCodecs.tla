------------------------------- MODULE WebCodecs -------------------------------
(***************************************************************************)
(* What the plug-in finds out about the browser's codecs when it is loaded *)
(* (gst/web/codecs/gstwebcodecs.cpp, utils/h264.cpp), and the conversions  *)
(* that the elements share: pixel formats (gst-libs/gst/web/               *)
(* gstwebutils.cpp), the layout of audio samples                           *)
(* (gstwebcodecsaudiodecoder.cpp), and the caps that webdownload and       *)
(* webupload make of caps.                                                 *)
(*                                                                         *)
(* The scan asks VideoDecoder.isConfigSupported for every H.264 profile    *)
(* and level, first in software and then in hardware, and registers an     *)
(* element for each that decodes one of them.                              *)
(***************************************************************************)
EXTENDS Integers, Sequences, FiniteSets

CONSTANTS Channels,  \* bound: channel counts that are tried
          Frames,    \* bound: frames of an AudioData that are tried
          Levels     \* bound: level_idc of what the browser decodes

ASSUME CodecsAssumption ==
    /\ Channels \subseteq Nat \ {0}
    /\ Frames \subseteq Nat \ {0}
    /\ Levels \subseteq Nat \ {0}

--------------------------------------------------------------------------------
(* Pixel formats: three tables, of which the first two should agree and the  *)
(* third turn them round                                                     *)

\* gst_web_utils_video_format_from_web_format
FromWebFormat ==
    [I420 |-> "I420", I420A |-> "A420", I422 |-> "Y42B", I444 |-> "Y444",
     NV12 |-> "NV12", RGBA |-> "RGBA", RGBX |-> "RGBx", BGRA |-> "BGRA",
     BGRX |-> "BGRx"]

\* gst_web_codecs_video_decoder_get_format
DecoderFormat ==
    [I420 |-> "I420", I420A |-> "A420", I422 |-> "Y42B", I444 |-> "Y444",
     NV12 |-> "NV12", RGBA |-> "RGBA", RGBX |-> "RGBx", BGRA |-> "BGRA",
     BGRX |-> "BGRx"]

\* Mutant: the X and A formats are mixed up.
ToWebFormatMixed ==
    [I420 |-> "I420", A420 |-> "I420A", Y42B |-> "I422", Y444 |-> "I444",
     NV12 |-> "NV12", RGBA |-> "RGBA", RGBx |-> "RGBX", BGRA |-> "BGRX",
     BGRx |-> "BGRA"]

\* gst_web_utils_video_format_to_web_format
ToWebFormat ==
    [I420 |-> "I420", A420 |-> "I420A", Y42B |-> "I422", Y444 |-> "I444",
     NV12 |-> "NV12", RGBA |-> "RGBA", RGBx |-> "RGBX", BGRA |-> "BGRA",
     BGRx |-> "BGRX"]

--------------------------------------------------------------------------------
(* Audio samples *)

SampleFormats == {"u8", "s16", "f32", "u8-planar", "s16-planar", "f32-planar"}

Planar(format) == format \in {"u8-planar", "s16-planar", "f32-planar"}

\* Bytes of a sample in the GstAudioFormat of get_format.
Width(format) ==
    CASE format \in {"u8", "u8-planar"}   -> 1
      [] format \in {"s16", "s16-planar"} -> 2
      [] format \in {"f32", "f32-planar"} -> 4

\* AudioData.allocationSize of one plane.
PlaneSize(format, channels, frames) ==
    IF Planar(format) THEN frames * Width(format)
                      ELSE frames * channels * Width(format)

Planes(format, channels) == IF Planar(format) THEN channels ELSE 1

\* Mutant: the loop keeps the size of the last plane.
LastPlaneSize(format, channels, frames) == PlaneSize(format, channels, frames)

\* get_total_allocation_size: the planes, all of the same size, added up.
TotalSize(format, channels, frames) ==
    Planes(format, channels) * PlaneSize(format, channels, frames)

\* audio_data_to_buffer: where plane p is copied to.
CopyOffset(format, channels, frames, p) == p * PlaneSize(format, channels, frames)

\* The samples that on_output tells gst_buffer_add_audio_meta: the size of the
\* buffer over the bpf of the GstAudioInfo in output_info.
Samples(info, size) == size \div (info.channels * Width(info.format))

\* gst_buffer_add_audio_meta: where plane p is, in the GstAudioMeta.
MetaOffset(info, samples, p) == p * samples * Width(info.format)

NoInfo == [format |-> "none", channels |-> 0]

\* gst_web_codecs_audio_guess_channel_positions, by the numbers of the
\* GstAudioChannelPosition. Mono by itself, stereo, 5.1.
None == -3
Mono == -2
Positions(channels) ==
    IF channels = 1 THEN <<Mono>>
    ELSE IF channels \in {2, 6} THEN [i \in 1..channels |-> i - 1]
    ELSE [i \in 1..channels |-> None]

--------------------------------------------------------------------------------
(* Memory features in caps *)

Features == {"system", "videoframe"}

\* gst_web_download_transform_caps: VideoFrames in, system memory out, and
\* either as it is.
DownloadCaps(direction, features) ==
    features \cup {IF direction = "src" THEN "videoframe" ELSE "system"}

\* Mutant: the directions of webupload are those of webdownload.
UploadCapsTurned(direction, features) ==
    features \cup {IF direction = "src" THEN "videoframe" ELSE "system"}

\* gst_web_upload_transform_caps, the other way round.
UploadCaps(direction, features) ==
    features \cup {IF direction = "src" THEN "system" ELSE "videoframe"}

--------------------------------------------------------------------------------
(* The scan *)

\* gst_codec_utils_h264_profiles, gst_codec_utils_h264_levels
ProfileNames ==
    <<"constrained-baseline", "baseline", "main", "extended", "constrained-high",
      "progressive-high", "high", "high-10-intra", "progressive-high-10", "high-10",
      "high-4:2:2-intra", "high-4:2:2", "high-4:4:4-intra", "high-4:4:4",
      "cavlc-4:4:4-intra", "multiview-high", "stereo-high",
      "scalable-constrained-baseline", "scalable-baseline", "scalable-high-intra",
      "scalable-constrained-high", "scalable-high">>
LevelNames ==
    <<"1", "1b", "1.1", "1.2", "1.3", "2", "2.1", "2.2", "3", "3.1", "3.2", "4", "4.1",
      "4.2", "5", "5.1", "5.2", "6", "6.1", "6.2">>

\* The numbers of GST_CODEC_UTILS_H264_PROFILES and GST_CODEC_UTILS_H264_LEVELS,
\* which are the indices of the last ones.
NProfiles == Len(ProfileNames) - 1
NLevels   == Len(LevelNames) - 1

\* gst_codec_utils_h264_set_level_and_profile on a SPS of zeros: profile_idc and
\* the constraint flags, and level_idc. Most profiles are left at zero, and so
\* is level 1b, which is looked for as 1.b.
SpsProfile(name) ==
    CASE name = "constrained-baseline" -> <<66, 64>>
      [] name = "baseline"             -> <<66, 0>>
      [] name = "main"                 -> <<77, 0>>
      [] name = "extended"             -> <<88, 0>>
      [] OTHER                         -> <<0, 0>>

LevelIdc == <<10, 0, 11, 12, 13, 20, 21, 22, 30, 31, 32, 40, 41, 42, 50, 51, 51, 60, 61, 62>>

\* The codec string of a profile and a level, avc1.PPCCLL, as three numbers.
CodecString(profile, level) ==
    Append(SpsProfile(ProfileNames[profile]), LevelIdc[level])

\* A browser decodes, with each acceleration, one of these or nothing: the
\* profiles that are asked for, or the high profile.
Configs ==
    {<<p[1], p[2], l>> : p \in {<<66, 64>>, <<66, 0>>, <<77, 0>>, <<88, 0>>, <<100, 0>>},
                         l \in Levels}

VARIABLES
    decodes,    \* what the browser decodes, in software and in hardware
    codec,      \* "H264SW", "H264HW", then "AACSW", then "done"
    profile, level,  \* indices of the loops of the scan
    supported,  \* one of them was supported
    elements,   \* the elements registered, with their ranks
    data,       \* what an element converted: a frame, samples or caps
    outputInfo, \* output_info of an audio decoder, NoInfo without output_caps
    changed     \* history: an AudioData was unlike the one before

audioInfo  == <<outputInfo, changed>>
codecsVars == <<decodes, codec, profile, level, supported, elements, data, audioInfo>>

CodecsInit ==
    /\ decodes \in [{"H264SW", "H264HW"} -> {{}} \cup {{c} : c \in Configs}]
    /\ codec = "H264SW"
    /\ profile = 1 /\ level = 1
    /\ supported = FALSE
    /\ elements = {}
    /\ data = [kind |-> "none"]
    /\ outputInfo = NoInfo /\ changed = FALSE

\* Mutant: the answer to the last question counts.
AnswerLast(answer) == supported' = answer

\* supported |= conf_supported
Answer(answer) == supported' = (supported \/ answer)

\* is_config_supported for one profile and level, and the loops' next ones.
Ask ==
    /\ codec \in {"H264SW", "H264HW"}
    /\ profile <= NProfiles
    /\ Answer(CodecString(profile, level) \in decodes[codec])
    /\ IF level < NLevels
       THEN level' = level + 1 /\ UNCHANGED profile
       ELSE level' = 1 /\ profile' = profile + 1
    /\ UNCHANGED <<decodes, codec, elements, data, audioInfo>>

\* register_decoder: a subtype of the decoder, with a rank.
Register(name, rank) == elements' = elements \cup {[name |-> name, rank |-> rank]}

RegisterH264 ==
    /\ codec \in {"H264SW", "H264HW"}
    /\ profile > NProfiles
    /\ IF ~supported THEN UNCHANGED elements
       ELSE IF codec = "H264HW" THEN Register(codec, "primary")
                                ELSE Register(codec, "secondary")
    /\ codec' = IF codec = "H264SW" THEN "H264HW" ELSE "AACSW"
    /\ profile' = 1 /\ level' = 1 /\ supported' = FALSE
    /\ UNCHANGED <<decodes, data, audioInfo>>

\* scan_audio_decoders asks nothing but whether there is an AudioDecoder.
RegisterAudio ==
    /\ codec = "AACSW"
    /\ \E present \in BOOLEAN :
          IF present THEN Register(codec, "secondary") ELSE UNCHANGED elements
    /\ codec' = "done"
    /\ UNCHANGED <<decodes, profile, level, supported, data, audioInfo>>

\* An element is asked for a conversion.
BeginConvert ==
    /\ codec = "done"
    /\ UNCHANGED <<decodes, codec, profile, level, supported, elements>>

\* get_format of a decoded VideoFrame, and the format that webupload gives the
\* browser for such a frame.
ConvertPixels ==
    /\ BeginConvert /\ data.kind = "none"
    /\ UNCHANGED audioInfo
    /\ \E e \in elements, f \in DOMAIN DecoderFormat :
          /\ e.name # "AACSW"
          /\ data' = [kind |-> "pixels", web |-> f, gst |-> DecoderFormat[f],
                      back |-> ToWebFormat[DecoderFormat[f]]]

\* get_format, of the first AudioData since the start only.
MakeInfo(format, channels) ==
    outputInfo' = IF outputInfo = NoInfo THEN [format |-> format, channels |-> channels]
                                         ELSE outputInfo

\* An AudioData that was converted, and one that negotiate refused.
Converted(format, channels, frames, info, samples) ==
    [kind |-> "samples", format |-> format, channels |-> channels, frames |-> frames,
     positions |-> Positions(info.channels),
     size |-> TotalSize(format, channels, frames), samples |-> samples,
     copied |-> [p \in 0..Planes(format, channels) - 1 |->
                    CopyOffset(format, channels, frames, p)],
     meta |-> [p \in 0..Planes(info.format, info.channels) - 1 |->
                    MetaOffset(info, samples, p)]]
Refused(format, channels) == [kind |-> "refused", format |-> format, channels |-> channels]

\* on_output: the buffer is made from the AudioData, its GstAudioMeta and its caps
\* from output_info. Only the first is negotiated, and may be refused.
ConvertSamples ==
    /\ BeginConvert /\ data.kind \in {"none", "samples", "refused"}
    /\ \E e \in elements : e.name = "AACSW"
    /\ \E f \in SampleFormats, c \in Channels, n \in Frames :
          /\ MakeInfo(f, c)
          /\ changed' = (\/ changed
                         \/ data.kind # "none" /\ <<f, c>> # <<data.format, data.channels>>)
          /\ \/ outputInfo = NoInfo /\ data' = Refused(f, c)
             \/ data' = Converted(f, c, n, outputInfo',
                                  Samples(outputInfo', TotalSize(f, c, n)))

\* stop of the audio decoder clears output_caps.
StopAudio ==
    /\ data.kind \in {"samples", "refused"}
    /\ data' = [kind |-> "none"]
    /\ outputInfo' = NoInfo /\ changed' = FALSE
    /\ UNCHANGED <<decodes, codec, profile, level, supported, elements>>

\* transform_caps of webdownload and webupload, from caps of one feature that a
\* sink pad is offered.
ConvertCaps ==
    /\ BeginConvert /\ data.kind = "none"
    /\ UNCHANGED audioInfo
    /\ \E f \in Features :
          data' = [kind |-> "caps", feature |-> f, download |-> DownloadCaps("sink", {f}),
                   upload |-> UploadCaps("sink", {f})]

CodecsNext == Ask \/ RegisterH264 \/ RegisterAudio \/ ConvertPixels \/ ConvertSamples
        \/ StopAudio \/ ConvertCaps

CodecsSpec == CodecsInit /\ [][CodecsNext]_codecsVars

--------------------------------------------------------------------------------
(* Correctness *)

\* Type invariant.
CodecsTypeOK ==
    /\ decodes \in [{"H264SW", "H264HW"} -> SUBSET Configs]
    /\ codec \in {"H264SW", "H264HW", "AACSW", "done"}
    /\ profile \in 1..NProfiles + 1 /\ level \in 1..NLevels
    /\ supported \in BOOLEAN
    /\ elements \subseteq [name : {"H264SW", "H264HW", "AACSW"},
                           rank : {"primary", "secondary"}]
    /\ data.kind \in {"none", "pixels", "samples", "refused", "caps"}
    /\ outputInfo \in {NoInfo} \cup [format : SampleFormats, channels : Channels]
    /\ changed \in BOOLEAN

\* A pixel format means the same wherever it is translated: the decoder and the
\* library agree, and what webupload tells the browser is what came from it.
FormatsInverse ==
    data.kind = "pixels" =>
        /\ data.gst = FromWebFormat[data.web]
        /\ data.back = data.web

\* The planes of an AudioData fit the buffer. As long as every one since the start
\* is like the one before, a plane is copied to where the GstAudioMeta of the buffer,
\* computed from the total size, says it is, and the meta has as many samples. The
\* channels are all named, in the order of GStreamer, or none is.
PlanesInPlace ==
    data.kind = "samples" =>
        /\ \A p \in DOMAIN data.copied :
              data.copied[p] + PlaneSize(data.format, data.channels, data.frames)
                 <= data.size
        /\ ~changed => data.meta = data.copied /\ data.samples = data.frames
        /\ \/ \A c, d \in DOMAIN data.positions :
                 c < d => data.positions[c] < data.positions[d]
           \/ \A c \in DOMAIN data.positions : data.positions[c] = None

\* Caps are transformed alike from both sides: one memory becomes another in one
\* direction if and only if the other may come from it, as the negotiation of
\* the base class takes for granted; and each element goes one way only.
CapsAgree ==
    data.kind = "caps" =>
        /\ \A g \in Features :
              /\ g \in data.download <=> data.feature \in DownloadCaps("src", {g})
              /\ g \in data.upload <=> data.feature \in UploadCaps("src", {g})
        /\ data.download \cap data.upload = {data.feature}

\* What the profiles and levels that the scan can name are in H.264, without
\* levels 1b, 5.2 and 6.2.
Askable ==
    {c \in Configs : c[1] \in {66, 77, 88} /\
                     c[3] \in {10, 11, 12, 13, 20, 21, 22, 30, 31, 32, 40, 41, 42, 50, 51, 60, 61}}

\* An element is registered for software, or for hardware, exactly if the browser
\* decodes one of those, whatever order the answers come in. (And the types.)
DecodersFound ==
    /\ CodecsTypeOK
    /\ codec = "done" =>
        \A name \in {"H264SW", "H264HW"} :
            (\E e \in elements : e.name = name) <=> decodes[name] \cap Askable # {}

--------------------------------------------------------------------------------
(* Not kept by the code *)

\* The GstAudioMeta describes the buffer it is on.
MetaMatches ==
    data.kind = "samples" => data.meta = data.copied /\ data.samples = data.frames

\* "Get all profiles", "Get all levels": a browser that decodes any H.264 gets
\* its element.
EveryDecoderFound ==
    codec = "done" =>
        \A name \in {"H264SW", "H264HW"} :
            (\E e \in elements : e.name = name) <=> decodes[name] # {}

================================================================================
