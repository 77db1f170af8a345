-------------------------- MODULE AvtpStreamLayout --------------------------
(***************************************************************************)
(* The headers of the AVTP stream formats: where every field of a header   *)
(* lies, and through which descriptor each named accessor reads or writes. *)
(* For every format X of include/avtp:                                     *)
(*                                                                         *)
(* XDesc       the descriptor tables, version -> field ->                  *)
(*             <<quadlet, offset, bits>> (bits = 0: absent in the version) *)
(* XGetters    the accessors that dispatch on the version field of the     *)
(*             PDU: version -> name -> [at, type], the descriptors it      *)
(*             touches and the bits of its C type                          *)
(* XSetters    the same for the setters                                    *)
(* XGettersOf  the accessors pinned to one version (_V0, _V1), some of     *)
(*             which delegate to those of the common stream header or of   *)
(*             the alternative header, that is to another table            *)
(* XSettersOf  the same for the setters                                    *)
(* XInit       the bits of the header after Avtp_X_Init                    *)
(***************************************************************************)
EXTENDS AvtpBits

(* include/avtp/CommonHeader.h: the first bits of every AVTPDU *)

CommonHeaderDesc == [SUBTYPE |-> <<0, 0, 8>>, H |-> <<0, 8, 1>>, VERSION |-> <<0, 9, 3>>]

\* Mutant of StreamInit: the version is not written.
StreamInit_NoVersion(desc, subtype, v) ==
    SetBits(SetBits({}, CommonHeaderDesc.SUBTYPE, NumBits(subtype)), desc.SV, {0})

\* X_InitV0 and X_InitV1: clear the header, write the subtype, the version of a
\* version 1 PDU and, through the dispatching setter, the stream-valid bit.
StreamInit(desc, subtype, v) ==
    LET typed == SetBits({}, CommonHeaderDesc.SUBTYPE, NumBits(subtype))
        versioned == IF v = 1 THEN SetBits(typed, CommonHeaderDesc.VERSION, {0}) ELSE typed
    IN SetBits(versioned, desc.SV, {0})

---------------------------------------------------------------------------
(* Accessors that are not a plain read or write of their own field *)

\* Version-pinned accessors of the listed fields call those of the common header.
Redirect(accessors, common, fields) ==
    [n \in DOMAIN accessors |-> IF n \in fields THEN common[n] ELSE accessors[n]]

\* GetSequenceNum of CRF and NTSCF: version 0 has only the 8-bit field.
LsbAsSequenceNum(v, lsb, accessors) ==
    [accessors EXCEPT !.SEQUENCE_NUM.at = IF v = 1 THEN @ ELSE <<lsb>>]

\* Mutant of WithLsbCopy: the copy is not written.
WithLsbCopy_Missing(v, lsb, accessors) == accessors

\* SetSequenceNum of TSCF: version 1 also writes the copy of the low 8 bits.
WithLsbCopy(v, lsb, accessors) ==
    [accessors EXCEPT !.SEQUENCE_NUM.at = IF v = 1 THEN @ \o <<lsb>> ELSE @]

\* SetSequenceNum of CRF and NTSCF: both of the above.
SequenceNumWithLsb(v, lsb, accessors) ==
    WithLsbCopy(v, lsb, LsbAsSequenceNum(v, lsb, accessors))

\* GetSequenceNumLsb of TSCF, whose copy has no field name of its own.
WithLsbGetter(lsb, accessors) ==
    [n \in DOMAIN accessors \cup {"SEQUENCE_NUM_LSB"} |->
        IF n = "SEQUENCE_NUM_LSB" THEN [at |-> <<lsb>>, type |-> 8] ELSE accessors[n]]

---------------------------------------------------------------------------
(* CommonStreamHeader.h and AlternativeHeader.h *)

CshDesc == [v \in Versions |-> IF v = 1 THEN
    [SV |-> <<0, 8, 1>>, MR |-> <<0, 12, 1>>, FSD |-> <<0, 13, 2>>,
     TV |-> <<0, 15, 1>>, SEQUENCE_NUM |-> <<3, 0, 32>>, FSD0 |-> <<0, 16, 8>>,
     FSD1 |-> <<0, 24, 7>>, TU |-> <<0, 31, 1>>, STREAM_ID |-> <<1, 0, 64>>,
     AVTP_TIMESTAMP |-> <<4, 0, 64>>,
     PTP_GRANDMASTER_IDENTITY |-> <<6, 0, 64>>,
     STREAM_DATA_LENGTH |-> <<9, 0, 16>>]
    ELSE
    [SV |-> <<0, 8, 1>>, MR |-> <<0, 12, 1>>, FSD |-> <<0, 13, 2>>,
     TV |-> <<0, 15, 1>>, SEQUENCE_NUM |-> <<0, 16, 8>>, FSD0 |-> <<0, 0, 0>>,
     FSD1 |-> <<0, 24, 7>>, TU |-> <<0, 31, 1>>, STREAM_ID |-> <<1, 0, 64>>,
     AVTP_TIMESTAMP |-> <<3, 0, 32>>, PTP_GRANDMASTER_IDENTITY |-> <<0, 0, 0>>,
     STREAM_DATA_LENGTH |-> <<5, 0, 16>>]]

CshGetters == [v \in Versions |-> Named(CshDesc[v],
    {"SV", "MR", "TV", "TU"}, {"FSD", "FSD0", "FSD1"}, {"STREAM_DATA_LENGTH"},
    {"SEQUENCE_NUM"},
    {"STREAM_ID", "AVTP_TIMESTAMP", "PTP_GRANDMASTER_IDENTITY"})]

CshGettersOf == CshGetters

CshSetters == [v \in Versions |-> Named(CshDesc[v],
    {"SV", "MR", "TV", "TU"}, {"FSD", "FSD0", "FSD1"}, {"STREAM_DATA_LENGTH"},
    {"SEQUENCE_NUM"},
    {"STREAM_ID", "AVTP_TIMESTAMP", "PTP_GRANDMASTER_IDENTITY"})]

CshSettersOf == CshSetters

AhDesc == [v \in Versions |-> IF v = 1 THEN
    [RESERVED1 |-> <<0, 12, 20>>, SEQUENCE_NUM |-> <<1, 0, 32>>,
     PTP_GRANDMASTER_IDENTITY |-> <<2, 0, 64>>]
    ELSE
    [RESERVED1 |-> <<0, 0, 0>>, SEQUENCE_NUM |-> <<0, 0, 0>>,
     PTP_GRANDMASTER_IDENTITY |-> <<0, 0, 0>>]]

AhGetters == [v \in Versions |-> Named(AhDesc[v],
    {}, {}, {}, {"SEQUENCE_NUM"}, {"PTP_GRANDMASTER_IDENTITY"})]

AhGettersOf == AhGetters

AhSetters == [v \in Versions |-> Named(AhDesc[v],
    {}, {}, {}, {"SEQUENCE_NUM"}, {"PTP_GRANDMASTER_IDENTITY"})]

AhSettersOf == AhSetters

---------------------------------------------------------------------------
(* aaf/Aaf.h *)

AafDesc == [v \in Versions |-> IF v = 1 THEN
    [SV |-> <<0, 8, 1>>, MR |-> <<0, 12, 1>>, FSD |-> <<0, 13, 2>>,
     TV |-> <<0, 15, 1>>, SEQUENCE_NUM |-> <<3, 0, 32>>, FSD0 |-> <<0, 16, 8>>,
     FSD1 |-> <<0, 24, 7>>, TU |-> <<0, 31, 1>>, STREAM_ID |-> <<1, 0, 64>>,
     AVTP_TIMESTAMP |-> <<4, 0, 64>>,
     PTP_GRANDMASTER_IDENTITY |-> <<6, 0, 64>>,
     STREAM_DATA_LENGTH |-> <<9, 0, 16>>, FORMAT |-> <<8, 0, 8>>,
     AAF_FORMAT_SPECIFIC_DATA_1 |-> <<8, 8, 24>>, AFSD |-> <<9, 16, 3>>,
     SP |-> <<9, 19, 1>>, EVT |-> <<9, 20, 4>>,
     AAF_FORMAT_SPECIFIC_DATA_2 |-> <<9, 24, 8>>]
    ELSE
    [SV |-> <<0, 8, 1>>, MR |-> <<0, 12, 1>>, FSD |-> <<0, 13, 2>>,
     TV |-> <<0, 15, 1>>, SEQUENCE_NUM |-> <<0, 16, 8>>, FSD0 |-> <<0, 0, 0>>,
     FSD1 |-> <<0, 24, 7>>, TU |-> <<0, 31, 1>>, STREAM_ID |-> <<1, 0, 64>>,
     AVTP_TIMESTAMP |-> <<3, 0, 32>>, PTP_GRANDMASTER_IDENTITY |-> <<0, 0, 0>>,
     STREAM_DATA_LENGTH |-> <<5, 0, 16>>, FORMAT |-> <<4, 0, 8>>,
     AAF_FORMAT_SPECIFIC_DATA_1 |-> <<4, 8, 24>>, AFSD |-> <<5, 16, 3>>,
     SP |-> <<5, 19, 1>>, EVT |-> <<5, 20, 4>>,
     AAF_FORMAT_SPECIFIC_DATA_2 |-> <<5, 24, 8>>]]

AafGetters == [v \in Versions |-> Named(AafDesc[v],
    {"SV", "MR", "TV", "TU", "SP"},
    {"AFSD", "EVT", "AAF_FORMAT_SPECIFIC_DATA_2"}, {"STREAM_DATA_LENGTH"},
    {"SEQUENCE_NUM", "FORMAT", "AAF_FORMAT_SPECIFIC_DATA_1"},
    {"STREAM_ID", "AVTP_TIMESTAMP", "PTP_GRANDMASTER_IDENTITY"})]

AafGettersOf == [v \in Versions |->
    Redirect(AafGetters[v], CshGettersOf[v],
    {"SV", "MR", "TV", "TU", "SEQUENCE_NUM", "STREAM_ID", "AVTP_TIMESTAMP",
     "PTP_GRANDMASTER_IDENTITY", "STREAM_DATA_LENGTH"})]

AafSetters == [v \in Versions |-> Named(AafDesc[v],
    {"SV", "MR", "TV", "TU", "SP"},
    {"AFSD", "EVT", "AAF_FORMAT_SPECIFIC_DATA_2"}, {"STREAM_DATA_LENGTH"},
    {"SEQUENCE_NUM", "FORMAT", "AAF_FORMAT_SPECIFIC_DATA_1"},
    {"STREAM_ID", "AVTP_TIMESTAMP", "PTP_GRANDMASTER_IDENTITY"})]

AafSettersOf == [v \in Versions |->
    Redirect(AafSetters[v], CshSettersOf[v],
    {"SV", "MR", "TV", "TU", "SEQUENCE_NUM", "STREAM_ID", "AVTP_TIMESTAMP",
     "PTP_GRANDMASTER_IDENTITY", "STREAM_DATA_LENGTH"})]

AafInit == [v \in Versions |-> StreamInit(AafDesc[v], 2, v)]

---------------------------------------------------------------------------
(* aaf/Pcm.h *)

PcmDesc == [v \in Versions |-> IF v = 1 THEN
    [SV |-> <<0, 8, 1>>, MR |-> <<0, 12, 1>>, FSD |-> <<0, 13, 2>>,
     TV |-> <<0, 15, 1>>, SEQUENCE_NUM |-> <<3, 0, 32>>, FSD0 |-> <<0, 16, 8>>,
     FSD1 |-> <<0, 24, 7>>, TU |-> <<0, 31, 1>>, STREAM_ID |-> <<1, 0, 64>>,
     AVTP_TIMESTAMP |-> <<4, 0, 64>>,
     PTP_GRANDMASTER_IDENTITY |-> <<6, 0, 64>>,
     STREAM_DATA_LENGTH |-> <<9, 0, 16>>, FORMAT |-> <<8, 0, 8>>,
     NSR |-> <<8, 8, 4>>, RSV2 |-> <<8, 12, 2>>,
     CHANNELS_PER_FRAME |-> <<8, 14, 10>>, BIT_DEPTH |-> <<8, 24, 8>>,
     RSV3 |-> <<9, 16, 3>>, SP |-> <<9, 19, 1>>, EVT |-> <<9, 20, 4>>,
     RESERVED2 |-> <<9, 24, 8>>]
    ELSE
    [SV |-> <<0, 8, 1>>, MR |-> <<0, 12, 1>>, FSD |-> <<0, 13, 2>>,
     TV |-> <<0, 15, 1>>, SEQUENCE_NUM |-> <<0, 16, 8>>, FSD0 |-> <<0, 0, 0>>,
     FSD1 |-> <<0, 24, 7>>, TU |-> <<0, 31, 1>>, STREAM_ID |-> <<1, 0, 64>>,
     AVTP_TIMESTAMP |-> <<3, 0, 32>>, PTP_GRANDMASTER_IDENTITY |-> <<0, 0, 0>>,
     STREAM_DATA_LENGTH |-> <<5, 0, 16>>, FORMAT |-> <<4, 0, 8>>,
     NSR |-> <<4, 8, 4>>, RSV2 |-> <<4, 12, 2>>,
     CHANNELS_PER_FRAME |-> <<4, 14, 10>>, BIT_DEPTH |-> <<4, 24, 8>>,
     RSV3 |-> <<5, 16, 3>>, SP |-> <<5, 19, 1>>, EVT |-> <<5, 20, 4>>,
     RESERVED2 |-> <<5, 24, 8>>]]

PcmGetters == [v \in Versions |-> Named(PcmDesc[v],
    {"SV", "MR", "TV", "TU", "SP"}, {"BIT_DEPTH", "EVT"},
    {"CHANNELS_PER_FRAME", "STREAM_DATA_LENGTH"},
    {"SEQUENCE_NUM", "FORMAT", "NSR"},
    {"STREAM_ID", "AVTP_TIMESTAMP", "PTP_GRANDMASTER_IDENTITY"})]

PcmGettersOf == [v \in Versions |->
    Redirect(PcmGetters[v], CshGettersOf[v],
    {"SV", "MR", "TV", "TU", "SEQUENCE_NUM", "STREAM_ID", "AVTP_TIMESTAMP",
     "PTP_GRANDMASTER_IDENTITY", "STREAM_DATA_LENGTH"})]

PcmSetters == [v \in Versions |-> Named(PcmDesc[v],
    {"SV", "MR", "TV", "TU", "SP"}, {"BIT_DEPTH", "EVT"},
    {"CHANNELS_PER_FRAME", "STREAM_DATA_LENGTH"},
    {"SEQUENCE_NUM", "FORMAT", "NSR"},
    {"STREAM_ID", "AVTP_TIMESTAMP", "PTP_GRANDMASTER_IDENTITY"})]

PcmSettersOf == [v \in Versions |->
    Redirect(PcmSetters[v], CshSettersOf[v],
    {"SV", "MR", "TV", "TU", "SEQUENCE_NUM", "STREAM_ID", "AVTP_TIMESTAMP",
     "PTP_GRANDMASTER_IDENTITY", "STREAM_DATA_LENGTH"})]

PcmInit == [v \in Versions |-> StreamInit(PcmDesc[v], 2, v)]

---------------------------------------------------------------------------
(* cvf/Cvf.h *)

CvfDesc == [v \in Versions |-> IF v = 1 THEN
    [SV |-> <<0, 8, 1>>, MR |-> <<0, 12, 1>>, FSD |-> <<0, 13, 2>>,
     TV |-> <<0, 15, 1>>, SEQUENCE_NUM |-> <<3, 0, 32>>, FSD0 |-> <<0, 16, 8>>,
     FSD1 |-> <<0, 24, 7>>, TU |-> <<0, 31, 1>>, STREAM_ID |-> <<1, 0, 64>>,
     AVTP_TIMESTAMP |-> <<4, 0, 64>>,
     PTP_GRANDMASTER_IDENTITY |-> <<6, 0, 64>>,
     STREAM_DATA_LENGTH |-> <<9, 0, 16>>, FORMAT |-> <<8, 0, 8>>,
     FORMAT_SUBTYPE |-> <<8, 8, 8>>, RESERVED2 |-> <<8, 16, 16>>,
     RSV2 |-> <<9, 16, 2>>, PTV |-> <<9, 18, 1>>, M |-> <<9, 19, 1>>,
     EVT |-> <<9, 20, 4>>, RESERVED3 |-> <<9, 24, 8>>]
    ELSE
    [SV |-> <<0, 8, 1>>, MR |-> <<0, 12, 1>>, FSD |-> <<0, 13, 2>>,
     TV |-> <<0, 15, 1>>, SEQUENCE_NUM |-> <<0, 16, 8>>, FSD0 |-> <<0, 0, 0>>,
     FSD1 |-> <<0, 24, 7>>, TU |-> <<0, 31, 1>>, STREAM_ID |-> <<1, 0, 64>>,
     AVTP_TIMESTAMP |-> <<3, 0, 32>>, PTP_GRANDMASTER_IDENTITY |-> <<0, 0, 0>>,
     STREAM_DATA_LENGTH |-> <<5, 0, 16>>, FORMAT |-> <<4, 0, 8>>,
     FORMAT_SUBTYPE |-> <<4, 8, 8>>, RESERVED2 |-> <<4, 16, 16>>,
     RSV2 |-> <<5, 16, 2>>, PTV |-> <<5, 18, 1>>, M |-> <<5, 19, 1>>,
     EVT |-> <<5, 20, 4>>, RESERVED3 |-> <<5, 24, 8>>]]

CvfGetters == [v \in Versions |-> Named(CvfDesc[v],
    {"SV", "MR", "TV", "TU", "PTV", "M"}, {"EVT"}, {"STREAM_DATA_LENGTH"},
    {"SEQUENCE_NUM", "FORMAT", "FORMAT_SUBTYPE"},
    {"STREAM_ID", "AVTP_TIMESTAMP", "PTP_GRANDMASTER_IDENTITY"})]

CvfGettersOf == [v \in Versions |->
    Redirect(CvfGetters[v], CshGettersOf[v],
    {"SV", "MR", "TV", "TU", "SEQUENCE_NUM", "STREAM_ID", "AVTP_TIMESTAMP",
     "PTP_GRANDMASTER_IDENTITY", "STREAM_DATA_LENGTH"})]

CvfSetters == [v \in Versions |-> Named(CvfDesc[v],
    {"SV", "MR", "TV", "TU", "PTV", "M"}, {"EVT"}, {"STREAM_DATA_LENGTH"},
    {"SEQUENCE_NUM", "FORMAT", "FORMAT_SUBTYPE"},
    {"STREAM_ID", "AVTP_TIMESTAMP", "PTP_GRANDMASTER_IDENTITY"})]

CvfSettersOf == [v \in Versions |->
    Redirect(CvfSetters[v], CshSettersOf[v],
    {"SV", "MR", "TV", "TU", "SEQUENCE_NUM", "STREAM_ID", "AVTP_TIMESTAMP",
     "PTP_GRANDMASTER_IDENTITY", "STREAM_DATA_LENGTH"})]

CvfInit == [v \in Versions |-> SetBits(StreamInit(CvfDesc[v], 3, v), CvfDesc[v].FORMAT, NumBits(2))]

---------------------------------------------------------------------------
(* Rvf.h *)

RvfDesc == [v \in Versions |-> IF v = 1 THEN
    [SV |-> <<0, 8, 1>>, MR |-> <<0, 12, 1>>, FSD |-> <<0, 13, 2>>,
     TV |-> <<0, 15, 1>>, SEQUENCE_NUM |-> <<3, 0, 32>>, FSD0 |-> <<0, 16, 8>>,
     FSD1 |-> <<0, 24, 7>>, TU |-> <<0, 31, 1>>, STREAM_ID |-> <<1, 0, 64>>,
     AVTP_TIMESTAMP |-> <<4, 0, 64>>,
     PTP_GRANDMASTER_IDENTITY |-> <<6, 0, 64>>,
     STREAM_DATA_LENGTH |-> <<9, 0, 16>>, ACTIVE_PIXELS |-> <<8, 0, 16>>,
     TOTAL_LINES |-> <<8, 16, 16>>, AP |-> <<9, 16, 1>>, R |-> <<9, 17, 1>>,
     F |-> <<9, 18, 1>>, EF |-> <<9, 19, 1>>, EVT |-> <<9, 20, 4>>,
     PD |-> <<9, 24, 1>>, I |-> <<9, 25, 1>>, RESERVED2 |-> <<9, 26, 6>>]
    ELSE
    [SV |-> <<0, 8, 1>>, MR |-> <<0, 12, 1>>, FSD |-> <<0, 13, 2>>,
     TV |-> <<0, 15, 1>>, SEQUENCE_NUM |-> <<0, 16, 8>>, FSD0 |-> <<0, 0, 0>>,
     FSD1 |-> <<0, 24, 7>>, TU |-> <<0, 31, 1>>, STREAM_ID |-> <<1, 0, 64>>,
     AVTP_TIMESTAMP |-> <<3, 0, 32>>, PTP_GRANDMASTER_IDENTITY |-> <<0, 0, 0>>,
     STREAM_DATA_LENGTH |-> <<5, 0, 16>>, ACTIVE_PIXELS |-> <<4, 0, 16>>,
     TOTAL_LINES |-> <<4, 16, 16>>, AP |-> <<5, 16, 1>>, R |-> <<5, 17, 1>>,
     F |-> <<5, 18, 1>>, EF |-> <<5, 19, 1>>, EVT |-> <<5, 20, 4>>,
     PD |-> <<5, 24, 1>>, I |-> <<5, 25, 1>>, RESERVED2 |-> <<5, 26, 6>>]]

RvfGetters == [v \in Versions |-> Named(RvfDesc[v],
    {"SV", "MR", "TV", "TU", "AP", "F", "EF", "PD", "I"}, {"EVT"},
    {"ACTIVE_PIXELS", "TOTAL_LINES", "STREAM_DATA_LENGTH"}, {"SEQUENCE_NUM"},
    {"STREAM_ID", "AVTP_TIMESTAMP", "PTP_GRANDMASTER_IDENTITY"})]

RvfGettersOf == [v \in Versions |->
    Redirect(RvfGetters[v], CshGettersOf[v],
    {"SV", "MR", "TV", "TU", "SEQUENCE_NUM", "STREAM_ID", "AVTP_TIMESTAMP",
     "PTP_GRANDMASTER_IDENTITY", "STREAM_DATA_LENGTH"})]

RvfSetters == [v \in Versions |-> Named(RvfDesc[v],
    {"SV", "MR", "TV", "TU", "AP", "F", "EF", "PD", "I"}, {"EVT"},
    {"ACTIVE_PIXELS", "TOTAL_LINES", "STREAM_DATA_LENGTH"}, {"SEQUENCE_NUM"},
    {"STREAM_ID", "AVTP_TIMESTAMP", "PTP_GRANDMASTER_IDENTITY"})]

RvfSettersOf == [v \in Versions |->
    Redirect(RvfSetters[v], CshSettersOf[v],
    {"SV", "MR", "TV", "TU", "SEQUENCE_NUM", "STREAM_ID", "AVTP_TIMESTAMP",
     "PTP_GRANDMASTER_IDENTITY", "STREAM_DATA_LENGTH"})]

RvfInit == [v \in Versions |-> StreamInit(RvfDesc[v], 7, v)]

---------------------------------------------------------------------------
(* acf/Tscf.h *)

TscfDesc == [v \in Versions |-> IF v = 1 THEN
    [SV |-> <<0, 8, 1>>, MR |-> <<0, 12, 1>>, FSD |-> <<0, 13, 2>>,
     TV |-> <<0, 15, 1>>, SEQUENCE_NUM |-> <<3, 0, 32>>, FSD0 |-> <<0, 16, 8>>,
     FSD1 |-> <<0, 24, 7>>, TU |-> <<0, 31, 1>>, STREAM_ID |-> <<1, 0, 64>>,
     AVTP_TIMESTAMP |-> <<4, 0, 64>>,
     PTP_GRANDMASTER_IDENTITY |-> <<6, 0, 64>>,
     STREAM_DATA_LENGTH |-> <<9, 0, 16>>, RESERVED2 |-> <<8, 0, 32>>,
     RESERVED3 |-> <<9, 16, 16>>]
    ELSE
    [SV |-> <<0, 8, 1>>, MR |-> <<0, 12, 1>>, FSD |-> <<0, 13, 2>>,
     TV |-> <<0, 15, 1>>, SEQUENCE_NUM |-> <<0, 16, 8>>, FSD0 |-> <<0, 0, 0>>,
     FSD1 |-> <<0, 24, 7>>, TU |-> <<0, 31, 1>>, STREAM_ID |-> <<1, 0, 64>>,
     AVTP_TIMESTAMP |-> <<3, 0, 32>>, PTP_GRANDMASTER_IDENTITY |-> <<0, 0, 0>>,
     STREAM_DATA_LENGTH |-> <<5, 0, 16>>, RESERVED2 |-> <<4, 0, 32>>,
     RESERVED3 |-> <<5, 16, 16>>]]

TscfGetters == [v \in Versions |-> WithLsbGetter(IF v = 1 THEN TscfDesc[v].FSD0 ELSE TscfDesc[v].SEQUENCE_NUM,
    Named(TscfDesc[v],
    {"SV", "MR", "TV", "TU"}, {}, {"STREAM_DATA_LENGTH"}, {"SEQUENCE_NUM"},
    {"STREAM_ID", "AVTP_TIMESTAMP", "PTP_GRANDMASTER_IDENTITY"}))]

TscfGettersOf == [v \in Versions |->
    Redirect(TscfGetters[v], CshGettersOf[v],
    {"SV", "MR", "TV", "TU", "SEQUENCE_NUM", "STREAM_ID", "AVTP_TIMESTAMP",
     "PTP_GRANDMASTER_IDENTITY", "STREAM_DATA_LENGTH"})]

TscfSetters == [v \in Versions |-> WithLsbCopy(v, TscfDesc[v].FSD0,
    Named(TscfDesc[v],
    {"SV", "MR", "TV", "TU"}, {}, {"STREAM_DATA_LENGTH"}, {"SEQUENCE_NUM"},
    {"STREAM_ID", "AVTP_TIMESTAMP", "PTP_GRANDMASTER_IDENTITY"}))]

TscfSettersOf == [v \in Versions |->
    Redirect(TscfSetters[v], CshSettersOf[v],
    {"SV", "MR", "TV", "TU", "STREAM_ID", "AVTP_TIMESTAMP",
     "PTP_GRANDMASTER_IDENTITY", "STREAM_DATA_LENGTH"})]

TscfInit == [v \in Versions |-> StreamInit(TscfDesc[v], 5, v)]

---------------------------------------------------------------------------
(* Crf.h *)

CrfDesc == [v \in Versions |-> IF v = 1 THEN
    [RESERVED1 |-> <<0, 12, 20>>, SEQUENCE_NUM |-> <<1, 0, 32>>,
     PTP_GRANDMASTER_IDENTITY |-> <<2, 0, 64>>, SV |-> <<0, 8, 1>>,
     RESERVED |-> <<4, 0, 12>>, MR |-> <<4, 12, 1>>, R |-> <<4, 13, 1>>,
     FS |-> <<4, 14, 1>>, TU |-> <<4, 15, 1>>,
     SEQUENCE_NUM_LSB |-> <<4, 16, 8>>, TYPE |-> <<4, 24, 8>>,
     STREAM_ID |-> <<5, 0, 64>>, PULL |-> <<7, 0, 3>>,
     BASE_FREQUENCY |-> <<7, 3, 29>>, CRF_DATA_LENGTH |-> <<8, 0, 16>>,
     TIMESTAMP_INTERVAL |-> <<8, 16, 16>>]
    ELSE
    [RESERVED1 |-> <<0, 0, 0>>, SEQUENCE_NUM |-> <<0, 0, 0>>,
     PTP_GRANDMASTER_IDENTITY |-> <<0, 0, 0>>, SV |-> <<0, 8, 1>>,
     RESERVED |-> <<0, 0, 0>>, MR |-> <<0, 12, 1>>, R |-> <<0, 13, 1>>,
     FS |-> <<0, 14, 1>>, TU |-> <<0, 15, 1>>,
     SEQUENCE_NUM_LSB |-> <<0, 16, 8>>, TYPE |-> <<0, 24, 8>>,
     STREAM_ID |-> <<1, 0, 64>>, PULL |-> <<3, 0, 3>>,
     BASE_FREQUENCY |-> <<3, 3, 29>>, CRF_DATA_LENGTH |-> <<4, 0, 16>>,
     TIMESTAMP_INTERVAL |-> <<4, 16, 16>>]]

CrfGetters == [v \in Versions |-> LsbAsSequenceNum(v, CrfDesc[v].SEQUENCE_NUM_LSB,
    Named(CrfDesc[v],
    {"SV", "MR", "FS", "TU"}, {"SEQUENCE_NUM_LSB"},
    {"CRF_DATA_LENGTH", "TIMESTAMP_INTERVAL"},
    {"SEQUENCE_NUM", "TYPE", "PULL", "BASE_FREQUENCY"},
    {"PTP_GRANDMASTER_IDENTITY", "STREAM_ID"}))]

CrfGettersOf == [v \in Versions |->
    Redirect(CrfGetters[v], AhGettersOf[v],
    {"PTP_GRANDMASTER_IDENTITY"})]

CrfSetters == [v \in Versions |-> SequenceNumWithLsb(v, CrfDesc[v].SEQUENCE_NUM_LSB,
    Named(CrfDesc[v],
    {"SV", "MR", "FS", "TU"}, {}, {"CRF_DATA_LENGTH", "TIMESTAMP_INTERVAL"},
    {"SEQUENCE_NUM", "TYPE", "PULL", "BASE_FREQUENCY"},
    {"PTP_GRANDMASTER_IDENTITY", "STREAM_ID"}))]

CrfSettersOf == [v \in Versions |->
    Redirect(CrfSetters[v], AhSettersOf[v],
    {"PTP_GRANDMASTER_IDENTITY"})]

CrfInit == [v \in Versions |-> StreamInit(CrfDesc[v], 4, v)]

---------------------------------------------------------------------------
(* acf/Ntscf.h *)

NtscfDesc == [v \in Versions |-> IF v = 1 THEN
    [RESERVED1 |-> <<0, 12, 20>>, SEQUENCE_NUM |-> <<1, 0, 32>>,
     PTP_GRANDMASTER_IDENTITY |-> <<2, 0, 64>>, SV |-> <<0, 8, 1>>,
     RESERVED |-> <<4, 0, 12>>, R |-> <<4, 12, 1>>,
     NTSCF_DATA_LENGTH |-> <<4, 13, 11>>, SEQUENCE_NUM_LSB |-> <<4, 24, 8>>,
     STREAM_ID |-> <<5, 0, 64>>]
    ELSE
    [RESERVED1 |-> <<0, 0, 0>>, SEQUENCE_NUM |-> <<0, 0, 0>>,
     PTP_GRANDMASTER_IDENTITY |-> <<0, 0, 0>>, SV |-> <<0, 8, 1>>,
     RESERVED |-> <<0, 0, 0>>, R |-> <<0, 12, 1>>,
     NTSCF_DATA_LENGTH |-> <<0, 13, 11>>, SEQUENCE_NUM_LSB |-> <<0, 24, 8>>,
     STREAM_ID |-> <<1, 0, 64>>]]

NtscfGetters == [v \in Versions |-> LsbAsSequenceNum(v, NtscfDesc[v].SEQUENCE_NUM_LSB,
    Named(NtscfDesc[v],
    {"SV"}, {"SEQUENCE_NUM_LSB"}, {"NTSCF_DATA_LENGTH"}, {"SEQUENCE_NUM"},
    {"PTP_GRANDMASTER_IDENTITY", "STREAM_ID"}))]

NtscfGettersOf == [v \in Versions |->
    Redirect(NtscfGetters[v], AhGettersOf[v],
    {"PTP_GRANDMASTER_IDENTITY"})]

NtscfSetters == [v \in Versions |-> SequenceNumWithLsb(v, NtscfDesc[v].SEQUENCE_NUM_LSB,
    Named(NtscfDesc[v],
    {"SV"}, {}, {"NTSCF_DATA_LENGTH"}, {"SEQUENCE_NUM"},
    {"PTP_GRANDMASTER_IDENTITY", "STREAM_ID"}))]

NtscfSettersOf == [v \in Versions |->
    Redirect(NtscfSetters[v], AhSettersOf[v],
    {"PTP_GRANDMASTER_IDENTITY"})]

NtscfInit == [v \in Versions |-> StreamInit(NtscfDesc[v], 130, v)]

---------------------------------------------------------------------------
(* The formats as data for the machine that exercises them *)

StreamFormat(common, lengths, desc, init, get, set, getOf, setOf) ==
    [versions |-> Versions, common |-> common, length |-> lengths, desc |-> desc,
     init |-> init, getters |-> get, setters |-> set, gettersOf |-> getOf, settersOf |-> setOf]

\* AVTP_X_HEADER_LEN_V0 and AVTP_X_HEADER_LEN_V1
Lengths(v0, v1) == [v \in Versions |-> IF v = 1 THEN v1 ELSE v0]

StreamFormats == [
    Aaf |-> StreamFormat("csh", Lengths(24, 40), AafDesc, AafInit,
                         AafGetters, AafSetters, AafGettersOf, AafSettersOf),
    Pcm |-> StreamFormat("csh", Lengths(24, 40), PcmDesc, PcmInit,
                         PcmGetters, PcmSetters, PcmGettersOf, PcmSettersOf),
    Cvf |-> StreamFormat("csh", Lengths(24, 40), CvfDesc, CvfInit,
                         CvfGetters, CvfSetters, CvfGettersOf, CvfSettersOf),
    Rvf |-> StreamFormat("csh", Lengths(24, 40), RvfDesc, RvfInit,
                         RvfGetters, RvfSetters, RvfGettersOf, RvfSettersOf),
    Tscf |-> StreamFormat("csh", Lengths(24, 40), TscfDesc, TscfInit,
                          TscfGetters, TscfSetters, TscfGettersOf, TscfSettersOf),
    Crf |-> StreamFormat("ah", Lengths(20, 36), CrfDesc, CrfInit,
                         CrfGetters, CrfSetters, CrfGettersOf, CrfSettersOf),
    Ntscf |-> StreamFormat("ah", Lengths(12, 28), NtscfDesc, NtscfInit,
                           NtscfGetters, NtscfSetters, NtscfGettersOf, NtscfSettersOf)]
=============================================================================
