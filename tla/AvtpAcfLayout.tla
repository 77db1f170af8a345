--------------------------- MODULE AvtpAcfLayout ---------------------------
(***************************************************************************)
(* The headers of the ACF messages carried in TSCF and NTSCF PDUs, and the *)
(* payload headers of RVF and CVF.  For every format X of include/avtp:    *)
(*                                                                         *)
(* XDesc     the descriptor table, field -> <<quadlet, offset, bits>>      *)
(* XGetters  the named getters, name -> [at, type]                         *)
(* XSetters  the named setters                                             *)
(* XInit     the bits of the header after Avtp_X_Init                      *)
(*                                                                         *)
(* The first two fields of an ACF header have no accessor of their format: *)
(* they are reached through the table of AcfCommon.h.                      *)
(***************************************************************************)
EXTENDS AvtpBits

(* include/avtp/acf/AcfCommon.h *)

AcfCommonDesc == [ACF_MSG_TYPE |-> <<0, 0, 7>>, ACF_MSG_LENGTH |-> <<0, 7, 9>>]

AcfCommonGetters ==
    Named(AcfCommonDesc, {}, {"ACF_MSG_TYPE"}, {"ACF_MSG_LENGTH"}, {}, {})

AcfCommonSetters ==
    Named(AcfCommonDesc, {}, {"ACF_MSG_TYPE"}, {"ACF_MSG_LENGTH"}, {}, {})

\* Avtp_X_Init: clear the header and write the message type.
AcfInit(type) == SetBits({}, AcfCommonDesc.ACF_MSG_TYPE, NumBits(type))

---------------------------------------------------------------------------
(* acf/Can.h *)

CanDesc ==
    [ACF_MSG_TYPE |-> <<0, 0, 7>>, ACF_MSG_LENGTH |-> <<0, 7, 9>>,
     PAD |-> <<0, 16, 2>>, MTV |-> <<0, 18, 1>>, RTR |-> <<0, 19, 1>>,
     EFF |-> <<0, 20, 1>>, BRS |-> <<0, 21, 1>>, FDF |-> <<0, 22, 1>>,
     ESI |-> <<0, 23, 1>>, RSV1 |-> <<0, 24, 3>>, CAN_BUS_ID |-> <<0, 27, 5>>,
     MESSAGE_TIMESTAMP |-> <<1, 0, 64>>, RSV2 |-> <<3, 0, 3>>,
     CAN_IDENTIFIER |-> <<3, 3, 29>>]

CanGetters ==
    Named(CanDesc,
        {"MTV", "RTR", "EFF", "BRS", "FDF", "ESI"}, {"PAD", "CAN_BUS_ID"}, {},
        {"CAN_IDENTIFIER"}, {"MESSAGE_TIMESTAMP"})

CanSetters ==
    Named(CanDesc,
        {"MTV", "RTR", "EFF", "BRS", "FDF", "ESI"}, {"PAD", "CAN_BUS_ID"}, {},
        {"CAN_IDENTIFIER"}, {"MESSAGE_TIMESTAMP"})

CanInit == AcfInit(1)

---------------------------------------------------------------------------
(* acf/CanBrief.h *)

CanBriefDesc ==
    [ACF_MSG_TYPE |-> <<0, 0, 7>>, ACF_MSG_LENGTH |-> <<0, 7, 9>>,
     PAD |-> <<0, 16, 2>>, MTV |-> <<0, 18, 1>>, RTR |-> <<0, 19, 1>>,
     EFF |-> <<0, 20, 1>>, BRS |-> <<0, 21, 1>>, FDF |-> <<0, 22, 1>>,
     ESI |-> <<0, 23, 1>>, RSV1 |-> <<0, 24, 3>>, CAN_BUS_ID |-> <<0, 27, 5>>,
     RSV2 |-> <<1, 0, 3>>, CAN_IDENTIFIER |-> <<1, 3, 29>>]

CanBriefGetters ==
    Named(CanBriefDesc,
        {"MTV", "RTR", "EFF", "BRS", "FDF", "ESI"}, {"PAD", "CAN_BUS_ID"}, {},
        {"CAN_IDENTIFIER"}, {})

CanBriefSetters ==
    Named(CanBriefDesc,
        {"MTV", "RTR", "EFF", "BRS", "FDF", "ESI"}, {"PAD", "CAN_BUS_ID"}, {},
        {"CAN_IDENTIFIER"}, {})

CanBriefInit == AcfInit(2)

---------------------------------------------------------------------------
(* acf/CanV2.h *)

CanV2Desc ==
    [ACF_MSG_TYPE |-> <<0, 0, 7>>, ACF_MSG_LENGTH |-> <<0, 7, 9>>,
     PAD |-> <<0, 16, 2>>, MTV |-> <<0, 18, 1>>, RTR |-> <<0, 19, 1>>,
     EFF |-> <<0, 20, 1>>, CAN_BUS_ID |-> <<0, 21, 11>>,
     MESSAGE_TIMESTAMP |-> <<1, 0, 64>>, BRS |-> <<3, 0, 1>>,
     FDF |-> <<3, 1, 1>>, ESI |-> <<3, 2, 1>>, CAN_IDENTIFIER |-> <<3, 3, 29>>]

CanV2Getters ==
    Named(CanV2Desc,
        {"MTV", "RTR", "EFF", "BRS", "FDF", "ESI"}, {"PAD"}, {"CAN_BUS_ID"},
        {"CAN_IDENTIFIER"}, {"MESSAGE_TIMESTAMP"})

CanV2Setters ==
    Named(CanV2Desc,
        {"MTV", "RTR", "EFF", "BRS", "FDF", "ESI"}, {"PAD"}, {"CAN_BUS_ID"},
        {"CAN_IDENTIFIER"}, {"MESSAGE_TIMESTAMP"})

CanV2Init == AcfInit(33)

---------------------------------------------------------------------------
(* acf/CanBriefV2.h *)

CanBriefV2Desc ==
    [ACF_MSG_TYPE |-> <<0, 0, 7>>, ACF_MSG_LENGTH |-> <<0, 7, 9>>,
     PAD |-> <<0, 16, 2>>, MTV |-> <<0, 18, 1>>, RTR |-> <<0, 19, 1>>,
     EFF |-> <<0, 20, 1>>, CAN_BUS_ID |-> <<0, 21, 11>>, BRS |-> <<1, 0, 1>>,
     FDF |-> <<1, 1, 1>>, ESI |-> <<1, 2, 1>>, CAN_IDENTIFIER |-> <<1, 3, 29>>]

CanBriefV2Getters ==
    Named(CanBriefV2Desc,
        {"MTV", "RTR", "EFF", "BRS", "FDF", "ESI"}, {"PAD"}, {"CAN_BUS_ID"},
        {"CAN_IDENTIFIER"}, {})

CanBriefV2Setters ==
    Named(CanBriefV2Desc,
        {"MTV", "RTR", "EFF", "BRS", "FDF", "ESI"}, {"PAD"}, {"CAN_BUS_ID"},
        {"CAN_IDENTIFIER"}, {})

CanBriefV2Init == AcfInit(34)

---------------------------------------------------------------------------
(* acf/CanXl.h *)

CanXlDesc ==
    [ACF_MSG_TYPE |-> <<0, 0, 7>>, ACF_MSG_LENGTH |-> <<0, 7, 9>>,
     PAD |-> <<0, 16, 2>>, MTV |-> <<0, 18, 1>>, RSV |-> <<0, 19, 2>>,
     CAN_BUS_ID |-> <<0, 21, 11>>, MESSAGE_TIMESTAMP |-> <<1, 0, 64>>,
     VCID |-> <<3, 0, 8>>, SDT |-> <<3, 8, 8>>, RESERVED1 |-> <<3, 16, 3>>,
     RRS |-> <<3, 19, 1>>, SEC |-> <<3, 20, 1>>, PRIORITY_ID |-> <<3, 21, 11>>,
     ACCEPTANCE_FIELD |-> <<4, 0, 32>>, RESERVED2 |-> <<5, 0, 8>>,
     TRANSACTION_NUM |-> <<5, 8, 8>>, RESERVED3 |-> <<5, 16, 3>>,
     MS |-> <<5, 19, 1>>, SEGMENT_NUM |-> <<5, 20, 12>>]

CanXlGetters ==
    Named(CanXlDesc,
        {"MTV", "RRS", "SEC", "MS"}, {"PAD", "VCID", "SDT", "TRANSACTION_NUM"},
        {"CAN_BUS_ID", "PRIORITY_ID", "SEGMENT_NUM"}, {"ACCEPTANCE_FIELD"},
        {"MESSAGE_TIMESTAMP"})

CanXlSetters ==
    Named(CanXlDesc,
        {"MTV", "RRS", "SEC", "MS"}, {"PAD", "VCID", "SDT", "TRANSACTION_NUM"},
        {"CAN_BUS_ID", "PRIORITY_ID", "SEGMENT_NUM"}, {"ACCEPTANCE_FIELD"},
        {"MESSAGE_TIMESTAMP"})

CanXlInit == AcfInit(17)

---------------------------------------------------------------------------
(* acf/CanXlBrief.h *)

CanXlBriefDesc ==
    [ACF_MSG_TYPE |-> <<0, 0, 7>>, ACF_MSG_LENGTH |-> <<0, 7, 9>>,
     PAD |-> <<0, 16, 2>>, MTV |-> <<0, 18, 1>>, RSV |-> <<0, 19, 2>>,
     CAN_BUS_ID |-> <<0, 21, 11>>, VCID |-> <<1, 0, 8>>, SDT |-> <<1, 8, 8>>,
     RESERVED1 |-> <<1, 16, 3>>, RRS |-> <<1, 19, 1>>, SEC |-> <<1, 20, 1>>,
     PRIORITY_ID |-> <<1, 21, 11>>, ACCEPTANCE_FIELD |-> <<2, 0, 32>>,
     RESERVED2 |-> <<3, 0, 8>>, TRANSACTION_NUM |-> <<3, 8, 8>>,
     RESERVED3 |-> <<3, 16, 3>>, MS |-> <<3, 19, 1>>,
     SEGMENT_NUM |-> <<3, 20, 12>>]

CanXlBriefGetters ==
    Named(CanXlBriefDesc,
        {"MTV", "RRS", "SEC", "MS"}, {"PAD", "VCID", "SDT", "TRANSACTION_NUM"},
        {"CAN_BUS_ID", "PRIORITY_ID", "SEGMENT_NUM"}, {"ACCEPTANCE_FIELD"}, {})

CanXlBriefSetters ==
    Named(CanXlBriefDesc,
        {"MTV", "RRS", "SEC", "MS"}, {"PAD", "VCID", "SDT", "TRANSACTION_NUM"},
        {"CAN_BUS_ID", "PRIORITY_ID", "SEGMENT_NUM"}, {"ACCEPTANCE_FIELD"}, {})

CanXlBriefInit == AcfInit(18)

---------------------------------------------------------------------------
(* acf/FlexRay.h *)

FlexRayDesc ==
    [ACF_MSG_TYPE |-> <<0, 0, 7>>, ACF_MSG_LENGTH |-> <<0, 7, 9>>,
     PAD |-> <<0, 16, 2>>, MTV |-> <<0, 18, 1>>, FR_BUS_ID |-> <<0, 19, 5>>,
     RESERVED |-> <<0, 24, 2>>, CHAN |-> <<0, 26, 2>>, STR |-> <<0, 28, 1>>,
     SYN |-> <<0, 29, 1>>, PRE |-> <<0, 30, 1>>, NFI |-> <<0, 31, 1>>,
     MESSAGE_TIMESTAMP |-> <<1, 0, 64>>, FR_FRAME_ID |-> <<3, 0, 11>>,
     RESERVED_2 |-> <<3, 11, 15>>, CYCLE |-> <<3, 26, 6>>]

FlexRayGetters ==
    Named(FlexRayDesc,
        {"MTV", "STR", "SYN", "PRE", "NFI"},
        {"PAD", "FR_BUS_ID", "CHAN", "CYCLE"}, {"FR_FRAME_ID"}, {},
        {"MESSAGE_TIMESTAMP"})

FlexRaySetters ==
    Named(FlexRayDesc,
        {"MTV", "STR", "SYN", "PRE", "NFI"},
        {"PAD", "FR_BUS_ID", "CHAN", "CYCLE"}, {"FR_FRAME_ID"}, {},
        {"MESSAGE_TIMESTAMP"})

FlexRayInit == AcfInit(0)

---------------------------------------------------------------------------
(* acf/Lin.h *)

LinDesc ==
    [ACF_MSG_TYPE |-> <<0, 0, 7>>, ACF_MSG_LENGTH |-> <<0, 7, 9>>,
     PAD |-> <<0, 16, 2>>, MTV |-> <<0, 18, 1>>, LIN_BUS_ID |-> <<0, 19, 5>>,
     LIN_IDENTIFIER |-> <<0, 24, 8>>, MESSAGE_TIMESTAMP |-> <<1, 0, 64>>]

LinGetters ==
    Named(LinDesc,
        {"MTV"}, {"PAD", "LIN_BUS_ID", "LIN_IDENTIFIER"}, {}, {},
        {"MESSAGE_TIMESTAMP"})

LinSetters ==
    Named(LinDesc,
        {"MTV"}, {"PAD", "LIN_BUS_ID", "LIN_IDENTIFIER"}, {}, {},
        {"MESSAGE_TIMESTAMP"})

LinInit == AcfInit(3)

---------------------------------------------------------------------------
(* acf/Most.h *)

MostDesc ==
    [ACF_MSG_TYPE |-> <<0, 0, 7>>, ACF_MSG_LENGTH |-> <<0, 7, 9>>,
     PAD |-> <<0, 16, 2>>, MTV |-> <<0, 18, 1>>, MOST_NET_ID |-> <<0, 19, 5>>,
     RESERVED |-> <<0, 24, 8>>, MESSAGE_TIMESTAMP |-> <<1, 0, 64>>,
     DEVICE_ID |-> <<3, 0, 16>>, FBLOCK_ID |-> <<3, 16, 8>>,
     INST_ID |-> <<3, 24, 8>>, FUNC_ID |-> <<4, 0, 12>>,
     OP_TYPE |-> <<4, 12, 4>>, RESERVED_2 |-> <<4, 16, 16>>]

MostGetters ==
    Named(MostDesc,
        {"MTV"}, {"PAD", "MOST_NET_ID", "FBLOCK_ID", "INST_ID", "OP_TYPE"},
        {"DEVICE_ID", "FUNC_ID"}, {}, {"MESSAGE_TIMESTAMP"})

MostSetters ==
    Named(MostDesc,
        {"MTV"}, {"PAD", "MOST_NET_ID", "FBLOCK_ID", "INST_ID", "OP_TYPE"},
        {"DEVICE_ID", "FUNC_ID"}, {}, {"MESSAGE_TIMESTAMP"})

MostInit == AcfInit(4)

---------------------------------------------------------------------------
(* acf/Gpc.h *)

GpcDesc ==
    [ACF_MSG_TYPE |-> <<0, 0, 7>>, ACF_MSG_LENGTH |-> <<0, 7, 9>>,
     GPC_MSG_ID |-> <<0, 16, 48>>]

GpcGetters ==
    Named(GpcDesc,
        {}, {}, {}, {}, {"GPC_MSG_ID"})

GpcSetters ==
    Named(GpcDesc,
        {}, {}, {}, {}, {"GPC_MSG_ID"})

GpcInit == AcfInit(5)

---------------------------------------------------------------------------
(* acf/Sensor.h *)

SensorDesc ==
    [ACF_MSG_TYPE |-> <<0, 0, 7>>, ACF_MSG_LENGTH |-> <<0, 7, 9>>,
     MTV |-> <<0, 16, 1>>, NUM_SENSOR |-> <<0, 17, 7>>, SZ |-> <<0, 24, 2>>,
     SENSOR_GROUP |-> <<0, 26, 6>>, MESSAGE_TIMESTAMP |-> <<1, 0, 64>>]

SensorGetters ==
    Named(SensorDesc,
        {"MTV"}, {"NUM_SENSOR", "SZ", "SENSOR_GROUP"}, {}, {},
        {"MESSAGE_TIMESTAMP"})

SensorSetters ==
    Named(SensorDesc,
        {"MTV"}, {"NUM_SENSOR", "SZ", "SENSOR_GROUP"}, {}, {},
        {"MESSAGE_TIMESTAMP"})

SensorInit == AcfInit(8)

---------------------------------------------------------------------------
(* acf/SensorBrief.h *)

SensorBriefDesc ==
    [ACF_MSG_TYPE |-> <<0, 0, 7>>, ACF_MSG_LENGTH |-> <<0, 7, 9>>,
     MTV |-> <<0, 16, 1>>, NUM_SENSOR |-> <<0, 17, 7>>, SZ |-> <<0, 24, 2>>,
     SENSOR_GROUP |-> <<0, 26, 6>>]

SensorBriefGetters ==
    Named(SensorBriefDesc,
        {"MTV"}, {"NUM_SENSOR", "SZ", "SENSOR_GROUP"}, {}, {}, {})

SensorBriefSetters ==
    Named(SensorBriefDesc,
        {"MTV"}, {"NUM_SENSOR", "SZ", "SENSOR_GROUP"}, {}, {}, {})

SensorBriefInit == AcfInit(9)

---------------------------------------------------------------------------
(* acf/Gisf.h *)

GisfDesc ==
    [ACF_MSG_TYPE |-> <<0, 0, 7>>, ACF_MSG_LENGTH |-> <<0, 7, 9>>,
     PAD |-> <<0, 16, 2>>, MTV |-> <<0, 18, 1>>, RSV1 |-> <<0, 19, 2>>,
     IMAGE_SENSOR_ID |-> <<0, 21, 11>>, MESSAGE_TIMESTAMP |-> <<1, 0, 64>>,
     RESERVED |-> <<3, 0, 16>>, R |-> <<3, 16, 1>>, EL |-> <<3, 17, 1>>,
     TL |-> <<3, 18, 1>>, EF |-> <<3, 19, 1>>, EVT |-> <<3, 20, 4>>,
     RSV2 |-> <<3, 24, 2>>, BF |-> <<3, 26, 1>>, LINE_TYPE_ID |-> <<3, 27, 5>>,
     EVT2 |-> <<4, 0, 8>>, I_SEQ_NUM |-> <<4, 8, 8>>,
     LINE_NUMBER |-> <<4, 16, 16>>]

GisfGetters ==
    Named(GisfDesc,
        {"MTV", "EL", "TL", "EF", "BF"},
        {"PAD", "EVT", "LINE_TYPE_ID", "EVT2", "I_SEQ_NUM"},
        {"IMAGE_SENSOR_ID", "LINE_NUMBER"}, {}, {"MESSAGE_TIMESTAMP"})

GisfSetters ==
    Named(GisfDesc,
        {"MTV", "EL", "TL", "EF", "BF"},
        {"PAD", "EVT", "LINE_TYPE_ID", "EVT2", "I_SEQ_NUM"},
        {"IMAGE_SENSOR_ID", "LINE_NUMBER"}, {}, {"MESSAGE_TIMESTAMP"})

GisfInit == AcfInit(12)

---------------------------------------------------------------------------
(* acf/Gbb.h *)

GbbDesc ==
    [ACF_MSG_TYPE |-> <<0, 0, 7>>, ACF_MSG_LENGTH |-> <<0, 7, 9>>,
     PAD |-> <<0, 16, 2>>, MTV |-> <<0, 18, 1>>, RSV1 |-> <<0, 19, 2>>,
     BYTE_BUS_ID |-> <<0, 21, 11>>, MESSAGE_TIMESTAMP |-> <<1, 0, 64>>,
     EVT |-> <<3, 0, 4>>, RSV2 |-> <<3, 4, 2>>, HS |-> <<3, 6, 1>>,
     CS |-> <<3, 7, 1>>, TRANSACTION_NUM |-> <<3, 8, 8>>, OP |-> <<3, 16, 1>>,
     RSP |-> <<3, 17, 1>>, ERR |-> <<3, 18, 1>>, MS |-> <<3, 19, 1>>,
     READ_SIZE_SEGMENT_NUM |-> <<3, 20, 12>>]

GbbGetters ==
    Named(GbbDesc,
        {"MTV", "HS", "CS", "OP", "RSP", "ERR", "MS"},
        {"PAD", "EVT", "TRANSACTION_NUM"},
        {"BYTE_BUS_ID", "READ_SIZE_SEGMENT_NUM"}, {}, {"MESSAGE_TIMESTAMP"})

GbbSetters ==
    Named(GbbDesc,
        {"MTV", "HS", "CS", "OP", "RSP", "ERR", "MS"},
        {"PAD", "EVT", "TRANSACTION_NUM"},
        {"BYTE_BUS_ID", "READ_SIZE_SEGMENT_NUM"}, {}, {"MESSAGE_TIMESTAMP"})

GbbInit == AcfInit(13)

---------------------------------------------------------------------------
(* acf/Abb.h *)

AbbDesc ==
    [ACF_MSG_TYPE |-> <<0, 0, 7>>, ACF_MSG_LENGTH |-> <<0, 7, 9>>,
     PAD |-> <<0, 16, 2>>, MTV |-> <<0, 18, 1>>, RSV1 |-> <<0, 19, 2>>,
     BYTE_BUS_ID |-> <<0, 21, 11>>, EVT |-> <<1, 0, 4>>, RSV2 |-> <<1, 4, 2>>,
     HS |-> <<1, 6, 1>>, CS |-> <<1, 7, 1>>, TRANSACTION_NUM |-> <<1, 8, 8>>,
     OP |-> <<1, 16, 1>>, RSP |-> <<1, 17, 1>>, ERR |-> <<1, 18, 1>>,
     MS |-> <<1, 19, 1>>, READ_SIZE_SEGMENT_NUM |-> <<1, 20, 12>>]

AbbGetters ==
    Named(AbbDesc,
        {"MTV", "HS", "CS", "OP", "RSP", "ERR", "MS"},
        {"PAD", "EVT", "TRANSACTION_NUM"},
        {"BYTE_BUS_ID", "READ_SIZE_SEGMENT_NUM"}, {}, {})

AbbSetters ==
    Named(AbbDesc,
        {"MTV", "HS", "CS", "OP", "RSP", "ERR", "MS"},
        {"PAD", "EVT", "TRANSACTION_NUM"},
        {"BYTE_BUS_ID", "READ_SIZE_SEGMENT_NUM"}, {}, {})

AbbInit == AcfInit(14)

---------------------------------------------------------------------------
(* acf/I2C.h *)

I2CDesc ==
    [ACF_MSG_TYPE |-> <<0, 0, 7>>, ACF_MSG_LENGTH |-> <<0, 7, 9>>,
     PAD |-> <<0, 16, 2>>, MTV |-> <<0, 18, 1>>, RSV |-> <<0, 19, 2>>,
     I2C_BUS_ID |-> <<0, 21, 11>>, MESSAGE_TIMESTAMP |-> <<1, 0, 64>>,
     I2C_CODE |-> <<3, 0, 4>>, TRR |-> <<3, 4, 1>>, RESERVED |-> <<3, 5, 3>>,
     TRANSACTION_NUM |-> <<3, 8, 8>>, EVT |-> <<3, 16, 4>>,
     EXCEPTION_CODE |-> <<3, 20, 4>>, I2C_DATA |-> <<3, 24, 8>>]

I2CGetters ==
    Named(I2CDesc,
        {"MTV", "TRR"},
        {"PAD", "I2C_CODE", "TRANSACTION_NUM", "EVT", "EXCEPTION_CODE",
         "I2C_DATA"},
        {"I2C_BUS_ID"}, {}, {"MESSAGE_TIMESTAMP"})

I2CSetters ==
    Named(I2CDesc,
        {"MTV", "TRR"},
        {"PAD", "I2C_CODE", "TRANSACTION_NUM", "EVT", "EXCEPTION_CODE",
         "I2C_DATA"},
        {"I2C_BUS_ID"}, {}, {"MESSAGE_TIMESTAMP"})

I2CInit == AcfInit(15)

---------------------------------------------------------------------------
(* acf/I2CBrief.h *)

I2CBriefDesc ==
    [ACF_MSG_TYPE |-> <<0, 0, 7>>, ACF_MSG_LENGTH |-> <<0, 7, 9>>,
     PAD |-> <<0, 16, 2>>, MTV |-> <<0, 18, 1>>, RSV |-> <<0, 19, 2>>,
     I2C_BUS_ID |-> <<0, 21, 11>>, I2C_CODE |-> <<1, 0, 4>>,
     TRR |-> <<1, 4, 1>>, RESERVED |-> <<1, 5, 3>>,
     TRANSACTION_NUM |-> <<1, 8, 8>>, EVT |-> <<1, 16, 4>>,
     EXCEPTION_CODE |-> <<1, 20, 4>>, I2C_DATA |-> <<1, 24, 8>>]

I2CBriefGetters ==
    Named(I2CBriefDesc,
        {"MTV", "TRR"},
        {"PAD", "I2C_CODE", "TRANSACTION_NUM", "EVT", "EXCEPTION_CODE",
         "I2C_DATA"},
        {"I2C_BUS_ID"}, {}, {})

I2CBriefSetters ==
    Named(I2CBriefDesc,
        {"MTV", "TRR"},
        {"PAD", "I2C_CODE", "TRANSACTION_NUM", "EVT", "EXCEPTION_CODE",
         "I2C_DATA"},
        {"I2C_BUS_ID"}, {}, {})

I2CBriefInit == AcfInit(16)

---------------------------------------------------------------------------
(* Payload headers inside RVF and CVF PDUs, and the UDP encapsulation header *)

RvfRawHeaderDesc ==
    [RESERVED1 |-> <<0, 0, 8>>, PIXEL_DEPTH |-> <<0, 8, 4>>,
     PIXEL_FORMAT |-> <<0, 12, 4>>, FRAME_RATE |-> <<0, 16, 8>>,
     COLORSPACE |-> <<0, 24, 4>>, NUM_LINES |-> <<0, 28, 4>>,
     RESERVED2 |-> <<1, 0, 8>>, I_SEQ_NUM |-> <<1, 8, 8>>,
     LINE_NUMBER |-> <<1, 16, 16>>]

RvfRawHeaderGetters ==
    Named(RvfRawHeaderDesc,
        {}, {"NUM_LINES", "I_SEQ_NUM"}, {"LINE_NUMBER"},
        {"PIXEL_DEPTH", "PIXEL_FORMAT", "FRAME_RATE", "COLORSPACE"}, {})

RvfRawHeaderSetters ==
    Named(RvfRawHeaderDesc,
        {}, {"NUM_LINES", "I_SEQ_NUM"}, {"LINE_NUMBER"},
        {"PIXEL_DEPTH", "PIXEL_FORMAT", "FRAME_RATE", "COLORSPACE"}, {})

H264Desc ==
    [TIMESTAMP |-> <<0, 0, 32>>]

H264Getters ==
    Named(H264Desc,
        {}, {}, {}, {"TIMESTAMP"}, {})

H264Setters ==
    Named(H264Desc,
        {}, {}, {}, {"TIMESTAMP"}, {})

Jpeg2000Desc ==
    [TP |-> <<0, 0, 2>>, MHF |-> <<0, 2, 2>>, MH_ID |-> <<0, 4, 3>>,
     T |-> <<0, 7, 1>>, PRIORITY |-> <<0, 8, 8>>,
     TILE_NUMBER |-> <<0, 16, 16>>, RESERVED |-> <<1, 0, 8>>,
     FRAGMENT_OFFSET |-> <<1, 8, 24>>]

Jpeg2000Getters ==
    Named(Jpeg2000Desc,
        {"T"}, {"TP", "MHF", "MH_ID", "PRIORITY"}, {"TILE_NUMBER"},
        {"FRAGMENT_OFFSET"}, {})

Jpeg2000Setters ==
    Named(Jpeg2000Desc,
        {"T"}, {"TP", "MHF", "MH_ID", "PRIORITY"}, {"TILE_NUMBER"},
        {"FRAGMENT_OFFSET"}, {})

MjpegDesc ==
    [TYPE_SPECIFIC |-> <<0, 0, 8>>, FRAGMENT_OFFSET |-> <<0, 8, 24>>,
     TYPE |-> <<1, 0, 8>>, Q |-> <<1, 8, 8>>, WIDTH |-> <<1, 16, 8>>,
     HEIGHT |-> <<1, 24, 8>>]

MjpegGetters ==
    Named(MjpegDesc,
        {}, {"TYPE_SPECIFIC", "TYPE", "Q", "WIDTH", "HEIGHT"}, {},
        {"FRAGMENT_OFFSET"}, {})

MjpegSetters ==
    Named(MjpegDesc,
        {}, {"TYPE_SPECIFIC", "TYPE", "Q", "WIDTH", "HEIGHT"}, {},
        {"FRAGMENT_OFFSET"}, {})

UdpDesc ==
    [ENCAPSULATION_SEQ_NO |-> <<0, 0, 32>>]

UdpGetters ==
    Named(UdpDesc,
        {}, {}, {}, {"ENCAPSULATION_SEQ_NO"}, {})

UdpSetters ==
    Named(UdpDesc,
        {}, {}, {}, {"ENCAPSULATION_SEQ_NO"}, {})

---------------------------------------------------------------------------
(* The formats as data for the machine that exercises them; each has one   *)
(* version, and the accessors that dispatch and those that are pinned are   *)
(* the same.                                                                *)

Unversioned(common, length, desc, init, get, set) ==
    LET only(x) == [v \in {0} |-> x] IN
    [versions |-> {0}, common |-> common, length |-> only(length), desc |-> only(desc),
     init |-> only(init), getters |-> only(get), setters |-> only(set),
     gettersOf |-> only(get), settersOf |-> only(set)]

AcfFormats == [
    Can |-> Unversioned("acf", 16, CanDesc, CanInit, CanGetters, CanSetters),
    CanBrief |-> Unversioned("acf", 8, CanBriefDesc, CanBriefInit, CanBriefGetters, CanBriefSetters),
    CanV2 |-> Unversioned("acf", 16, CanV2Desc, CanV2Init, CanV2Getters, CanV2Setters),
    CanBriefV2 |-> Unversioned("acf", 8, CanBriefV2Desc, CanBriefV2Init, CanBriefV2Getters, CanBriefV2Setters),
    CanXl |-> Unversioned("acf", 24, CanXlDesc, CanXlInit, CanXlGetters, CanXlSetters),
    CanXlBrief |-> Unversioned("acf", 16, CanXlBriefDesc, CanXlBriefInit, CanXlBriefGetters, CanXlBriefSetters),
    FlexRay |-> Unversioned("acf", 16, FlexRayDesc, FlexRayInit, FlexRayGetters, FlexRaySetters),
    Lin |-> Unversioned("acf", 12, LinDesc, LinInit, LinGetters, LinSetters),
    Most |-> Unversioned("acf", 20, MostDesc, MostInit, MostGetters, MostSetters),
    Gpc |-> Unversioned("acf", 8, GpcDesc, GpcInit, GpcGetters, GpcSetters),
    Sensor |-> Unversioned("acf", 12, SensorDesc, SensorInit, SensorGetters, SensorSetters),
    SensorBrief |-> Unversioned("acf", 4, SensorBriefDesc, SensorBriefInit, SensorBriefGetters, SensorBriefSetters),
    Gisf |-> Unversioned("acf", 20, GisfDesc, GisfInit, GisfGetters, GisfSetters),
    Gbb |-> Unversioned("acf", 16, GbbDesc, GbbInit, GbbGetters, GbbSetters),
    Abb |-> Unversioned("acf", 8, AbbDesc, AbbInit, AbbGetters, AbbSetters),
    I2C |-> Unversioned("acf", 16, I2CDesc, I2CInit, I2CGetters, I2CSetters),
    I2CBrief |-> Unversioned("acf", 8, I2CBriefDesc, I2CBriefInit, I2CBriefGetters, I2CBriefSetters),
    RvfRawHeader |-> Unversioned("none", 8, RvfRawHeaderDesc, {}, RvfRawHeaderGetters, RvfRawHeaderSetters),
    H264 |-> Unversioned("none", 4, H264Desc, {}, H264Getters, H264Setters),
    Jpeg2000 |-> Unversioned("none", 8, Jpeg2000Desc, {}, Jpeg2000Getters, Jpeg2000Setters),
    Mjpeg |-> Unversioned("none", 8, MjpegDesc, {}, MjpegGetters, MjpegSetters),
    Udp |-> Unversioned("none", 4, UdpDesc, {}, UdpGetters, UdpSetters)]
=============================================================================
