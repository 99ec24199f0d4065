---------------------------- MODULE XenlightEnums ----------------------------
(***************************************************************************)
(* The enumerations of tools/golang/xenlight/types.gen.go.                *)
(*                                                                         *)
(* Each Go declaration                                                     *)
(*     type T int                                                          *)
(*     const( TLabel T = n ... )                                           *)
(* is one operator T: a function from the label (the constant's name      *)
(* without the type-name prefix) to the constant's integer value, exactly *)
(* as written in the file: negative sentinels and gaps included.  The     *)
(* order of the constants carries no meaning in Go and is not kept.       *)
(***************************************************************************)
EXTENDS Integers, Sequences, TLC

Error == [Nonspecific |-> -1, Version |-> -2, Fail |-> -3, Ni |-> -4,
    Nomem |-> -5, Inval |-> -6, Badfail |-> -7, GuestTimedout |-> -8,
    Timedout |-> -9, Noparavirt |-> -10, NotReady |-> -11,
    OseventRegFail |-> -12, Bufferfull |-> -13, UnknownChild |-> -14,
    LockFail |-> -15, JsonConfigEmpty |-> -16, DeviceExists |-> -17,
    CheckpointDevopsDoesNotMatch |-> -18,
    CheckpointDeviceNotSupported |-> -19, VnumaConfigInvalid |-> -20,
    DomainNotfound |-> -21, Aborted |-> -22, Notfound |-> -23,
    DomainDestroyed |-> -24, FeatureRemoved |-> -25,
    ProtocolErrorQmp |-> -26, UnknownQmpError |-> -27,
    QmpGenericError |-> -28, QmpCommandNotFound |-> -29,
    QmpDeviceNotActive |-> -30, QmpDeviceNotFound |-> -31, QemuApi |-> -32]

DomainType == [Invalid |-> -1, Hvm |-> 1, Pv |-> 2, Pvh |-> 3]

RdmReserveStrategy == [Ignore |-> 0, Host |-> 1]

RdmReservePolicy == [Invalid |-> -1, Strict |-> 0, Relaxed |-> 1]

ChannelConnection == [Unknown |-> 0, Pty |-> 1, Socket |-> 2]

DeviceModelVersion == [Unknown |-> 0, QemuXenTraditional |-> 1, QemuXen |-> 2]

ConsoleType == [Unknown |-> 0, Serial |-> 1, Pv |-> 2, Vuart |-> 3]

DiskFormat == [Unknown |-> 0, Qcow |-> 1, Qcow2 |-> 2, Vhd |-> 3, Raw |-> 4,
    Empty |-> 5, Qed |-> 6]

DiskBackend == [Unknown |-> 0, Phy |-> 1, Tap |-> 2, Qdisk |-> 3,
    Standalone |-> 4]

DiskSpecification == [Unknown |-> 0, Xen |-> 1, Virtio |-> 2]

DiskTransport == [Unknown |-> 0, Mmio |-> 1]

NicType == [Unknown |-> 0, VifIoemu |-> 1, Vif |-> 2]

P9Type == [Unknown |-> 0, Qemu |-> 1, Xen9Pfsd |-> 2]

ActionOnShutdown == [Destroy |-> 1, Restart |-> 2, RestartRename |-> 3,
    Preserve |-> 4, CoredumpDestroy |-> 5, CoredumpRestart |-> 6,
    SoftReset |-> 7]

Trigger == [Unknown |-> 0, Power |-> 1, Sleep |-> 2, Nmi |-> 3, Init |-> 4,
    Reset |-> 5, S3Resume |-> 6]

TscMode == [Default |-> 0, AlwaysEmulate |-> 1, Native |-> 2,
    NativeParavirt |-> 3]

GfxPassthruKind == [Default |-> 0, Igd |-> 1]

TimerMode == [Unknown |-> -1, DelayForMissedTicks |-> 0,
    NoDelayForMissedTicks |-> 1, NoMissedTicksPending |-> 2,
    OneMissedTickPending |-> 3]

BiosType == [Unknown |-> 0, Rombios |-> 1, Seabios |-> 2, Ovmf |-> 3]

Scheduler == [Unknown |-> 0, Sedf |-> 4, Credit |-> 5, Credit2 |-> 6,
    Arinc653 |-> 7, Rtds |-> 8, Null |-> 9]

ShutdownReason == [Unknown |-> -1, Poweroff |-> 0, Reboot |-> 1,
    Suspend |-> 2, Crash |-> 3, Watchdog |-> 4, SoftReset |-> 5]

VgaInterfaceType == [Unknown |-> 0, Cirrus |-> 1, Std |-> 2, None |-> 3,
    Qxl |-> 4]

VendorDevice == [None |-> 0, Xenserver |-> 1]

ViridianEnlightenment == [Base |-> 0, Freq |-> 1, TimeRefCount |-> 2,
    ReferenceTsc |-> 3, HcallRemoteTlbFlush |-> 4, ApicAssist |-> 5,
    CrashCtl |-> 6, Synic |-> 7, Stimer |-> 8, HcallIpi |-> 9,
    ExProcessorMasks |-> 10, NoVpLimit |-> 11, CpuHotplug |-> 12]

Hdtype == [Ide |-> 1, Ahci |-> 2]

CheckpointedStream == [None |-> 0, Remus |-> 1, Colo |-> 2]

VuartType == [Unknown |-> 0, SbsaUart |-> 1]

VkbBackend == [Unknown |-> 0, Qemu |-> 1, Linux |-> 2]

VirtioTransport == [Unknown |-> 0, Mmio |-> 1]

Passthrough == [Default |-> 0, Disabled |-> 1, Enabled |-> 2, SyncPt |-> 3,
    SharePt |-> 4]

SmbiosType == [BiosVendor |-> 1, BiosVersion |-> 2, SystemManufacturer |-> 3,
    SystemProductName |-> 4, SystemVersion |-> 5, SystemSerialNumber |-> 6,
    BaseboardManufacturer |-> 7, BaseboardProductName |-> 8,
    BaseboardVersion |-> 9, BaseboardSerialNumber |-> 10,
    BaseboardAssetTag |-> 11, BaseboardLocationInChassis |-> 12,
    EnclosureManufacturer |-> 13, EnclosureSerialNumber |-> 14,
    EnclosureAssetTag |-> 15, BatteryManufacturer |-> 16,
    BatteryDeviceName |-> 17, Oem |-> 18]

GicVersion == [Default |-> 0, V2 |-> 32, V3 |-> 48]

TeeType == [None |-> 0, Optee |-> 1, Ffa |-> 2]

SveType == ("Hw" :> -1) @@ ("Disabled" :> 0) @@ ("128" :> 128) @@
    ("256" :> 256) @@ ("384" :> 384) @@ ("512" :> 512) @@ ("640" :> 640) @@
    ("768" :> 768) @@ ("896" :> 896) @@ ("1024" :> 1024) @@
    ("1152" :> 1152) @@ ("1280" :> 1280) @@ ("1408" :> 1408) @@
    ("1536" :> 1536) @@ ("1664" :> 1664) @@ ("1792" :> 1792) @@
    ("1920" :> 1920) @@ ("2048" :> 2048)

Altp2MMode == [Disabled |-> 0, Mixed |-> 1, External |-> 2, Limited |-> 3]

UsbctrlType == [Auto |-> 0, Pv |-> 1, Devicemodel |-> 2, Qusb |-> 3]

UsbdevType == [Hostdev |-> 1]

VsndPcmFormat == [S8 |-> 1, U8 |-> 2, S16Le |-> 3, S16Be |-> 4, U16Le |-> 5,
    U16Be |-> 6, S24Le |-> 7, S24Be |-> 8, U24Le |-> 9, U24Be |-> 10,
    S32Le |-> 11, S32Be |-> 12, U32Le |-> 13, U32Be |-> 14, F32Le |-> 15,
    F32Be |-> 16, F64Le |-> 17, F64Be |-> 18, Iec958SubframeLe |-> 19,
    Iec958SubframeBe |-> 20, MuLaw |-> 21, ALaw |-> 22, ImaAdpcm |-> 23,
    Mpeg |-> 24, Gsm |-> 25]

VsndStreamType == [P |-> 1, C |-> 2]

EventType == [DomainShutdown |-> 1, DomainDeath |-> 2, DiskEject |-> 3,
    OperationComplete |-> 4, DomainCreateConsoleAvailable |-> 5]

PsrCmtType == [CacheOccupancy |-> 1, TotalMemCount |-> 2, LocalMemCount |-> 3]

PsrCbmType == [Unknown |-> 0, L3Cbm |-> 1, L3CbmCode |-> 2, L3CbmData |-> 3,
    L2Cbm |-> 4, MbaThrtl |-> 5]

PsrFeatType == [Cat |-> 1, Mba |-> 2]

(* Every enumeration of the package, by the name of its Go type. *)
Enums == [Error |-> Error, DomainType |-> DomainType,
    RdmReserveStrategy |-> RdmReserveStrategy,
    RdmReservePolicy |-> RdmReservePolicy,
    ChannelConnection |-> ChannelConnection,
    DeviceModelVersion |-> DeviceModelVersion, ConsoleType |-> ConsoleType,
    DiskFormat |-> DiskFormat, DiskBackend |-> DiskBackend,
    DiskSpecification |-> DiskSpecification, DiskTransport |-> DiskTransport,
    NicType |-> NicType, P9Type |-> P9Type,
    ActionOnShutdown |-> ActionOnShutdown, Trigger |-> Trigger,
    TscMode |-> TscMode, GfxPassthruKind |-> GfxPassthruKind,
    TimerMode |-> TimerMode, BiosType |-> BiosType, Scheduler |-> Scheduler,
    ShutdownReason |-> ShutdownReason, VgaInterfaceType |-> VgaInterfaceType,
    VendorDevice |-> VendorDevice,
    ViridianEnlightenment |-> ViridianEnlightenment, Hdtype |-> Hdtype,
    CheckpointedStream |-> CheckpointedStream, VuartType |-> VuartType,
    VkbBackend |-> VkbBackend, VirtioTransport |-> VirtioTransport,
    Passthrough |-> Passthrough, SmbiosType |-> SmbiosType,
    GicVersion |-> GicVersion, TeeType |-> TeeType, SveType |-> SveType,
    Altp2MMode |-> Altp2MMode, UsbctrlType |-> UsbctrlType,
    UsbdevType |-> UsbdevType, VsndPcmFormat |-> VsndPcmFormat,
    VsndStreamType |-> VsndStreamType, EventType |-> EventType,
    PsrCmtType |-> PsrCmtType, PsrCbmType |-> PsrCbmType,
    PsrFeatType |-> PsrFeatType]

(* The name of the Go constant for label l of enumeration e: the type     *)
(* name followed by the label, as in ErrorNonspecific or SveType128.      *)
ConstName(e, l) == e \o l

(* The Go zero value of every enumeration type: an int field that is      *)
(* never assigned holds 0, whether or not 0 is one of the declared labels. *)
ZeroValue == 0

=============================================================================
