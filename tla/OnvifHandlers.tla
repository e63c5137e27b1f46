---------------------------- MODULE OnvifHandlers ----------------------------
(***************************************************************************)
(* The operations of the Device, Media and PTZ services that are accepted  *)
(* and do nothing: SOAP_EMPTY_HANDLER of smacros.h.  A client is told that *)
(* its scopes, certificates or presets are set, and they are not.          *)
(***************************************************************************)

(* The Device service *)

SystemHandlers ==
   {"SetSystemDateAndTime", "SetSystemFactoryDefault",
    "UpgradeSystemFirmware", "SystemReboot", "RestoreSystem",
    "GetSystemBackup", "GetSystemLog", "GetSystemSupportInformation"}

DiscoveryHandlers ==
   {"SetScopes", "AddScopes", "RemoveScopes", "GetDiscoveryMode",
    "SetDiscoveryMode", "GetRemoteDiscoveryMode", "SetRemoteDiscoveryMode",
    "GetDPAddresses", "GetEndpointReference", "GetRemoteUser",
    "SetRemoteUser", "CreateUsers", "DeleteUsers", "SetUser", "GetWsdlUrl"}

HostHandlers ==
   {"SetDPAddresses", "GetHostname", "SetHostname", "SetHostnameFromDHCP",
    "GetDNS", "SetDNS", "GetNTP", "SetNTP", "GetDynamicDNS", "SetDynamicDNS"}

NetworkHandlers ==
   {"SetNetworkInterfaces", "GetNetworkProtocols", "SetNetworkProtocols",
    "GetNetworkDefaultGateway", "SetNetworkDefaultGateway",
    "GetZeroConfiguration", "SetZeroConfiguration", "GetIPAddressFilter",
    "SetIPAddressFilter", "AddIPAddressFilter", "RemoveIPAddressFilter"}

CertificateHandlers ==
   {"GetAccessPolicy", "SetAccessPolicy", "CreateCertificate",
    "GetCertificates", "GetCertificatesStatus", "SetCertificatesStatus",
    "DeleteCertificates", "GetPkcs10Request", "LoadCertificates",
    "GetClientCertificateMode", "SetClientCertificateMode", "GetRelayOutputs",
    "SetRelayOutputSettings", "SetRelayOutputState", "SendAuxiliaryCommand",
    "GetCACertificates", "LoadCertificateWithPrivateKey",
    "GetCertificateInformation", "LoadCACertificates"}

WirelessHandlers ==
   {"CreateDot1XConfiguration", "SetDot1XConfiguration",
    "GetDot1XConfiguration", "GetDot1XConfigurations",
    "DeleteDot1XConfiguration", "GetDot11Capabilities", "GetDot11Status",
    "ScanAvailableDot11Networks"}

StorageHandlers ==
   {"GetSystemUris", "StartFirmwareUpgrade", "StartSystemRestore",
    "GetStorageConfigurations", "CreateStorageConfiguration",
    "GetStorageConfiguration", "SetStorageConfiguration",
    "DeleteStorageConfiguration", "GetGeoLocation", "SetGeoLocation",
    "DeleteGeoLocation"}

(* The Media service *)

AudioHandlers ==
   {"GetAudioSources", "GetAudioOutputs", "CreateProfile"}

ProfileHandlers ==
   {"AddVideoEncoderConfiguration", "AddVideoSourceConfiguration",
    "AddAudioEncoderConfiguration", "AddAudioSourceConfiguration",
    "AddPTZConfiguration", "AddVideoAnalyticsConfiguration",
    "AddMetadataConfiguration", "AddAudioOutputConfiguration",
    "AddAudioDecoderConfiguration", "RemoveVideoEncoderConfiguration",
    "RemoveVideoSourceConfiguration", "RemoveAudioEncoderConfiguration",
    "RemoveAudioSourceConfiguration", "RemovePTZConfiguration",
    "RemoveVideoAnalyticsConfiguration", "RemoveMetadataConfiguration",
    "RemoveAudioOutputConfiguration", "RemoveAudioDecoderConfiguration",
    "DeleteProfile"}

ConfigurationHandlers ==
   {"GetVideoSourceConfigurations", "GetVideoEncoderConfigurations",
    "GetAudioSourceConfigurations", "GetAudioEncoderConfigurations",
    "GetVideoAnalyticsConfigurations", "GetMetadataConfigurations",
    "GetAudioOutputConfigurations", "GetAudioDecoderConfigurations",
    "GetVideoSourceConfiguration", "GetVideoEncoderConfiguration",
    "GetAudioSourceConfiguration", "GetAudioEncoderConfiguration",
    "GetVideoAnalyticsConfiguration", "GetMetadataConfiguration",
    "GetAudioOutputConfiguration", "GetAudioDecoderConfiguration",
    "GetCompatibleVideoEncoderConfigurations",
    "GetCompatibleVideoSourceConfigurations"}

CompatibleHandlers ==
   {"GetCompatibleAudioEncoderConfigurations",
    "GetCompatibleAudioSourceConfigurations",
    "GetCompatibleVideoAnalyticsConfigurations",
    "GetCompatibleMetadataConfigurations",
    "GetCompatibleAudioOutputConfigurations",
    "GetCompatibleAudioDecoderConfigurations", "SetVideoSourceConfiguration",
    "SetVideoEncoderConfiguration", "SetAudioSourceConfiguration",
    "SetAudioEncoderConfiguration", "SetVideoAnalyticsConfiguration",
    "SetMetadataConfiguration", "SetAudioOutputConfiguration",
    "SetAudioDecoderConfiguration", "GetVideoSourceConfigurationOptions",
    "GetVideoEncoderConfigurationOptions",
    "GetAudioSourceConfigurationOptions",
    "GetAudioEncoderConfigurationOptions", "GetMetadataConfigurationOptions",
    "GetAudioOutputConfigurationOptions",
    "GetAudioDecoderConfigurationOptions",
    "GetGuaranteedNumberOfVideoEncoderInstances"}

StreamingHandlers ==
   {"StartMulticastStreaming", "StopMulticastStreaming",
    "SetSynchronizationPoint"}

ModeHandlers ==
   {"GetVideoSourceModes", "SetVideoSourceMode", "GetOSDs", "GetOSD",
    "GetOSDOptions", "SetOSD", "CreateOSD", "DeleteOSD"}

(* The PTZ service *)

PtzConfigurationHandlers ==
   {"PTZ GetServiceCapabilities", "GetConfigurations"}

PtzPresetHandlers ==
   {"SetPreset", "RemovePreset"}

PtzStatusHandlers ==
   {"GetStatus", "GetConfiguration"}

PtzOptionHandlers ==
   {"SetConfiguration", "GetConfigurationOptions", "SetHomePosition"}

PtzMoveHandlers ==
   {"PTZ SendAuxiliaryCommand", "AbsoluteMove"}

PtzTourHandlers ==
   {"GetPresetTours", "GetPresetTour", "GetPresetTourOptions",
    "CreatePresetTour", "ModifyPresetTour", "OperatePresetTour",
    "RemovePresetTour", "GetCompatibleConfigurations"}

EmptyHandlers ==
    SystemHandlers \cup DiscoveryHandlers \cup HostHandlers \cup
    NetworkHandlers \cup CertificateHandlers \cup WirelessHandlers \cup
    StorageHandlers \cup AudioHandlers \cup ProfileHandlers \cup
    ConfigurationHandlers \cup CompatibleHandlers \cup StreamingHandlers
    \cup ModeHandlers \cup PtzConfigurationHandlers \cup PtzPresetHandlers
    \cup PtzStatusHandlers \cup PtzOptionHandlers \cup PtzMoveHandlers \cup
    PtzTourHandlers

==============================================================================
