--------------------------- MODULE DeviceScreens ----------------------------
(***************************************************************************)
(* The pages about devices and requests for devices.                       *)
(***************************************************************************)
EXTENDS Screens

\* What the requester sees; managers and administrators find others' there.
MyDeviceRequestsPage ==
    Part({Query("my-device-requests", "requests", RequestStatus, Never)}, {}, {Link("/devices/request")})

\* Shows a note of success on the page itself.
DeviceRequestPage ==
    Part({Query("device-types", "device types", DeviceStatus, Never)},
         {Form(<<"request">>, {}, Stay)}, {Link("/devices/my-requests")})

-----------------------------------------------------------------------------
(* The queue of requests to fulfil.                                        *)

\* The devices to choose from are read for the dialog and not after it.
AllocateModal ==
    Part({AskedQuery("devices-available", "devices", {"AVAILABLE"}, Never)},
         {Button(<<<<"allocate">>>>, "device-requests", {"PENDING_FULFILMENT"}, {"device-requests"})}, {})

DeviceRequestQueuePage ==
    Together(Part({Query("device-requests", "requests", RequestStatus, 30)}, {}, {}), AllocateModal)

-----------------------------------------------------------------------------
(* The register.                                                           *)

AddDeviceModal == Part({}, {Form(<<"register">>, {"devices"}, Stay)}, {})

RecordReturnModal == Part({}, {Button(<<<<"return">>>>, "devices", {"ALLOCATED"}, {"devices"})}, {})

DeviceTable ==
    Part({Query("devices", "devices", DeviceStatus, Never)},
         {Button(<<<<"set", "RETIRED">>>>, "devices", DeviceStatus \ {"RETIRED", "ALLOCATED"}, {"devices"})},
         {Link("/admin/devices/import")})

DeviceRegisterPage == Page(<<AddDeviceModal, RecordReturnModal, DeviceTable>>)
=============================================================================
