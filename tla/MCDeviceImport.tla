--------------------------- MODULE MCDeviceImport ---------------------------
(***************************************************************************)
(* DeviceImport for TLC: two small workbooks.  One names a device by its   *)
(* asset number and one by its serial number.  The other has the same      *)
(* asset number in other letters below a line that is no header, and a     *)
(* second sheet with a row of no device and one of a registered device.    *)
(***************************************************************************)
EXTENDS DeviceImport, TLC

CONSTANTS ada, alan

MCWords ==
    [c \in {"Asset Number", "Service Tag", "RAM", "Asst ID", "Device", "Asset Status"} |->
        CASE c = "Asset Number" -> {"asset number"} [] c = "Service Tag" -> {"service tag"}
          [] c = "RAM" -> {"ram"} [] c = "Asst ID" -> {"asst id"}
          [] c = "Device" -> {"device"} [] OTHER -> {"asset status"}]
    @@ "iPhone 12" :> {"iphone", "phone"} @@ "Apple TV" :> {"apple tv"} @@ "in use" :> {"in use"}
    @@ "Laptops" :> {} @@ "Smart" :> {"smart"}
    @@ [c \in {Blank, "A1", "a1", "A2", "S1", "S2", "16"} |-> {}]

MCCells == DOMAIN MCWords
MCFolded == [c \in MCCells |-> IF c = "a1" THEN "A1" ELSE c]

Heads == <<"Asset Number", "Service Tag", "RAM">>
SmartHeads == <<"Asst ID", "Device", "Asset Status">>

MCWorkbook ==
    [f \in Files |->
       CASE f = "first"  -> << [name |-> "Laptops", lines |-> <<Heads, <<"A1", "S1", "16">>, <<Blank, "S2">> >>] >>
         [] OTHER -> << [name |-> "Laptops", lines |-> << <<"Laptops">>, Heads, <<"a1", "S1">> >>],
                               [name |-> "Smart", lines |-> <<SmartHeads, <<Blank, "Apple TV", "in use">>,
                                                             <<"A2", "iPhone 12", "in use">> >>] >>]

MCInitialDevices == <<"iPhone", 1>> :> [asset |-> "A2", serial |-> Blank]
MCByHand == {<<"Laptop", "S2">>, <<"iPhone", "S2">>}
MCTwins == Permutations({ada, alan})
=============================================================================
