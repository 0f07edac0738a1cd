------------------------------ MODULE Outputs -------------------------------
(***************************************************************************)
(* What a board shows and sends beside the schedule of its transmissions:  *)
(* its lights, its telemetry over USB, the messages it makes of an         *)
(* identity and the radios it hands them to.  They share nothing that      *)
(* changes, so an instance looks at one of them at a time; the radios are  *)
(* handed messages of every number, those the encoder makes among them.    *)
(***************************************************************************)
EXTENDS Lights, UsbTelemetry, EspRadio, Transmitter

VARIABLE bench   (* the one that is looked at *)

outputsVars == <<lightsVars, usbVars, radioVars, vars, bench>>

OutputsInit ==
  /\ bench \in {"lights", "usb", "radio", "messages"}
  /\ LightsInit /\ (bench # "lights" => pins = CHOOSE p \in PinConfigs : TRUE)
  /\ UsbInit
  /\ RadioInit /\ (bench = "usb" => Usb(chip))
  /\ Init /\ (bench # "messages" => region = CHOOSE r \in RegionChoices : TRUE)
  /\ bench # "radio" => /\ ssid = Truncated(CHOOSE s \in Ssids : TRUE)
                        /\ ble_up = FALSE /\ chip = "esp32c6"

OutputsNext ==
  \/ bench = "lights" /\ LightsNext /\ UNCHANGED <<usbVars, radioVars, vars, bench>>
  \/ bench = "usb" /\ UsbNext /\ UNCHANGED <<lightsVars, radioVars, vars, bench>>
  \/ bench = "radio" /\ RadioNext /\ UNCHANGED <<lightsVars, usbVars, vars, bench>>
  \/ bench = "messages" /\ Next /\ UNCHANGED <<lightsVars, usbVars, radioVars, bench>>

OutputsSpec == OutputsInit /\ [][OutputsNext]_outputsVars
=============================================================================
