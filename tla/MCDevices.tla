----------------------------- MODULE MCDevices -----------------------------
(* Where sound and pictures come from and go to: the audio and video of a  *)
(* call with the buffer between network and device, the device and display *)
(* drivers, the radio stream and the two mixers.  They share no variable:  *)
(* part says which one a behaviour is about, the others stay in one state. *)
(* Two displays of X11 share nothing either: there is one.                 *)
EXTENDS Devices, Mixers, Streams

CONSTANT Parts

VARIABLE part

(* Only opus runs at another rate than the device. *)
MCSrate == [c \in Codec |-> IF c = "opus" THEN 2 ELSE 1]

vars == <<part, devVars, waveVars, dispVars, rstVars, mixVars, vidmixVars,
          aubufVars, audioVars, videoVars>>

Init ==
  /\ part \in Parts
  /\ DevInit /\ (part # "dev" => dev = "alsa_src")
  /\ WaveInit /\ (part # "wave" => wdir = "play")
  /\ DispInit /\ (part # "disp" => driver = "x11")
  /\ RstInit /\ (part # "rst" => isname /\ icy = RstBegin(0))
  /\ AumixInit
  /\ VidmixInit /\ (part # "vidmix" => crowd = {})
  /\ AubufInit
  /\ AudioInit /\ (part # "audio" => au.mode = "poll")
  /\ VideoInit

Next ==
  /\ UNCHANGED part
  /\ \/ /\ part = "dev" /\ DevNext
        /\ UNCHANGED <<waveVars, dispVars, rstVars, mixVars, vidmixVars,
                       aubufVars, audioVars, videoVars>>
     \/ /\ part = "wave" /\ WaveNext
        /\ UNCHANGED <<devVars, dispVars, rstVars, mixVars, vidmixVars,
                       aubufVars, audioVars, videoVars>>
     \/ /\ part = "disp" /\ DispNext
        /\ driver = "x11" => \A w \in Win \ {1} : disp'[w] = disp[w]
        /\ UNCHANGED <<devVars, waveVars, rstVars, mixVars, vidmixVars,
                       aubufVars, audioVars, videoVars>>
     \/ /\ part = "rst" /\ RstNext
        /\ UNCHANGED <<devVars, waveVars, dispVars, mixVars, vidmixVars,
                       aubufVars, audioVars, videoVars>>
     \/ /\ part = "aumix" /\ AumixNext
        /\ UNCHANGED <<devVars, waveVars, dispVars, rstVars, vidmixVars,
                       aubufVars, audioVars, videoVars>>
     \/ /\ part = "vidmix" /\ VidmixNext
        /\ UNCHANGED <<devVars, waveVars, dispVars, rstVars, mixVars,
                       aubufVars, audioVars, videoVars>>
     \/ /\ part = "aubuf" /\ AubufNext
        /\ UNCHANGED <<devVars, waveVars, dispVars, rstVars, mixVars,
                       vidmixVars, audioVars, videoVars>>
     \/ /\ part = "audio" /\ AudioNext
        /\ UNCHANGED <<devVars, waveVars, dispVars, rstVars, mixVars,
                       vidmixVars, aubufVars, videoVars>>
     \/ /\ part = "video" /\ VideoNext
        /\ UNCHANGED <<devVars, waveVars, dispVars, rstVars, mixVars,
                       vidmixVars, aubufVars, audioVars>>

Spec == Init /\ [][Next]_vars

----------------------------------------------------------------------------
(* No driver's thread or callback uses what was released; sound is read in *)
(* the order in which it was written, by devices that fit the codecs; the  *)
(* threads of a stream lose nothing that they use when it stops or ends,   *)
(* and a codec or filter only to the changes that the code does not guard; *)
(* and a request for a full picture is kept until one is encoded           *)
(* (DeviceSafe, AubufSound, DevicesFit and VideoSound).                    *)
MediaFits ==
  /\ part = "dev" => DeviceSafe
  /\ part = "aubuf" => AubufSound
  /\ part = "audio" => DevicesFit
  /\ part = "video" => VideoSound
=============================================================================
