CONSTANTS
  Paikat = {c1, c2}
  Nil = Nil
  Metodit <- MCMetodit
  Sivut <- MCSivut
  Laji <- MCLaji
  Alkusivu = "lista"
  Haku <- MCHaku
  Tallennus <- MCTallennus
  Henkilohaku = "hae-henkilo-toimikunnan-jaseneksi"
  Henkilotallennus = "uusi-henkilo"
  Nappi <- MCNappi
  Paluu <- MCPaluu
  Peruutus <- MCPeruutus
SPECIFICATION ReiluSpec
INVARIANT TyyppiOK LaskuritTasmaavat EiRinnakkaisiaTallennuksia MuokkaussivuVaroittaa
PROPERTY NappiVapautuu
